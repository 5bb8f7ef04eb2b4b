-------------------------------- MODULE BPTreeProofs --------------------------------
(***************************************************************************)
(* The nodes of bptree.c are a search tree after every call, for every     *)
(* order of the keys, size of the nodes and failing allocation; searches   *)
(* find what IdIndex promises, and a failed call loses the newest keys.    *)
(***************************************************************************)
EXTENDS BPTree, Induction, SequenceTheorems

-------------------------------------------------------------------------------
\* Sequences

\* The places of a sequence that come before i, its neighbour and the ones behind.
LEMMA InsertedAt ==
  ASSUME NEW S, NEW s \in Seq(S), NEW i \in 1..(Len(s) + 1), NEW e \in S
  PROVE  /\ InsertAt(s, i, e) \in Seq(S) /\ Len(InsertAt(s, i, e)) = Len(s) + 1
         /\ \A j \in 1..(Len(s) + 1) :
              InsertAt(s, i, e)[j] =
                IF j < i THEN s[j] ELSE IF j = i THEN e ELSE s[j - 1]
<1> DEFINE a == SubSeq(s, 1, i - 1)
           b == SubSeq(s, i, Len(s))
           n == Len(s)
<1>1. n \in Nat /\ s \in [1..n -> S]
  BY LenProperties
<1>2. /\ a \in Seq(S) /\ Len(a) = i - 1
      /\ \A j \in 1..(i - 1) : a[j] = s[j]
  <2>1. \A j \in 1..(i - 1) : s[j] \in S
    BY <1>1
  <2>2. 1 \in Int /\ i - 1 \in Int /\ (1 <= i - 1 \/ i - 1 = 0)
    BY <1>1
  <2> QED  BY <2>1, <2>2, SubSeqProperties
<1>3. /\ b \in Seq(S) /\ Len(b) = n - i + 1
      /\ \A j \in 1..(n - i + 1) : b[j] = s[i + j - 1]
  <2>1. \A j \in i..n : s[j] \in S
    BY <1>1
  <2>2. i \in Int /\ n \in Int /\ (i <= n \/ i = n + 1)
    BY <1>1
  <2> QED  BY <2>1, <2>2, SubSeqProperties
<1> HIDE DEF a, b
<1>4. <<e>> \in Seq(S) /\ Len(<<e>>) = 1 /\ <<e>>[1] = e
  OBVIOUS
<1> DEFINE c == a \o <<e>>
<1>5. /\ c \in Seq(S) /\ Len(c) = i
      /\ \A j \in 1..i : c[j] = IF j < i THEN s[j] ELSE e
  <2>1. /\ c \in Seq(S) /\ Len(c) = Len(a) + 1
        /\ \A j \in 1..(Len(a) + 1) : c[j] = IF j <= Len(a) THEN a[j] ELSE <<e>>[j - Len(a)]
    BY <1>2, <1>4, ConcatProperties
  <2> HIDE DEF c
  <2> QED  BY <1>1, <1>2, <1>4, <2>1
<1> HIDE DEF c
<1>6. /\ c \o b \in Seq(S) /\ Len(c \o b) = n + 1
      /\ \A j \in 1..(n + 1) : (c \o b)[j] = IF j <= i THEN c[j] ELSE b[j - i]
  <2>1. /\ c \o b \in Seq(S) /\ Len(c \o b) = Len(c) + Len(b)
        /\ \A j \in 1..(Len(c) + Len(b)) :
             (c \o b)[j] = IF j <= Len(c) THEN c[j] ELSE b[j - Len(c)]
    BY <1>3, <1>5, ConcatProperties
  <2> QED  BY <1>1, <1>3, <1>5, <2>1
<1> DEFINE d == c \o b
<1>7. InsertAt(s, i, e) = d
  BY DEF InsertAt, a, b, c
<1> HIDE DEF d
<1>8. ASSUME NEW j \in 1..(n + 1)
      PROVE  d[j] = IF j < i THEN s[j] ELSE IF j = i THEN e ELSE s[j - 1]
  <2>1. CASE j <= i
    BY <1>1, <1>5, <1>6, <2>1 DEF d
  <2>2. CASE j > i
    <3>1. d[j] = b[j - i] /\ j - i \in 1..(n - i + 1) /\ i + (j - i) - 1 = j - 1
      BY <1>1, <1>6, <2>2 DEF d
    <3>2. b[j - i] = s[i + (j - i) - 1]
      BY <1>3, <3>1
    <3>3. b[j - i] = s[j - 1] /\ ~(j < i) /\ j # i
      BY <1>1, <2>2, <3>1, <3>2
    <3> QED  BY <3>1, <3>3
  <2> QED  BY <1>1, <2>1, <2>2
<1> QED  BY <1>6, <1>7, <1>8 DEF d

\* A part of a sequence.
LEMMA Part ==
  ASSUME NEW S, NEW s \in Seq(S), NEW i \in 1..(Len(s) + 1), NEW j \in (i - 1)..Len(s)
  PROVE  /\ SubSeq(s, i, j) \in Seq(S) /\ Len(SubSeq(s, i, j)) = j - i + 1
         /\ \A m \in 1..(j - i + 1) : SubSeq(s, i, j)[m] = s[i + m - 1]
<1>1. Len(s) \in Nat /\ s \in [1..Len(s) -> S]
  BY LenProperties
<1>2. \A m \in i..j : s[m] \in S
  BY <1>1
<1>3. i \in Int /\ j \in Int /\ (i <= j \/ j = i - 1)
  BY <1>1
<1> QED  BY <1>2, <1>3, SubSeqProperties

LEMMA FrontPart ==
  ASSUME NEW S, NEW s \in Seq(S), NEW h \in 0..Len(s)
  PROVE  /\ SubSeq(s, 1, h) \in Seq(S) /\ Len(SubSeq(s, 1, h)) = h
         /\ \A m \in 1..h : SubSeq(s, 1, h)[m] = s[m]
<1>1. Len(s) \in Nat
  BY LenProperties
<1>2. 1 \in 1..(Len(s) + 1) /\ h \in (1 - 1)..Len(s)
  BY <1>1
<1>3. PICK t : t = SubSeq(s, 1, h)
  OBVIOUS
<1>4. /\ t \in Seq(S) /\ Len(t) = h - 1 + 1
      /\ \A m \in 1..(h - 1 + 1) : t[m] = s[1 + m - 1]
  BY <1>2, <1>3, Part
<1> QED  BY <1>1, <1>3, <1>4

LEMMA BackPart ==
  ASSUME NEW S, NEW s \in Seq(S), NEW i \in 1..(Len(s) + 1)
  PROVE  /\ SubSeq(s, i, Len(s)) \in Seq(S) /\ Len(SubSeq(s, i, Len(s))) = Len(s) - i + 1
         /\ \A m \in 1..(Len(s) - i + 1) : SubSeq(s, i, Len(s))[m] = s[i + m - 1]
<1>1. Len(s) \in Nat
  BY LenProperties
<1>2. Len(s) \in (i - 1)..Len(s)
  BY <1>1
<1> QED  BY <1>2, Part

\* The first place of a nonempty set of places.
LEMMA FirstPlace ==
  ASSUME NEW n \in Nat, NEW I, I \subseteq 1..n
  PROVE  I # {} => Min(I) \in I /\ \A j \in I : Min(I) <= j
<1> SUFFICES ASSUME I # {} PROVE Min(I) \in I /\ \A j \in I : Min(I) <= j
  OBVIOUS
<1>0. I \subseteq Nat
  OBVIOUS
<1>1. \E i \in I : \A j \in I : i <= j
  BY <1>0, LeastNatural
<1> QED  BY <1>1 DEF Min

\* Between which keys the search goes down.
LEMMA ChildIndexFits ==
  ASSUME NEW keys \in Seq(Nat), NEW k \in Nat
  PROVE  LET i == ChildIndex(keys, k)
         IN /\ i \in 1..(Len(keys) + 1)
            /\ \A j \in 1..(i - 1) : keys[j] <= k
            /\ i <= Len(keys) => k < keys[i]
<1> DEFINE n == Len(keys)
           I == { j \in 1..n : k < keys[j] }
           i == ChildIndex(keys, k)
<1>1. n \in Nat /\ \A j \in 1..n : keys[j] \in Nat
  BY LenProperties
<1>2. i = IF I # {} THEN IF Min(I) = 0 THEN n + 1 ELSE Min(I) ELSE n + 1
  BY DEF ChildIndex, SelectInSeq
<1>3. I # {} => Min(I) \in I /\ \A j \in I : Min(I) <= j
  BY <1>1, FirstPlace
<1> HIDE DEF i
<1>4. CASE I = {}
  BY <1>1, <1>2, <1>4 DEF i
<1>5. CASE I # {}
  <2>1. i = Min(I) /\ i \in 1..n /\ k < keys[i]
    BY <1>2, <1>3, <1>5
  <2>2. ASSUME NEW j \in 1..(i - 1) PROVE j \in 1..n /\ ~(k < keys[j])
    <3>1. j \in 1..n /\ ~(i <= j)
      BY <1>1, <2>1
    <3>2. j \notin I
      <4> HIDE DEF I
      <4> QED  BY <1>3, <1>5, <2>1, <3>1
    <3> QED  BY <1>1, <3>1, <3>2
  <2> QED  BY <1>1, <2>1, <2>2 DEF i
<1> QED  BY <1>4, <1>5

\* Where a key goes among ascending keys.
LEMMA InsertIndexFits ==
  ASSUME NEW keys \in Seq(Nat), NEW k \in Nat
  PROVE  LET i == InsertIndex(keys, k)
         IN /\ i \in 1..(Len(keys) + 1)
            /\ \A j \in 1..(i - 1) : keys[j] < k
            /\ i <= Len(keys) => k <= keys[i]
<1> DEFINE n == Len(keys)
           I == { j \in 1..n : ~(keys[j] < k) }
           i == InsertIndex(keys, k)
<1>1. n \in Nat /\ \A j \in 1..n : keys[j] \in Nat
  BY LenProperties
<1>2. i = IF I # {} THEN IF Min(I) = 0 THEN n + 1 ELSE Min(I) ELSE n + 1
  BY DEF InsertIndex, SelectInSeq
<1>3. I # {} => Min(I) \in I /\ \A j \in I : Min(I) <= j
  BY <1>1, FirstPlace
<1> HIDE DEF i
<1>4. CASE I = {}
  BY <1>1, <1>2, <1>4 DEF i
<1>5. CASE I # {}
  <2>1. i = Min(I) /\ i \in 1..n /\ ~(keys[i] < k)
    BY <1>2, <1>3, <1>5
  <2>2. ASSUME NEW j \in 1..(i - 1) PROVE j \in 1..n /\ keys[j] < k
    <3>1. j \in 1..n /\ ~(i <= j)
      BY <1>1, <2>1
    <3>2. j \notin I
      <4> HIDE DEF I
      <4> QED  BY <1>3, <1>5, <2>1, <3>1
    <3> QED  BY <1>1, <3>1, <3>2
  <2> QED  BY <1>1, <2>1, <2>2 DEF i
<1> QED  BY <1>4, <1>5

-------------------------------------------------------------------------------
\* The inductive invariant

\* Parent pointers and equal depth: of every node calloc handed out, in the
\* tree or lost from it, all subtrees are one level lower.
KidsInv(height) ==
  \A n \in Allocated :
    /\ node[n].leaf => node[n].kids = <<>> /\ height[n] = 0
    /\ \A i \in 1..Len(node[n].kids) :
         /\ node[n].kids[i] \in Allocated
         /\ height[n] = height[node[n].kids[i]] + 1
         /\ node[node[n].kids[i]].parent = n
         /\ \A j \in 1..Len(node[n].kids) : node[n].kids[j] = node[n].kids[i] => j = i

Ascending(s) == \A i, j \in 1..Len(s) : i < j => s[i] < s[j]

\* below[n] has the keys of the subtree of n and the separators in it.
KeysInv(below) ==
  \A n \in Allocated :
    /\ \A j \in 1..Len(node[n].keys) : node[n].keys[j] \in below[n]
    /\ Ascending(node[n].keys)
    /\ \A i \in 1..Len(node[n].kids) : \A x \in below[node[n].kids[i]] :
         /\ x \in below[n]
         /\ i > 1 => node[n].keys[i - 1] <= x
         /\ i <= Len(node[n].keys) => x < node[n].keys[i]

\* The nodes of U hang below the root.
Attached(U) ==
  /\ U \subseteq Allocated
  /\ \A n \in U : \/ n = root
                  \/ /\ node[n].parent \in U
                     /\ \E i \in 1..Len(node[node[n].parent].kids) :
                          node[node[n].parent].kids[i] = n

\* The upper half of a split is in no node yet, but will fit behind the lower.
SplitInv(height, below) ==
  LET left == split.left
      right == split.right
      p == node[left].parent
  IN step = "parent" =>
       /\ split \in [left : Node, key : Key, right : Node] /\ inserting \in Key
       /\ left \in Allocated /\ right \in Allocated /\ left # right /\ right # root
       /\ height[left] = height[right]
       /\ node[right].parent = p
       /\ \A n \in Allocated : \A i \in 1..Len(node[n].kids) : node[n].kids[i] # right
       /\ \A x \in below[left] : x < split.key
       /\ \A x \in below[right] : split.key <= x
       /\ \E U : left \in U /\ Attached(U)
       /\ p # NULL =>
            /\ split.key \in below[p] /\ below[right] \subseteq below[p]
            /\ \A i \in 1..Len(node[p].kids) : node[p].kids[i] = left =>
                 /\ i > 1 => node[p].keys[i - 1] < split.key
                 /\ i <= Len(node[p].keys) =>
                      /\ split.key < node[p].keys[i]
                      /\ \A x \in below[right] : x < node[p].keys[i]

TreeInv(top, height, below) ==
  /\ top \in Nat
  /\ height \in [Node -> 0..top]
  /\ below \in [Node -> SUBSET Key]
  /\ root # NULL => root \in Allocated /\ node[root].parent = NULL
  /\ step = "parent" => root # NULL
  /\ KidsInv(height)
  /\ KeysInv(below)
  /\ SplitInv(height, below)

TreeOK == \E top, height, below : TreeInv(top, height, below)

\* What TypeOK says of a node, and of all.
NodeOK(r) ==
  /\ r \in TreeNode
  /\ Len(r.keys) <= MaxKeys
  /\ IF r.leaf THEN Len(r.rows) = Len(r.keys) ELSE Len(r.kids) = Len(r.keys) + 1

NodesOK ==
  /\ node = [n \in Node |-> node[n]]
  /\ \A n \in Node : node[n] = NULL \/ NodeOK(node[n])

BPTreeInv ==
  /\ TypeOK
  /\ step # "freed" => NodesOK /\ TreeOK

-------------------------------------------------------------------------------
\* The way down

LEMMA NodeFields ==
  ASSUME NodesOK, NEW n \in Allocated
  PROVE  /\ n \in Node /\ node[n] \in TreeNode
         /\ node[n].leaf \in BOOLEAN
         /\ node[n].keys \in Seq(Key) /\ node[n].keys \in Seq(Nat)
         /\ node[n].kids \in Seq(Node) /\ node[n].rows \in Seq(Nat)
         /\ Len(node[n].keys) \in Nat /\ Len(node[n].kids) \in Nat
         /\ Len(node[n].keys) <= MaxKeys
         /\ \A j \in 1..Len(node[n].keys) : node[n].keys[j] \in Key
         /\ node[n].leaf => Len(node[n].rows) = Len(node[n].keys)
         /\ ~node[n].leaf => Len(node[n].kids) = Len(node[n].keys) + 1
         /\ node[n].parent \in Node \cup {NULL} /\ node[n].next \in Node \cup {NULL}
<1>1. /\ n \in Node /\ node[n] \in TreeNode /\ Len(node[n].keys) <= MaxKeys
      /\ IF node[n].leaf THEN Len(node[n].rows) = Len(node[n].keys)
                         ELSE Len(node[n].kids) = Len(node[n].keys) + 1
  BY DEF NodesOK, NodeOK, Allocated
<1>2. /\ node[n].leaf \in BOOLEAN /\ node[n].keys \in Seq(Key)
      /\ node[n].kids \in Seq(Node) /\ node[n].rows \in Seq(Nat)
      /\ node[n].parent \in Node \cup {NULL} /\ node[n].next \in Node \cup {NULL}
  BY <1>1 DEF TreeNode
<1>3. Key \subseteq Nat
  BY BPTreeAssumption DEF Key
<1>4. node[n].keys \in Seq(Nat)
  BY <1>2, <1>3, SeqMonotonic
<1>5. /\ Len(node[n].keys) \in Nat /\ Len(node[n].kids) \in Nat
      /\ \A j \in 1..Len(node[n].keys) : node[n].keys[j] \in Key
  BY <1>2
<1> QED  BY <1>1, <1>2, <1>4, <1>5

\* The child of n a search for k goes on with.
Routed(n, k) == node[n].kids[ChildIndex(node[n].keys, k)]

LEMMA RoutedKid ==
  ASSUME NodesOK, NEW height, KidsInv(height), NEW n \in Allocated, ~node[n].leaf, NEW k \in Key
  PROVE  /\ Routed(n, k) \in Allocated
         /\ height[n] = height[Routed(n, k)] + 1
         /\ node[Routed(n, k)].parent = n
         /\ ChildIndex(node[n].keys, k) \in 1..Len(node[n].kids)
<1>1. ChildIndex(node[n].keys, k) \in 1..(Len(node[n].keys) + 1)
  <2>1. node[n].keys \in Seq(Nat)
    BY NodeFields
  <2>2. k \in Nat
    BY DEF Key
  <2> QED  BY <2>1, <2>2, ChildIndexFits
<1>2. ChildIndex(node[n].keys, k) \in 1..Len(node[n].kids)
  BY <1>1, NodeFields
<1> QED  BY <1>2 DEF KidsInv, Routed

\* P is a way a search for k goes from a down to b.
WayDown(P, a, b, k) ==
  /\ P \subseteq Allocated /\ a \in P /\ b \in P
  /\ \A m \in P : \/ m = a
                  \/ /\ node[m].parent \in P /\ ~node[node[m].parent].leaf
                     /\ m = Routed(node[m].parent, k)

\* From every node a way leads to a leaf below it, and from the root to one only.
LEMMA WaysEnd ==
  ASSUME NodesOK, NEW top, NEW height, NEW below, TreeInv(top, height, below),
         root # NULL, NEW k \in Key
  PROVE  /\ FindLeaf(k) \in Allocated /\ node[FindLeaf(k)].leaf
         /\ \E P : WayDown(P, root, FindLeaf(k), k)
         /\ \A n \in Allocated : \E l \in Allocated :
              /\ node[l].leaf /\ below[l] \subseteq below[n]
              /\ \E P : WayDown(P, n, l, k)
         /\ \A l, P : WayDown(P, root, l, k) /\ node[l].leaf => l = FindLeaf(k)
<1> DEFINE Down(f, n) == IF node[n].leaf THEN n ELSE f[Routed(n, k)]
           Descends(f, h) == \A n \in Allocated : height[n] <= h => f[n] = Down(f, n)
           down == CHOOSE f : f = [n \in Allocated |-> Down(f, n)]
<1>1. /\ top \in Nat /\ KidsInv(height) /\ KeysInv(below) /\ root \in Allocated
      /\ \A n \in Allocated : height[n] \in Nat /\ height[n] <= top
  BY DEF TreeInv, Allocated
<1>2. ASSUME NEW n \in Allocated, ~node[n].leaf
      PROVE  /\ Routed(n, k) \in Allocated /\ height[n] = height[Routed(n, k)] + 1
             /\ node[Routed(n, k)].parent = n
             /\ below[Routed(n, k)] \subseteq below[n]
  <2>1. /\ Routed(n, k) \in Allocated /\ height[n] = height[Routed(n, k)] + 1
        /\ node[Routed(n, k)].parent = n
        /\ ChildIndex(node[n].keys, k) \in 1..Len(node[n].kids)
    BY <1>1, <1>2, RoutedKid
  <2>2. below[Routed(n, k)] \subseteq below[n]
    BY <1>1, <2>1 DEF KeysInv, Routed
  <2> QED  BY <2>1, <2>2
<1>3. \A h \in Nat : \E f : DOMAIN f = Allocated /\ f = [n \in Allocated |-> f[n]] /\ Descends(f, h)
  <2> DEFINE S == { h \in Nat : \E f : DOMAIN f = Allocated /\ f = [n \in Allocated |-> f[n]]
                                       /\ Descends(f, h) }
  <2>1. 0 \in S
    <3> DEFINE f == [n \in Allocated |-> n]
    <3>1. ASSUME NEW n \in Allocated, height[n] <= 0 PROVE f[n] = Down(f, n)
      <4>1. node[n].leaf
        <5> SUFFICES ASSUME ~node[n].leaf PROVE FALSE
          OBVIOUS
        <5> QED  BY <1>1, <1>2, <3>1
      <4> QED  BY <4>1
    <3>2. DOMAIN f = Allocated /\ f = [n \in Allocated |-> f[n]] /\ Descends(f, 0)
      BY <3>1
    <3> HIDE DEF f, Descends
    <3> QED  BY <3>2
  <2>2. ASSUME NEW h \in Nat, h \in S PROVE h + 1 \in S
    <3>1. PICK f : DOMAIN f = Allocated /\ f = [n \in Allocated |-> f[n]] /\ Descends(f, h)
      BY <2>2
    <3> DEFINE g == [n \in Allocated |-> IF height[n] <= h THEN f[n] ELSE Down(f, n)]
    <3>2. \A n \in Allocated : g[n] = IF height[n] <= h THEN f[n] ELSE Down(f, n)
      OBVIOUS
    <3>3. DOMAIN g = Allocated /\ g = [n \in Allocated |-> g[n]]
      <4> HIDE DEF Down
      <4> QED  OBVIOUS
    <3> HIDE DEF g
    <3>4. ASSUME NEW n \in Allocated, height[n] <= h + 1 PROVE g[n] = Down(g, n)
      <4>1. g[n] = Down(f, n)
        BY <3>1, <3>2
      <4>2. CASE node[n].leaf
        BY <4>1, <4>2
      <4>3. CASE ~node[n].leaf
        <5>1. Routed(n, k) \in Allocated /\ height[Routed(n, k)] <= h
          BY <1>1, <1>2, <3>4, <4>3
        <5>2. g[Routed(n, k)] = f[Routed(n, k)]
          BY <3>2, <5>1
        <5> QED  BY <4>1, <4>3, <5>2
      <4> QED  BY <4>2, <4>3
    <3>5. Descends(g, h + 1)
      BY <3>4
    <3> HIDE DEF Descends
    <3> QED  BY <3>3, <3>5
  <2> HIDE DEF S
  <2>3. Nat \subseteq S
    BY <2>1, <2>2, InductionOverNat
  <2> QED  BY <2>3 DEF S
<1>4. down = [n \in Allocated |-> Down(down, n)]
  <2>1. PICK f : DOMAIN f = Allocated /\ f = [n \in Allocated |-> f[n]] /\ Descends(f, top)
    BY <1>1, <1>3
  <2>2. \A n \in Allocated : f[n] = Down(f, n)
    BY <1>1, <2>1
  <2>3. f = [n \in Allocated |-> Down(f, n)]
    <3>1. [n \in Allocated |-> f[n]] = [n \in Allocated |-> Down(f, n)]
      <4> HIDE DEF Down
      <4> QED  BY <2>2
    <3> HIDE DEF Down
    <3> QED  BY <2>1, <3>1
  <2> HIDE DEF Down
  <2> QED  BY <2>3
<1>5. FindLeaf(k) = down[root]
  BY Zenon DEF FindLeaf, Routed
<1>6. \A n \in Allocated : down[n] = Down(down, n)
  <2> HIDE DEF down, Down
  <2> QED  BY <1>4
<1> HIDE DEF down
<1> DEFINE Ends(n) == /\ down[n] \in Allocated /\ node[down[n]].leaf
                      /\ below[down[n]] \subseteq below[n]
                      /\ \E P : WayDown(P, n, down[n], k)
<1>7. \A h \in Nat : \A n \in Allocated : height[n] <= h => Ends(n)
  <2> DEFINE S == { h \in Nat : \A n \in Allocated : height[n] <= h => Ends(n) }
  <2>1. ASSUME NEW n \in Allocated, node[n].leaf PROVE Ends(n)
    <3>1. down[n] = n
      BY <1>6, <2>1
    <3>2. WayDown({n}, n, n, k)
      BY DEF WayDown
    <3> QED  BY <2>1, <3>1, <3>2
  <2>2. ASSUME NEW n \in Allocated, ~node[n].leaf, Ends(Routed(n, k)) PROVE Ends(n)
    <3> DEFINE c == Routed(n, k)
    <3>1. down[n] = down[c]
      BY <1>6, <2>2
    <3>2. PICK P : WayDown(P, c, down[c], k)
      BY <2>2
    <3>3. WayDown(P \cup {n}, n, down[c], k)
      BY <1>2, <2>2, <3>2 DEF WayDown
    <3> HIDE DEF c
    <3>4. down[c] \in Allocated /\ node[down[c]].leaf /\ below[down[c]] \subseteq below[n]
      BY <1>2, <2>2 DEF c
    <3> QED  BY <3>1, <3>3, <3>4
  <2> HIDE DEF Ends
  <2>3. 0 \in S
    <3>1. ASSUME NEW n \in Allocated, height[n] <= 0 PROVE node[n].leaf
      <4> SUFFICES ASSUME ~node[n].leaf PROVE FALSE
        OBVIOUS
      <4> QED  BY <1>1, <1>2, <3>1
    <3> QED  BY <2>1, <3>1
  <2>4. ASSUME NEW h \in Nat, h \in S PROVE h + 1 \in S
    <3> SUFFICES ASSUME NEW n \in Allocated, height[n] <= h + 1 PROVE Ends(n)
      BY <2>4
    <3>1. CASE node[n].leaf
      BY <2>1, <3>1
    <3>2. CASE ~node[n].leaf
      <4>1. Routed(n, k) \in Allocated /\ height[Routed(n, k)] <= h
        BY <1>1, <1>2, <3>2
      <4> QED  BY <2>2, <2>4, <3>2, <4>1
    <3> QED  BY <3>1, <3>2
  <2> HIDE DEF S
  <2>5. Nat \subseteq S
    BY <2>3, <2>4, InductionOverNat
  <2> QED  BY <2>5 DEF S
<1>8. \A n \in Allocated : Ends(n)
  <2> HIDE DEF Ends
  <2> QED  BY <1>1, <1>7
<1>9. ASSUME NEW P, NEW l, WayDown(P, root, l, k), node[l].leaf PROVE l = down[root]
  <2> DEFINE S == { d \in Nat : \A m \in P : height[m] + d >= top => down[m] = down[root] }
  <2>1. ASSUME NEW m \in P, m # root
        PROVE  /\ node[m].parent \in P /\ down[node[m].parent] = down[m]
               /\ height[node[m].parent] = height[m] + 1
    <3> DEFINE q == node[m].parent
    <3>1. q \in P /\ ~node[q].leaf /\ m = Routed(q, k)
      BY <1>9, <2>1 DEF WayDown
    <3>2. q \in Allocated
      BY <1>9, <3>1 DEF WayDown
    <3> HIDE DEF q
    <3> QED  BY <1>2, <1>6, <3>1, <3>2 DEF q
  <2>2. \A m \in P : height[m] \in Nat /\ height[m] <= top
    BY <1>1, <1>9 DEF WayDown
  <2>3. 0 \in S
    <3> SUFFICES ASSUME NEW m \in P, height[m] + 0 >= top, m # root PROVE FALSE
      OBVIOUS
    <3>1. height[node[m].parent] = height[m] + 1 /\ node[m].parent \in P
      BY <2>1
    <3> QED  BY <1>1, <2>2, <3>1
  <2>4. ASSUME NEW d \in Nat, d \in S PROVE d + 1 \in S
    <3> SUFFICES ASSUME NEW m \in P, height[m] + (d + 1) >= top PROVE down[m] = down[root]
      OBVIOUS
    <3>1. CASE m = root
      BY <3>1
    <3>2. CASE m # root
      <4>1. /\ node[m].parent \in P /\ down[node[m].parent] = down[m]
            /\ height[node[m].parent] = height[m] + 1
        BY <2>1, <3>2
      <4>2. height[node[m].parent] + d >= top
        BY <1>1, <2>2, <4>1
      <4> QED  BY <2>4, <4>1, <4>2
    <3> QED  BY <3>1, <3>2
  <2>5. ASSUME NEW m \in P PROVE \E d \in Nat : height[m] + d >= top
    <3>1. top \in Nat /\ height[m] \in Nat /\ height[m] + top >= top
      BY <1>1, <2>2
    <3> QED  BY <3>1
  <2> HIDE DEF S
  <2>6. Nat \subseteq S
    BY <2>3, <2>4, InductionOverNat
  <2>7. l \in P /\ l \in Allocated
    BY <1>9 DEF WayDown
  <2>8. PICK d \in Nat : height[l] + d >= top
    BY <2>5, <2>7
  <2>9. down[l] = down[root]
    BY <2>6, <2>7, <2>8 DEF S
  <2> QED  BY <1>6, <1>9, <2>7, <2>9
<1>10. \A n \in Allocated : \E l \in Allocated :
         node[l].leaf /\ below[l] \subseteq below[n] /\ \E P : WayDown(P, n, l, k)
  BY <1>8
<1>11. /\ down[root] \in Allocated /\ node[down[root]].leaf
       /\ \E P : WayDown(P, root, down[root], k)
  BY <1>1, <1>8
<1> HIDE DEF Ends
<1> QED  BY <1>5, <1>9, <1>10, <1>11

\* A search ends in a leaf.
LEMMA FindLeafEndsInLeaf ==
  ASSUME NodesOK, NEW top, NEW height, NEW below, TreeInv(top, height, below),
         root # NULL, NEW k \in Key
  PROVE  /\ FindLeaf(k) \in Allocated /\ node[FindLeaf(k)].leaf
         /\ \E P : WayDown(P, root, FindLeaf(k), k)
BY WaysEnd

LEMMA SearchFinds ==
  ASSUME NodesOK, TreeOK, NEW k \in Key
  PROVE  /\ Search(k) \in Nat \cup {NULL}
         /\ root # NULL /\ Search(k) = NULL =>
              \A j \in 1..Len(node[FindLeaf(k)].keys) : node[FindLeaf(k)].keys[j] # k
<1>1. CASE root = NULL
  BY <1>1 DEF Search
<1>2. CASE root # NULL
  <2> DEFINE n == FindLeaf(k)
             I == { j \in 1..Len(node[n].keys) : node[n].keys[j] = k }
  <2>1. n \in Allocated /\ node[n].leaf
    BY <1>2, FindLeafEndsInLeaf DEF TreeOK
  <2>2. /\ Len(node[n].keys) \in Nat /\ Len(node[n].rows) = Len(node[n].keys)
        /\ node[n].rows \in Seq(Nat)
    BY <2>1, NodeFields
  <2>3. Search(k) = IF I = {} \/ Min(I) = 0 THEN NULL ELSE node[n].rows[Min(I)]
    BY <1>2 DEF Search, SelectInSeq
  <2> HIDE DEF n
  <2>4. I # {} => Min(I) \in I
    BY <2>2, FirstPlace
  <2>5. I # {} => node[n].rows[Min(I)] \in Nat /\ Min(I) # 0
    <3>1. I # {} => Min(I) \in 1..Len(node[n].rows) /\ Min(I) # 0
      <4>1. I \subseteq 1..Len(node[n].rows) /\ 0 \notin I
        BY <2>2
      <4> HIDE DEF I
      <4> QED  BY <2>4, <4>1
    <3> HIDE DEF I
    <3> QED  BY <2>2, <3>1, ElementOfSeq
  <2>6. NULL \notin Nat
    BY BPTreeAssumption
  <2>7. Search(k) \in Nat \cup {NULL} /\ (Search(k) = NULL => I = {})
    <3> HIDE DEF I
    <3> QED  BY <2>3, <2>5, <2>6
  <2> QED  BY <2>7 DEF n
<1> QED  BY <1>1, <1>2

Searchable == \A k \in Key : Search(k) \in Nat \cup {NULL}

LEMMA TreeIsSearchable == NodesOK /\ TreeOK => Searchable
BY SearchFinds DEF Searchable

\* What a call returns with has its type if the tree it leaves is one.
LEMMA ReturnTyped ==
  ASSUME Return, NodesOK', TreeOK'
  PROVE  found' \in [Key -> Nat \cup {NULL}]
<1>1. Searchable'
  BY TreeIsSearchable, PTL
<1>2. found' = [k \in Key |-> Search(k)']
  BY DEF Return
<1> QED  BY <1>1, <1>2 DEF Searchable

\* What KeysInv says of one node.
KeysHeld(n, below) ==
  /\ \A j \in 1..Len(node[n].keys) : node[n].keys[j] \in below[n]
  /\ Ascending(node[n].keys)
  /\ \A i \in 1..Len(node[n].kids) : \A x \in below[node[n].kids[i]] :
       /\ x \in below[n]
       /\ i > 1 => node[n].keys[i - 1] <= x
       /\ i <= Len(node[n].keys) => x < node[n].keys[i]

LEMMA KeysHeldBy ==
  ASSUME NEW below, KeysInv(below), NEW n \in Allocated
  PROVE  KeysHeld(n, below)
BY DEF KeysInv, KeysHeld

\* Two places of ascending numbers.
LEMMA Increases ==
  ASSUME NEW s, Len(s) \in Nat, Ascending(s), \A l \in 1..Len(s) : s[l] \in Nat,
         NEW i \in 1..Len(s), NEW j \in 1..Len(s)
  PROVE  /\ s[i] \in Nat /\ s[j] \in Nat
         /\ i < j => s[i] < s[j]
         /\ i <= j => s[i] <= s[j]
<1>1. s[i] \in Nat /\ s[j] \in Nat /\ i \in Nat /\ j \in Nat
  OBVIOUS
<1>2. i < j => s[i] < s[j]
  BY DEF Ascending
<1>3. i <= j => i < j \/ i = j
  BY <1>1
<1> QED  BY <1>1, <1>2, <1>3

\* A key put between smaller and greater ones.
LEMMA StillAscending ==
  ASSUME NEW keys \in Seq(Key), Ascending(keys), NEW i \in 1..(Len(keys) + 1), NEW k \in Key,
         i > 1 => keys[i - 1] < k, i <= Len(keys) => k < keys[i]
  PROVE  LET new == InsertAt(keys, i, k)
         IN /\ new \in Seq(Key) /\ Len(new) = Len(keys) + 1 /\ Ascending(new)
            /\ new[i] = k
            /\ \A j \in 1..Len(new) :
                 \/ j < i /\ j \in 1..Len(keys) /\ new[j] = keys[j]
                 \/ j = i /\ new[j] = k
                 \/ j > i /\ j - 1 \in 1..Len(keys) /\ new[j] = keys[j - 1]
<1> DEFINE new == InsertAt(keys, i, k)
<1>1. /\ new \in Seq(Key) /\ Len(new) = Len(keys) + 1
      /\ \A j \in 1..(Len(keys) + 1) :
           new[j] = IF j < i THEN keys[j] ELSE IF j = i THEN k ELSE keys[j - 1]
  BY InsertedAt
<1> HIDE DEF new
<1>2. Len(keys) \in Nat /\ \A j \in 1..Len(keys) : keys[j] \in Nat /\ k \in Nat
  BY BPTreeAssumption DEF Key
<1>3. \A j \in 1..Len(keys) : (j < i => keys[j] < k) /\ (j >= i => k < keys[j])
  <2> SUFFICES ASSUME NEW j \in 1..Len(keys)
               PROVE  (j < i => keys[j] < k) /\ (j >= i => k < keys[j])
    OBVIOUS
  <2>1. ASSUME j < i PROVE keys[j] < k
    <3>1. i - 1 \in 1..Len(keys) /\ j <= i - 1 /\ i > 1
      BY <1>2, <2>1
    <3>2. keys[j] <= keys[i - 1] /\ keys[j] \in Nat /\ keys[i - 1] \in Nat
      BY <1>2, <3>1, Increases
    <3>3. keys[i - 1] < k /\ k \in Nat
      BY <1>2, <3>1
    <3> QED  BY <3>2, <3>3
  <2>2. ASSUME j >= i PROVE k < keys[j]
    <3>1. i \in 1..Len(keys) /\ i <= j /\ i <= Len(keys)
      BY <1>2, <2>2
    <3>2. keys[i] <= keys[j] /\ keys[j] \in Nat /\ keys[i] \in Nat
      BY <1>2, <3>1, Increases
    <3>3. k < keys[i] /\ k \in Nat
      BY <1>2, <3>1
    <3> QED  BY <3>2, <3>3
  <2> QED  BY <2>1, <2>2
<1>4. \A j \in 1..Len(new) :
        \/ j < i /\ j \in 1..Len(keys) /\ new[j] = keys[j]
        \/ j = i /\ new[j] = k
        \/ j > i /\ j - 1 \in 1..Len(keys) /\ new[j] = keys[j - 1]
  BY <1>1, <1>2
<1>5. ASSUME NEW a \in 1..Len(new), NEW b \in 1..Len(new), a < b PROVE new[a] < new[b]
  <2>1. CASE b < i
    BY <1>1, <1>2, <1>4, <1>5, <2>1 DEF Ascending
  <2>2. CASE b = i
    BY <1>1, <1>2, <1>3, <1>4, <1>5, <2>2
  <2>3. CASE b > i /\ a < i
    <3>1. new[a] = keys[a] /\ a \in 1..Len(keys) /\ new[b] = keys[b - 1] /\ b - 1 \in 1..Len(keys)
      BY <1>1, <1>2, <1>4, <2>3
    <3>2. keys[a] < k /\ k < keys[b - 1]
      BY <1>2, <1>3, <2>3, <3>1
    <3>3. keys[a] \in Nat /\ k \in Nat /\ keys[b - 1] \in Nat
      BY <1>2, <3>1
    <3>4. keys[a] < keys[b - 1]
      BY <3>2, <3>3
    <3> QED  BY <3>1, <3>4
  <2>4. CASE b > i /\ a = i
    <3>1. new[a] = k /\ new[b] = keys[b - 1] /\ b - 1 \in 1..Len(keys) /\ b - 1 >= i
      BY <1>1, <1>2, <1>4, <2>4
    <3> QED  BY <1>3, <3>1
  <2>5. CASE b > i /\ a > i
    <3>1. /\ new[a] = keys[a - 1] /\ a - 1 \in 1..Len(keys)
          /\ new[b] = keys[b - 1] /\ b - 1 \in 1..Len(keys) /\ a - 1 < b - 1
      BY <1>1, <1>2, <1>4, <1>5, <2>5
    <3> QED  BY <3>1 DEF Ascending
  <2> QED  BY <1>1, <1>2, <2>1, <2>2, <2>3, <2>4, <2>5
<1>6. Ascending(new)
  BY <1>5 DEF Ascending
<1>7. new[i] = k
  BY <1>1
<1> QED  BY <1>1, <1>4, <1>6, <1>7 DEF new

\* The leaf of a new key, with it.
LEMMA LeafWithKey ==
  ASSUME NodesOK, NEW top, NEW height, NEW below, TreeInv(top, height, below),
         NEW k \in Key, Missing(k)
  PROVE  LET n == FindLeaf(k)
             keys == KeysWith(n, k)
             rows == RowsWith(n, k)
         IN /\ n \in Allocated /\ node[n].leaf
            /\ keys \in Seq(Key) /\ Len(keys) = Len(node[n].keys) + 1 /\ Ascending(keys)
            /\ \A j \in 1..Len(keys) : keys[j] = k \/ keys[j] \in below[n]
            /\ rows \in Seq(Nat) /\ Len(rows) = Len(keys)
<1> DEFINE n == FindLeaf(k)
           i == InsertIndex(node[n].keys, k)
<1>1. root # NULL /\ Search(k) = NULL /\ TreeOK
  BY DEF Missing, TreeOK
<1>2. n \in Allocated /\ node[n].leaf
  BY <1>1, FindLeafEndsInLeaf
<1>3. \A j \in 1..Len(node[n].keys) : node[n].keys[j] # k
  BY <1>1, SearchFinds
<1> HIDE DEF n
<1>4. /\ node[n].keys \in Seq(Key) /\ node[n].keys \in Seq(Nat) /\ node[n].rows \in Seq(Nat)
      /\ Len(node[n].rows) = Len(node[n].keys) /\ Len(node[n].keys) \in Nat
      /\ \A j \in 1..Len(node[n].keys) : node[n].keys[j] \in Nat
  <2>1. /\ node[n].keys \in Seq(Key) /\ node[n].keys \in Seq(Nat) /\ node[n].rows \in Seq(Nat)
        /\ Len(node[n].rows) = Len(node[n].keys) /\ Len(node[n].keys) \in Nat
    BY <1>2, NodeFields
  <2> QED  BY <2>1
<1>5. k \in Nat /\ RowOf(k) \in Nat
  BY BPTreeAssumption DEF Key, RowOf
<1>6. /\ i \in 1..(Len(node[n].keys) + 1)
      /\ \A j \in 1..(i - 1) : node[n].keys[j] < k
      /\ i <= Len(node[n].keys) => k <= node[n].keys[i]
  BY <1>4, <1>5, InsertIndexFits
<1> HIDE DEF i
<1>7. (i > 1 => node[n].keys[i - 1] < k) /\ (i <= Len(node[n].keys) => k < node[n].keys[i])
  <2>1. PICK ks : ks = node[n].keys
    OBVIOUS
  <2>2. /\ Len(ks) \in Nat /\ \A j \in 1..Len(ks) : ks[j] \in Nat /\ ks[j] # k
        /\ i \in 1..(Len(ks) + 1)
        /\ \A j \in 1..(i - 1) : ks[j] < k
        /\ i <= Len(ks) => k <= ks[i]
    BY <1>3, <1>4, <1>6, <2>1
  <2>3. i > 1 => i - 1 \in 1..(i - 1)
    BY <2>2
  <2>4. i <= Len(ks) => i \in 1..Len(ks)
    BY <2>2
  <2>5. i > 1 => ks[i - 1] < k
    BY <2>2, <2>3
  <2>6. i <= Len(ks) => k < ks[i]
    BY <1>5, <2>2, <2>4
  <2> QED  BY <2>1, <2>5, <2>6
<1>8. Ascending(node[n].keys) /\ \A j \in 1..Len(node[n].keys) : node[n].keys[j] \in below[n]
  BY <1>2 DEF TreeInv, KeysInv
<1>9. KeysWith(n, k) = InsertAt(node[n].keys, i, k) /\ RowsWith(n, k) = InsertAt(node[n].rows, i, RowOf(k))
  BY DEF KeysWith, RowsWith, i
<1>10. /\ KeysWith(n, k) \in Seq(Key) /\ Len(KeysWith(n, k)) = Len(node[n].keys) + 1
       /\ Ascending(KeysWith(n, k))
       /\ \A j \in 1..Len(KeysWith(n, k)) : KeysWith(n, k)[j] = k \/ KeysWith(n, k)[j] \in below[n]
  <2>1. PICK s : s = node[n].keys
    OBVIOUS
  <2>2. PICK t : t = InsertAt(s, i, k)
    OBVIOUS
  <2>3. /\ s \in Seq(Key) /\ Ascending(s) /\ i \in 1..(Len(s) + 1)
        /\ i > 1 => s[i - 1] < k
        /\ i <= Len(s) => k < s[i]
    BY <1>4, <1>6, <1>7, <1>8, <2>1
  <2>4. /\ t \in Seq(Key) /\ Len(t) = Len(s) + 1 /\ Ascending(t)
        /\ \A j \in 1..Len(t) :
             \/ j < i /\ j \in 1..Len(s) /\ t[j] = s[j]
             \/ j = i /\ t[j] = k
             \/ j > i /\ j - 1 \in 1..Len(s) /\ t[j] = s[j - 1]
    BY <2>2, <2>3, StillAscending
  <2>5. KeysWith(n, k) = t
    BY <1>9, <2>1, <2>2
  <2>6. \A j \in 1..Len(t) : t[j] = k \/ t[j] \in below[n]
    BY <1>8, <2>1, <2>4
  <2> QED  BY <2>1, <2>4, <2>5, <2>6
<1>11. RowsWith(n, k) \in Seq(Nat) /\ Len(RowsWith(n, k)) = Len(node[n].rows) + 1
  <2>1. PICK s : s = node[n].rows
    OBVIOUS
  <2>2. s \in Seq(Nat) /\ i \in 1..(Len(s) + 1)
    BY <1>4, <1>6, <2>1
  <2>3. InsertAt(s, i, RowOf(k)) \in Seq(Nat) /\ Len(InsertAt(s, i, RowOf(k))) = Len(s) + 1
    BY <1>5, <2>2, InsertedAt
  <2> QED  BY <1>9, <2>1, <2>3
<1> QED  BY <1>2, <1>4, <1>10, <1>11 DEF n

-------------------------------------------------------------------------------
\* The nodes a step writes

LEMMA LeafOK ==
  ASSUME NEW keys \in Seq(Key), NEW rows \in Seq(Nat),
         Len(rows) = Len(keys), Len(keys) <= MaxKeys,
         NEW parent \in Node \cup {NULL}, NEW next \in Node \cup {NULL}
  PROVE  NodeOK(Leaf(keys, rows, parent, next))
<1>1. <<>> \in Seq(Node)
  OBVIOUS
<1> QED  BY <1>1 DEF NodeOK, Leaf, TreeNode

LEMMA InternalOK ==
  ASSUME NEW keys \in Seq(Key), NEW kids \in Seq(Node),
         Len(kids) = Len(keys) + 1, Len(keys) <= MaxKeys,
         NEW parent \in Node \cup {NULL}
  PROVE  NodeOK(Internal(keys, kids, parent))
<1>1. <<>> \in Seq(Nat)
  OBVIOUS
<1> QED  BY <1>1 DEF NodeOK, Internal, TreeNode

LEMMA AdoptedOK ==
  ASSUME NEW r, NodeOK(r), NEW q \in Node
  PROVE  /\ NodeOK([r EXCEPT !.parent = q])
         /\ LET a == [r EXCEPT !.parent = q]
            IN /\ a.parent = q /\ a.leaf = r.leaf /\ a.keys = r.keys
               /\ a.kids = r.kids /\ a.rows = r.rows
BY DEF NodeOK, TreeNode

\* What is no node has been handed out to nobody.
LEMMA OnlyNodes ==
  ASSUME NodesOK
  PROVE  /\ Allocated = { n \in Node : NodeOK(node[n]) }
         /\ \A r : NodeOK(r) => r # NULL
         /\ NULL \notin Node
<1>1. \A r : NodeOK(r) => r # NULL
  BY NoNode DEF NodeOK
<1>2. NULL \notin Node
  BY BPTreeAssumption DEF Node
<1> QED  BY <1>1, <1>2 DEF NodesOK, Allocated

-------------------------------------------------------------------------------
\* A new key

\* The keys below the nodes, once k is put where the way P leads.
Widened(below, P, k) == [n \in Node |-> IF n \in P THEN below[n] \cup {k} ELSE below[n]]

LEMMA KeyOnTheWay ==
  ASSUME NodesOK, NEW top, NEW height, NEW below, TreeInv(top, height, below),
         NEW k \in Key, NEW leaf, NEW P, WayDown(P, root, leaf, k), root # NULL
  PROVE  LET wide == Widened(below, P, k)
         IN /\ wide \in [Node -> SUBSET Key]
            /\ \A n \in P : wide[n] = below[n] \cup {k}
            /\ \A n \in Node : below[n] \subseteq wide[n]
            /\ \A n \in Allocated : \A i \in 1..Len(node[n].kids) : \A x \in wide[node[n].kids[i]] :
                 /\ x \in wide[n]
                 /\ i > 1 => node[n].keys[i - 1] <= x
                 /\ i <= Len(node[n].keys) => x < node[n].keys[i]
<1> DEFINE wide == Widened(below, P, k)
<1>1. /\ below \in [Node -> SUBSET Key] /\ KidsInv(height) /\ KeysInv(below)
      /\ root \in Allocated /\ node[root].parent = NULL /\ P \subseteq Node
  BY DEF TreeInv, WayDown, Allocated
<1>2. wide \in [Node -> SUBSET Key]
  BY <1>1 DEF Widened
<1>3. \A n \in Node : wide[n] = IF n \in P THEN below[n] \cup {k} ELSE below[n]
  BY DEF Widened
<1> HIDE DEF wide
<1>4. ASSUME NEW n \in Allocated, NEW i \in 1..Len(node[n].kids), NEW x \in wide[node[n].kids[i]]
      PROVE  /\ x \in wide[n]
             /\ i > 1 => node[n].keys[i - 1] <= x
             /\ i <= Len(node[n].keys) => x < node[n].keys[i]
  <2> DEFINE c == node[n].kids[i]
  <2>1. c \in Allocated /\ node[c].parent = n /\ n \in Node /\ c \in Node
    BY <1>1 DEF KidsInv, Allocated
  <2>2. CASE x \in below[c]
    <3>1. /\ x \in below[n]
          /\ i > 1 => node[n].keys[i - 1] <= x
          /\ i <= Len(node[n].keys) => x < node[n].keys[i]
      BY <1>1, <2>2 DEF KeysInv
    <3> QED  BY <1>3, <2>1, <3>1
  <2>3. CASE x \notin below[c]
    <3>1. c \in P /\ x = k
      BY <1>3, <2>1, <2>3
    <3>2. c # root
      BY <1>1, <2>1, OnlyNodes
    <3>3. n \in P /\ ~node[n].leaf /\ c = Routed(n, k)
      BY <2>1, <3>1, <3>2 DEF WayDown
    <3>4. ChildIndex(node[n].keys, k) \in 1..Len(node[n].kids)
      BY <1>1, <3>3, RoutedKid
    <3>5. i = ChildIndex(node[n].keys, k)
      BY <1>1, <3>3, <3>4 DEF KidsInv, Routed
    <3>6. /\ node[n].keys \in Seq(Nat) /\ k \in Nat
      BY NodeFields, BPTreeAssumption DEF Key
    <3>7. /\ \A j \in 1..(i - 1) : node[n].keys[j] <= k
          /\ i <= Len(node[n].keys) => k < node[n].keys[i]
          /\ i \in 1..(Len(node[n].keys) + 1)
      BY <3>5, <3>6, ChildIndexFits
    <3>8. i > 1 => i - 1 \in 1..(i - 1)
      BY <3>7, <3>6, LenProperties
    <3> QED  BY <1>3, <2>1, <3>1, <3>3, <3>7, <3>8
  <2> QED  BY <2>2, <2>3
<1>5. \A n \in P : wide[n] = below[n] \cup {k}
  BY <1>1, <1>3
<1>6. \A n \in Node : below[n] \subseteq wide[n]
  BY <1>3
<1> QED  BY <1>2, <1>4, <1>5, <1>6 DEF wide

LEMMA FirstKeyKeepsTree ==
  ASSUME BPTreeInv, step = "ready", NEW k \in Key, FirstKey(k)
  PROVE  NodesOK' /\ TreeOK'
<1>1. NodesOK /\ TreeOK /\ root = NULL
  BY DEF BPTreeInv, FirstKey
<1>2. PICK top, height, below : TreeInv(top, height, below)
  BY <1>1 DEF TreeOK
<1>3. PICK n \in Node : /\ Fresh(n)
                        /\ node' = [node EXCEPT ![n] = Leaf(<<k>>, <<RowOf(k)>>, NULL, NULL)]
                        /\ root' = n
  BY DEF FirstKey
<1>4. PICK r : r = Leaf(<<k>>, <<RowOf(k)>>, NULL, NULL)
  OBVIOUS
<1>5. NodeOK(r) /\ r # NULL
  <2>1. /\ <<k>> \in Seq(Key) /\ <<RowOf(k)>> \in Seq(Nat)
        /\ Len(<<k>>) = 1 /\ Len(<<RowOf(k)>>) = 1 /\ 1 <= MaxKeys
    BY BPTreeAssumption DEF RowOf, Key
  <2> QED  BY <1>1, <1>4, <2>1, LeafOK, OnlyNodes
<1>6. /\ r.leaf = TRUE /\ r.kids = <<>> /\ r.keys = <<k>> /\ r.parent = NULL
  BY <1>4 DEF Leaf
<1>7. /\ node' = [m \in Node |-> node'[m]]
      /\ node'[n] = r
      /\ \A m \in Node : m # n => node'[m] = node[m]
  BY <1>1, <1>3, <1>4 DEF NodesOK
<1>8. n \notin Allocated /\ Allocated' = Allocated \cup {n}
  BY <1>3, <1>5, <1>7 DEF Allocated, Fresh
<1>9. NodesOK'
  BY <1>1, <1>5, <1>7 DEF NodesOK
<1> DEFINE h2 == [height EXCEPT ![n] = 0]
           b2 == [below EXCEPT ![n] = {k}]
<1>10. /\ top \in Nat /\ height \in [Node -> 0..top] /\ below \in [Node -> SUBSET Key]
       /\ KidsInv(height) /\ KeysInv(below)
  BY <1>2 DEF TreeInv
<1>11. /\ h2 \in [Node -> 0..top] /\ h2[n] = 0 /\ \A m \in Node : m # n => h2[m] = height[m]
       /\ b2 \in [Node -> SUBSET Key] /\ b2[n] = {k} /\ \A m \in Node : m # n => b2[m] = below[m]
  BY <1>10
<1> HIDE DEF h2, b2
<1>12. \A m \in Allocated : m \in Node /\ m # n /\ node'[m] = node[m] /\ h2[m] = height[m] /\ b2[m] = below[m]
  BY <1>7, <1>8, <1>11 DEF Allocated
<1>13. KidsInv(h2)'
  <2> SUFFICES ASSUME NEW m \in Allocated' PROVE
        /\ node'[m].leaf => node'[m].kids = <<>> /\ h2[m] = 0
        /\ \A i \in 1..Len(node'[m].kids) :
             /\ node'[m].kids[i] \in Allocated'
             /\ h2[m] = h2[node'[m].kids[i]] + 1
             /\ node'[node'[m].kids[i]].parent = m
             /\ \A j \in 1..Len(node'[m].kids) : node'[m].kids[j] = node'[m].kids[i] => j = i
    BY DEF KidsInv
  <2>1. CASE m = n
    BY <1>6, <1>7, <1>11, <2>1
  <2>2. CASE m \in Allocated
    <3>1. /\ node[m].leaf => node[m].kids = <<>> /\ height[m] = 0
          /\ \A i \in 1..Len(node[m].kids) :
               /\ node[m].kids[i] \in Allocated
               /\ height[m] = height[node[m].kids[i]] + 1
               /\ node[node[m].kids[i]].parent = m
               /\ \A j \in 1..Len(node[m].kids) : node[m].kids[j] = node[m].kids[i] => j = i
      BY <1>10, <2>2 DEF KidsInv
    <3>2. node'[m] = node[m] /\ h2[m] = height[m]
      BY <1>12, <2>2
    <3>3. \A i \in 1..Len(node[m].kids) :
            /\ node[m].kids[i] \in Allocated' /\ h2[node[m].kids[i]] = height[node[m].kids[i]]
            /\ node'[node[m].kids[i]] = node[node[m].kids[i]]
      BY <1>8, <1>12, <3>1
    <3> QED  BY <3>1, <3>2, <3>3
  <2> QED  BY <1>8, <2>1, <2>2
<1>14. KeysInv(b2)'
  <2> SUFFICES ASSUME NEW m \in Allocated' PROVE
        /\ \A j \in 1..Len(node'[m].keys) : node'[m].keys[j] \in b2[m]
        /\ Ascending(node'[m].keys)
        /\ \A i \in 1..Len(node'[m].kids) : \A x \in b2[node'[m].kids[i]] :
             /\ x \in b2[m]
             /\ i > 1 => node'[m].keys[i - 1] <= x
             /\ i <= Len(node'[m].keys) => x < node'[m].keys[i]
    BY DEF KeysInv
  <2>1. CASE m = n
    BY <1>6, <1>7, <1>11, <2>1 DEF Ascending
  <2>2. CASE m \in Allocated
    <3>1. node'[m] = node[m] /\ b2[m] = below[m]
      BY <1>12, <2>2
    <3>2. \A i \in 1..Len(node[m].kids) : b2[node[m].kids[i]] = below[node[m].kids[i]]
      BY <1>10, <1>12, <2>2 DEF KidsInv
    <3>3. KeysHeld(m, below)
      BY <1>10, <2>2, KeysHeldBy
    <3> QED  BY <3>1, <3>2, <3>3 DEF KeysHeld
  <2> QED  BY <1>8, <2>1, <2>2
<1>15. step' = "ready"
  BY DEF FirstKey, Accept, Return
<1>16. TreeInv(top, h2, b2)'
  BY <1>3, <1>6, <1>7, <1>8, <1>10, <1>11, <1>13, <1>14, <1>15 DEF TreeInv, SplitInv
<1> QED  BY <1>9, <1>16 DEF TreeOK

LEMMA InsertIntoLeafKeepsTree ==
  ASSUME BPTreeInv, step = "ready", NEW k \in Key, InsertIntoLeaf(k)
  PROVE  NodesOK' /\ TreeOK'
<1>1. NodesOK /\ TreeOK /\ root # NULL /\ Missing(k)
  BY DEF BPTreeInv, InsertIntoLeaf, Missing
<1>2. PICK top, height, below : TreeInv(top, height, below)
  BY <1>1 DEF TreeOK
<1>3. PICK n, keys, rows : n = FindLeaf(k) /\ keys = KeysWith(n, k) /\ rows = RowsWith(n, k)
  OBVIOUS
<1>4. /\ n \in Allocated /\ node[n].leaf
      /\ keys \in Seq(Key) /\ Len(keys) = Len(node[n].keys) + 1 /\ Ascending(keys)
      /\ \A j \in 1..Len(keys) : keys[j] = k \/ keys[j] \in below[n]
      /\ rows \in Seq(Nat) /\ Len(rows) = Len(keys)
  BY <1>1, <1>2, <1>3, LeafWithKey
<1>5. PICK P : WayDown(P, root, n, k)
  BY <1>1, <1>2, <1>3, FindLeafEndsInLeaf
<1>6. ~Full(n) /\ node' = [node EXCEPT ![n].keys = keys, ![n].rows = rows]
  BY <1>3 DEF InsertIntoLeaf
<1>7. n \in Node /\ NodeOK(node[n]) /\ Len(node[n].keys) \in Nat
  BY <1>1, <1>4, OnlyNodes, NodeFields
<1>8. PICK r : r = [node[n] EXCEPT !.keys = keys, !.rows = rows]
  OBVIOUS
<1>9. /\ r.leaf = node[n].leaf /\ r.kids = node[n].kids /\ r.keys = keys /\ r.rows = rows
      /\ r.parent = node[n].parent
      /\ NodeOK(r) /\ r # NULL
  <2>1. Len(keys) <= MaxKeys
    BY <1>4, <1>6, <1>7, BPTreeAssumption DEF Full, NodeOK
  <2>2. NodeOK(r)
    BY <1>4, <1>7, <1>8, <2>1 DEF NodeOK, TreeNode
  <2>3. /\ r.leaf = node[n].leaf /\ r.kids = node[n].kids /\ r.keys = keys /\ r.rows = rows
        /\ r.parent = node[n].parent
    BY <1>7, <1>8 DEF NodeOK, TreeNode
  <2> QED  BY <1>1, <2>2, <2>3, OnlyNodes
<1>10. /\ node' = [m \in Node |-> node'[m]]
       /\ node'[n] = r
       /\ \A m \in Node : m # n => node'[m] = node[m]
  BY <1>1, <1>6, <1>7, <1>8 DEF NodesOK
<1>11. Allocated' = Allocated
  BY <1>4, <1>9, <1>10 DEF Allocated
<1>12. NodesOK'
  BY <1>1, <1>9, <1>10 DEF NodesOK
<1> DEFINE b2 == Widened(below, P, k)
<1>13. /\ b2 \in [Node -> SUBSET Key]
       /\ \A m \in P : b2[m] = below[m] \cup {k}
       /\ \A m \in Node : below[m] \subseteq b2[m]
       /\ \A m \in Allocated : \A i \in 1..Len(node[m].kids) : \A x \in b2[node[m].kids[i]] :
            /\ x \in b2[m]
            /\ i > 1 => node[m].keys[i - 1] <= x
            /\ i <= Len(node[m].keys) => x < node[m].keys[i]
  BY <1>1, <1>2, <1>5, KeyOnTheWay
<1> HIDE DEF b2
<1>14. /\ top \in Nat /\ height \in [Node -> 0..top]
       /\ root \in Allocated /\ node[root].parent = NULL
       /\ KidsInv(height) /\ KeysInv(below)
  BY <1>1, <1>2 DEF TreeInv
<1>15. \A m \in Allocated : /\ m \in Node /\ node'[m].leaf = node[m].leaf
                            /\ node'[m].kids = node[m].kids /\ node'[m].parent = node[m].parent
                            /\ m # n => node'[m] = node[m]
  BY <1>9, <1>10 DEF Allocated
<1>16. KidsInv(height)'
  <2> SUFFICES ASSUME NEW m \in Allocated' PROVE
        /\ node'[m].leaf => node'[m].kids = <<>> /\ height[m] = 0
        /\ \A i \in 1..Len(node'[m].kids) :
             /\ node'[m].kids[i] \in Allocated'
             /\ height[m] = height[node'[m].kids[i]] + 1
             /\ node'[node'[m].kids[i]].parent = m
             /\ \A j \in 1..Len(node'[m].kids) : node'[m].kids[j] = node'[m].kids[i] => j = i
    BY DEF KidsInv
  <2>1. m \in Allocated /\ node'[m].kids = node[m].kids /\ node'[m].leaf = node[m].leaf
    BY <1>11, <1>15
  <2>2. /\ node[m].leaf => node[m].kids = <<>> /\ height[m] = 0
        /\ \A i \in 1..Len(node[m].kids) :
             /\ node[m].kids[i] \in Allocated
             /\ height[m] = height[node[m].kids[i]] + 1
             /\ node[node[m].kids[i]].parent = m
             /\ \A j \in 1..Len(node[m].kids) : node[m].kids[j] = node[m].kids[i] => j = i
    BY <1>14, <2>1 DEF KidsInv
  <2>3. \A i \in 1..Len(node[m].kids) : node'[node[m].kids[i]].parent = m
    BY <1>15, <2>2
  <2> QED  BY <1>11, <2>1, <2>2, <2>3
<1>17. KeysInv(b2)'
  <2> SUFFICES ASSUME NEW m \in Allocated PROVE
        /\ \A j \in 1..Len(node'[m].keys) : node'[m].keys[j] \in b2[m]
        /\ Ascending(node'[m].keys)
        /\ \A i \in 1..Len(node'[m].kids) : \A x \in b2[node'[m].kids[i]] :
             /\ x \in b2[m]
             /\ i > 1 => node'[m].keys[i - 1] <= x
             /\ i <= Len(node'[m].keys) => x < node'[m].keys[i]
    BY <1>11 DEF KeysInv
  <2>1. CASE m = n
    <3>1. node'[m].keys = keys /\ Len(node'[m].kids) = 0
      BY <1>4, <1>9, <1>10, <1>14, <2>1 DEF KidsInv
    <3>2. k \in b2[m] /\ below[m] \subseteq b2[m]
      BY <1>5, <1>7, <1>13, <2>1 DEF WayDown
    <3> QED  BY <1>4, <2>1, <3>1, <3>2
  <2>2. CASE m # n
    <3>1. m \in Node /\ node'[m] = node[m]
      BY <1>15, <2>2
    <3>2. below[m] \subseteq b2[m]
      BY <1>13, <3>1
    <3>3. \A i \in 1..Len(node[m].kids) : \A x \in b2[node[m].kids[i]] :
            /\ x \in b2[m]
            /\ i > 1 => node[m].keys[i - 1] <= x
            /\ i <= Len(node[m].keys) => x < node[m].keys[i]
      BY <1>13
    <3>4. KeysHeld(m, below)
      BY <1>14, KeysHeldBy
    <3> QED  BY <3>1, <3>2, <3>3, <3>4 DEF KeysHeld
  <2> QED  BY <2>1, <2>2
<1>18. step' = "ready" /\ root' = root
  BY DEF InsertIntoLeaf, Accept, Return
<1>19. TreeInv(top, height, b2)'
  BY <1>11, <1>13, <1>14, <1>15, <1>16, <1>17, <1>18 DEF TreeInv, SplitInv
<1> QED  BY <1>12, <1>19 DEF TreeOK

\* The way a search goes hangs below the root.
LEMMA WayIsAttached ==
  ASSUME NodesOK, NEW top, NEW height, NEW below, TreeInv(top, height, below),
         root # NULL, NEW k \in Key, NEW b, NEW P, WayDown(P, root, b, k)
  PROVE  Attached(P)
<1>1. KidsInv(height) /\ P \subseteq Allocated
  BY DEF TreeInv, WayDown
<1>2. ASSUME NEW n \in P, n # root
      PROVE  /\ node[n].parent \in P
             /\ \E i \in 1..Len(node[node[n].parent].kids) : node[node[n].parent].kids[i] = n
  <2> DEFINE p == node[n].parent
  <2>1. p \in P /\ ~node[p].leaf /\ n = Routed(p, k)
    BY <1>2 DEF WayDown
  <2>2. p \in Allocated
    BY <1>1, <2>1
  <2> HIDE DEF p
  <2>3. ChildIndex(node[p].keys, k) \in 1..Len(node[p].kids)
    BY <1>1, <2>1, <2>2, RoutedKid
  <2>4. node[p].kids[ChildIndex(node[p].keys, k)] = n
    BY <2>1 DEF Routed
  <2> QED  BY <2>1, <2>3, <2>4 DEF p
<1> QED  BY <1>1, <1>2 DEF Attached

\* The halves of ascending keys.
LEMMA Halves ==
  ASSUME NEW keys \in Seq(Key), Len(keys) = MaxKeys + 1, Ascending(keys), NEW h, h = Half(keys)
  PROVE  /\ h \in Nat /\ 1 <= h /\ h + 1 <= Len(keys) /\ h <= MaxKeys
         /\ Len(keys) - h <= MaxKeys
         /\ keys[h + 1] \in Key /\ keys[1] \in Key /\ keys[1] < keys[h + 1]
         /\ \A j \in 1..h : keys[j] < keys[h + 1]
         /\ \A j \in (h + 1)..Len(keys) : keys[h + 1] <= keys[j]
         /\ Len(keys) \in Nat /\ \A j \in 1..Len(keys) : keys[j] \in Nat
<1>1. /\ Len(keys) \in Nat /\ MaxKeys \in Nat /\ MaxKeys >= 2
      /\ \A j \in 1..Len(keys) : keys[j] \in Key /\ keys[j] \in Nat
  BY BPTreeAssumption DEF Key
<1>2. h = (MaxKeys + 1) \div 2
  BY DEF Half
<1>3. h \in Nat /\ 1 <= h /\ h + 1 <= Len(keys) /\ h <= MaxKeys /\ Len(keys) - h <= MaxKeys
  BY <1>1, <1>2
<1>4. ASSUME NEW j \in 1..h PROVE keys[j] < keys[h + 1]
  <2>1. j \in 1..Len(keys) /\ h + 1 \in 1..Len(keys) /\ j < h + 1
    BY <1>1, <1>3
  <2> QED  BY <1>1, <2>1, Increases
<1>5. ASSUME NEW j \in (h + 1)..Len(keys) PROVE keys[h + 1] <= keys[j]
  <2>1. j \in 1..Len(keys) /\ h + 1 \in 1..Len(keys) /\ h + 1 <= j
    BY <1>1, <1>3
  <2> QED  BY <1>1, <2>1, Increases
<1> QED  BY <1>1, <1>3, <1>4, <1>5

LEMMA SplitLeafKeepsTree ==
  ASSUME BPTreeInv, step = "ready", NEW k \in Key, SplitLeaf(k)
  PROVE  NodesOK' /\ TreeOK' /\ split' \in [left : Node, key : Key, right : Node]
<1>1. NodesOK /\ TreeOK /\ root # NULL /\ Missing(k)
  BY DEF BPTreeInv, SplitLeaf, Missing
<1>2. PICK top, height, below : TreeInv(top, height, below)
  BY <1>1 DEF TreeOK
<1>3. PICK n, keys, rows, h :
        n = FindLeaf(k) /\ keys = KeysWith(n, k) /\ rows = RowsWith(n, k) /\ h = Half(keys)
  OBVIOUS
<1>4. /\ n \in Allocated /\ node[n].leaf
      /\ keys \in Seq(Key) /\ Len(keys) = Len(node[n].keys) + 1 /\ Ascending(keys)
      /\ \A j \in 1..Len(keys) : keys[j] = k \/ keys[j] \in below[n]
      /\ rows \in Seq(Nat) /\ Len(rows) = Len(keys)
  BY <1>1, <1>2, <1>3, LeafWithKey
<1>5. PICK P : WayDown(P, root, n, k)
  BY <1>1, <1>2, <1>3, FindLeafEndsInLeaf
<1>6. PICK r, s : /\ r = Leaf(SubSeq(keys, h + 1, Len(keys)), SubSeq(rows, h + 1, Len(rows)),
                              node[n].parent, node[n].next)
                  /\ s = keys[h + 1]
  OBVIOUS
<1>7. PICK new \in Node :
        /\ Full(n) /\ Fresh(new)
        /\ node' = [node EXCEPT
             ![n] = Leaf(SubSeq(keys, 1, h), SubSeq(rows, 1, h), @.parent, new), ![new] = r]
        /\ split' = [left |-> n, key |-> s, right |-> new]
  BY <1>3, <1>6 DEF SplitLeaf
<1>8. PICK l : l = Leaf(SubSeq(keys, 1, h), SubSeq(rows, 1, h), node[n].parent, new)
  OBVIOUS
<1>9. /\ n \in Node /\ n # new /\ new \notin Allocated /\ NodeOK(node[n])
      /\ node[n].parent \in Node \cup {NULL} /\ node[n].next \in Node \cup {NULL}
  BY <1>1, <1>4, <1>7, OnlyNodes, NodeFields DEF Fresh, Allocated
<1>10. Len(keys) = MaxKeys + 1
  BY <1>4, <1>7 DEF Full
<1>11. /\ h \in Nat /\ 1 <= h /\ h + 1 <= Len(keys) /\ h <= MaxKeys
       /\ Len(keys) - h <= MaxKeys
       /\ keys[h + 1] \in Key /\ keys[1] \in Key /\ keys[1] < keys[h + 1]
       /\ \A j \in 1..h : keys[j] < keys[h + 1]
       /\ \A j \in (h + 1)..Len(keys) : keys[h + 1] <= keys[j]
       /\ Len(keys) \in Nat /\ \A j \in 1..Len(keys) : keys[j] \in Nat
  BY <1>3, <1>4, <1>10, Halves
<1>12. PICK lk, lr, rk, rr :
         /\ lk = SubSeq(keys, 1, h) /\ lr = SubSeq(rows, 1, h)
         /\ rk = SubSeq(keys, h + 1, Len(keys)) /\ rr = SubSeq(rows, h + 1, Len(rows))
  OBVIOUS
<1>13. /\ lk \in Seq(Key) /\ Len(lk) = h /\ \A j \in 1..h : lk[j] = keys[j]
       /\ lr \in Seq(Nat) /\ Len(lr) = h
  <2>1. h \in 0..Len(keys) /\ h \in 0..Len(rows)
    BY <1>4, <1>11
  <2> QED  BY <1>4, <1>12, <2>1, FrontPart
<1>14. /\ rk \in Seq(Key) /\ Len(rk) = Len(keys) - h
       /\ \A j \in 1..(Len(keys) - h) : rk[j] = keys[h + j]
       /\ rr \in Seq(Nat) /\ Len(rr) = Len(keys) - h
  <2>1. h + 1 \in 1..(Len(keys) + 1) /\ h + 1 \in 1..(Len(rows) + 1)
    BY <1>4, <1>11
  <2>2. /\ rk \in Seq(Key) /\ Len(rk) = Len(keys) - (h + 1) + 1
        /\ \A m \in 1..(Len(keys) - (h + 1) + 1) : rk[m] = keys[(h + 1) + m - 1]
    BY <1>4, <1>12, <2>1, BackPart
  <2>3. rr \in Seq(Nat) /\ Len(rr) = Len(rows) - (h + 1) + 1
    BY <1>4, <1>12, <2>1, BackPart
  <2>4. \A j \in 1..(Len(keys) - h) : (h + 1) + j - 1 = h + j /\ j \in 1..(Len(keys) - (h + 1) + 1)
    BY <1>11
  <2> QED  BY <1>4, <1>11, <2>2, <2>3, <2>4
<1>15. /\ NodeOK(l) /\ l # NULL /\ l.leaf = TRUE /\ l.kids = <<>> /\ l.keys = lk
       /\ l.parent = node[n].parent
  <2>1. NodeOK(l)
    BY <1>8, <1>9, <1>11, <1>12, <1>13, LeafOK
  <2> QED  BY <1>1, <1>8, <1>12, <2>1, OnlyNodes DEF Leaf
<1>16. /\ NodeOK(r) /\ r # NULL /\ r.leaf = TRUE /\ r.kids = <<>> /\ r.keys = rk
       /\ r.parent = node[n].parent
  <2>1. NodeOK(r)
    BY <1>6, <1>9, <1>11, <1>12, <1>14, LeafOK
  <2> QED  BY <1>1, <1>6, <1>12, <2>1, OnlyNodes DEF Leaf
<1>17. /\ node' = [m \in Node |-> node'[m]]
       /\ node'[n] = l /\ node'[new] = r
       /\ \A m \in Node : m # n /\ m # new => node'[m] = node[m]
  BY <1>1, <1>7, <1>8, <1>9 DEF NodesOK
<1>18. Allocated' = Allocated \cup {new}
  BY <1>7, <1>9, <1>15, <1>16, <1>17, <1>4 DEF Allocated
<1>19. NodesOK'
  BY <1>1, <1>15, <1>16, <1>17 DEF NodesOK
<1>20. split' \in [left : Node, key : Key, right : Node]
  BY <1>6, <1>7, <1>9, <1>11
<1> DEFINE w == Widened(below, P, k)
<1>21. /\ w \in [Node -> SUBSET Key]
       /\ \A m \in P : w[m] = below[m] \cup {k}
       /\ \A m \in Node : below[m] \subseteq w[m]
       /\ \A m \in Allocated : \A i \in 1..Len(node[m].kids) : \A x \in w[node[m].kids[i]] :
            /\ x \in w[m]
            /\ i > 1 => node[m].keys[i - 1] <= x
            /\ i <= Len(node[m].keys) => x < node[m].keys[i]
  BY <1>1, <1>2, <1>5, KeyOnTheWay
<1> HIDE DEF w
<1>22. /\ top \in Nat /\ height \in [Node -> 0..top]
       /\ root \in Allocated /\ node[root].parent = NULL
       /\ KidsInv(height) /\ KeysInv(below)
  BY <1>1, <1>2 DEF TreeInv
<1> DEFINE h2 == [height EXCEPT ![new] = 0]
           b2 == [m \in Node |-> IF m = n THEN { x \in w[n] : x < s }
                                 ELSE IF m = new THEN { x \in w[n] : s <= x } ELSE w[m]]
<1>23. /\ h2 \in [Node -> 0..top] /\ h2[new] = 0 /\ \A m \in Node : m # new => h2[m] = height[m]
  BY <1>22
<1>24. /\ b2 \in [Node -> SUBSET Key]
       /\ b2[n] = { x \in w[n] : x < s } /\ b2[new] = { x \in w[n] : s <= x }
       /\ \A m \in Node : m # n /\ m # new => b2[m] = w[m]
       /\ \A m \in Node : m # new => b2[m] \subseteq w[m]
  BY <1>9, <1>21
<1> HIDE DEF h2, b2
<1>25. \A j \in 1..Len(keys) : keys[j] \in w[n]
  BY <1>4, <1>5, <1>9, <1>21 DEF WayDown
<1>26. \A m \in Allocated :
         /\ m \in Node /\ m # new /\ node'[m].leaf = node[m].leaf
         /\ node'[m].kids = node[m].kids /\ node'[m].parent = node[m].parent
         /\ m # n => node'[m] = node[m] /\ b2[m] = w[m]
  <2>1. node[n].kids = <<>>
    BY <1>4, <1>22 DEF KidsInv
  <2>2. node[n].leaf = TRUE
    BY <1>4, <1>9 DEF NodeOK, TreeNode
  <2> QED  BY <1>9, <1>15, <1>17, <1>24, <2>1, <2>2 DEF Allocated
<1>27. KidsInv(h2)'
  <2> SUFFICES ASSUME NEW m \in Allocated' PROVE
        /\ node'[m].leaf => node'[m].kids = <<>> /\ h2[m] = 0
        /\ \A i \in 1..Len(node'[m].kids) :
             /\ node'[m].kids[i] \in Allocated'
             /\ h2[m] = h2[node'[m].kids[i]] + 1
             /\ node'[node'[m].kids[i]].parent = m
             /\ \A j \in 1..Len(node'[m].kids) : node'[m].kids[j] = node'[m].kids[i] => j = i
    BY DEF KidsInv
  <2>1. CASE m = new
    BY <1>16, <1>17, <1>23, <2>1
  <2>2. CASE m \in Allocated
    <3>1. /\ node[m].leaf => node[m].kids = <<>> /\ height[m] = 0
          /\ \A i \in 1..Len(node[m].kids) :
               /\ node[m].kids[i] \in Allocated
               /\ height[m] = height[node[m].kids[i]] + 1
               /\ node[node[m].kids[i]].parent = m
               /\ \A j \in 1..Len(node[m].kids) : node[m].kids[j] = node[m].kids[i] => j = i
      BY <1>22, <2>2 DEF KidsInv
    <3>2. \A i \in 1..Len(node[m].kids) :
            /\ node'[node[m].kids[i]].parent = m
            /\ h2[node[m].kids[i]] = height[node[m].kids[i]]
      BY <1>23, <1>26, <3>1
    <3>3. h2[m] = height[m] /\ node'[m].kids = node[m].kids /\ node'[m].leaf = node[m].leaf
      BY <1>23, <1>26, <2>2
    <3> QED  BY <1>18, <3>1, <3>2, <3>3
  <2> QED  BY <1>18, <2>1, <2>2
<1>28. KeysInv(b2)'
  <2> SUFFICES ASSUME NEW m \in Allocated' PROVE
        /\ \A j \in 1..Len(node'[m].keys) : node'[m].keys[j] \in b2[m]
        /\ Ascending(node'[m].keys)
        /\ \A i \in 1..Len(node'[m].kids) : \A x \in b2[node'[m].kids[i]] :
             /\ x \in b2[m]
             /\ i > 1 => node'[m].keys[i - 1] <= x
             /\ i <= Len(node'[m].keys) => x < node'[m].keys[i]
    BY DEF KeysInv
  <2>1. CASE m = new
    <3>1. node'[m].keys = rk /\ node'[m].kids = <<>> /\ Len(node'[m].kids) = 0
      BY <1>16, <1>17, <2>1
    <3>2. \A j \in 1..Len(rk) : /\ h + j \in (h + 1)..Len(keys) /\ h + j \in 1..Len(keys)
                                /\ rk[j] = keys[h + j]
      BY <1>11, <1>14
    <3>3. \A j \in 1..Len(rk) : rk[j] \in w[n] /\ s <= rk[j]
      BY <1>6, <1>11, <1>25, <3>2
    <3>4. Ascending(rk)
      <4> SUFFICES ASSUME NEW i \in 1..Len(rk), NEW j \in 1..Len(rk), i < j PROVE rk[i] < rk[j]
        BY DEF Ascending
      <4>1. h + i < h + j
        BY <1>11
      <4> QED  BY <1>4, <3>2, <4>1 DEF Ascending
    <3> QED  BY <1>24, <2>1, <3>1, <3>3, <3>4
  <2>2. CASE m = n
    <3>1. node'[m].keys = lk /\ node'[m].kids = <<>> /\ Len(node'[m].kids) = 0
      BY <1>15, <1>17, <2>2
    <3>2. \A j \in 1..Len(lk) : j \in 1..h /\ j \in 1..Len(keys) /\ lk[j] = keys[j]
      BY <1>11, <1>13
    <3>3. \A j \in 1..Len(lk) : lk[j] \in w[n] /\ lk[j] < s
      BY <1>6, <1>11, <1>25, <3>2
    <3>4. Ascending(lk)
      BY <1>4, <3>2 DEF Ascending
    <3> QED  BY <1>24, <2>2, <3>1, <3>3, <3>4
  <2>3. CASE m \in Allocated /\ m # n
    <3>1. /\ \A j \in 1..Len(node[m].keys) : node[m].keys[j] \in w[m]
          /\ Ascending(node[m].keys)
      BY <1>21, <1>22, <1>26, <2>3 DEF KeysInv
    <3>2. \A i \in 1..Len(node[m].kids) : b2[node[m].kids[i]] \subseteq w[node[m].kids[i]]
      BY <1>22, <1>24, <1>26, <2>3 DEF KidsInv
    <3>3. node'[m] = node[m] /\ b2[m] = w[m]
      BY <1>26, <2>3
    <3> QED  BY <1>21, <2>3, <3>1, <3>2, <3>3
  <2> QED  BY <1>18, <2>1, <2>2, <2>3
<1>29. step' = "parent" /\ root' = root /\ inserting' = k
  BY DEF SplitLeaf
<1>30. split'.left = n /\ split'.right = new /\ split'.key = s
  BY <1>7
<1>31. SplitInv(h2, b2)'
  <2> DEFINE p == node[n].parent
  <2>1. /\ n \in Allocated' /\ new \in Allocated' /\ n # new /\ new # root
        /\ h2[n] = h2[new]
    BY <1>4, <1>9, <1>18, <1>22, <1>23 DEF KidsInv
  <2>2. node'[n].parent = p /\ node'[new].parent = p
    BY <1>15, <1>16, <1>17
  <2>3. \A m \in Allocated' : \A i \in 1..Len(node'[m].kids) : node'[m].kids[i] # new
    <3>1. \A m \in Allocated : \A i \in 1..Len(node[m].kids) : node[m].kids[i] # new
      BY <1>9, <1>22 DEF KidsInv
    <3>2. node'[new].kids = <<>>
      BY <1>16, <1>17
    <3> QED  BY <1>18, <1>26, <3>1, <3>2
  <2>4. (\A x \in b2[n] : x < s) /\ (\A x \in b2[new] : s <= x)
    BY <1>24
  <2>5. n \in P /\ Attached(P)'
    <3>1. n \in P /\ Attached(P)
      BY <1>1, <1>2, <1>5, WayIsAttached DEF WayDown
    <3>2. P \subseteq Allocated
      BY <3>1 DEF Attached
    <3>3. ASSUME NEW m \in P, m # root
          PROVE  /\ node'[m].parent \in P
                 /\ \E i \in 1..Len(node'[node'[m].parent].kids) : node'[node'[m].parent].kids[i] = m
      <4>1. /\ node[m].parent \in P
            /\ \E i \in 1..Len(node[node[m].parent].kids) : node[node[m].parent].kids[i] = m
        BY <3>1, <3>3 DEF Attached
      <4>2. node'[m].parent = node[m].parent /\ node'[node[m].parent].kids = node[node[m].parent].kids
        BY <1>26, <3>2, <3>3, <4>1
      <4> QED  BY <4>1, <4>2
    <3> QED  BY <1>18, <1>29, <3>1, <3>2, <3>3 DEF Attached
  <2>6. ASSUME p # NULL
        PROVE  /\ s \in b2[p] /\ b2[new] \subseteq b2[p]
               /\ \A i \in 1..Len(node'[p].kids) : node'[p].kids[i] = n =>
                    /\ i > 1 => node'[p].keys[i - 1] < s
                    /\ i <= Len(node'[p].keys) =>
                         /\ s < node'[p].keys[i]
                         /\ \A x \in b2[new] : x < node'[p].keys[i]
    <3>1. n # root
      BY <1>22, <2>6
    <3>2. p \in Allocated /\ \E i \in 1..Len(node[p].kids) : node[p].kids[i] = n
      <4>1. Attached(P) /\ n \in P
        BY <1>1, <1>2, <1>5, WayIsAttached DEF WayDown
      <4> QED  BY <3>1, <4>1 DEF Attached
    <3>3. p # n
      BY <1>4, <1>22, <3>2 DEF KidsInv
    <3>4. node'[p] = node[p] /\ b2[p] = w[p]
      BY <1>26, <3>2, <3>3
    <3>5. s \in w[n] /\ keys[1] \in w[n] /\ b2[new] \subseteq w[n] /\ keys[1] < s
      <4>1. 1 \in 1..Len(keys) /\ h + 1 \in 1..Len(keys)
        BY <1>11
      <4> QED  BY <1>6, <1>11, <1>24, <1>25, <4>1
    <3>6. \A i \in 1..Len(node[p].kids) : node[p].kids[i] = n =>
            \A x \in w[n] : /\ x \in w[p]
                            /\ i > 1 => node[p].keys[i - 1] <= x
                            /\ i <= Len(node[p].keys) => x < node[p].keys[i]
      BY <1>21, <3>2
    <3>7. s \in w[p] /\ b2[new] \subseteq w[p]
      BY <3>2, <3>5, <3>6
    <3>8. ASSUME NEW i \in 1..Len(node[p].kids), node[p].kids[i] = n, i > 1
          PROVE  node[p].keys[i - 1] < s
      <4>1. node[p].keys[i - 1] <= keys[1]
        BY <3>5, <3>6, <3>8
      <4>2. i - 1 \in 1..Len(node[p].keys)
        <5>1. Len(node[p].kids) \in Nat /\ Len(node[p].kids) # 0 /\ Len(node[p].keys) \in Nat
          BY <1>1, <3>2, <3>8, NodeFields
        <5>2. ~node[p].leaf
          BY <1>22, <3>2, <5>1 DEF KidsInv
        <5> QED  BY <1>1, <3>2, <3>8, <5>1, <5>2, NodeFields
      <4>3. node[p].keys[i - 1] \in Nat /\ keys[1] \in Nat /\ s \in Nat
        <5>1. 1 \in 1..Len(keys) /\ h + 1 \in 1..Len(keys)
          BY <1>11
        <5>2. node[p].keys[i - 1] \in Nat
          <6>1. \A j \in 1..Len(node[p].keys) : node[p].keys[j] \in Key
            BY <1>1, <3>2, NodeFields
          <6> QED  BY <4>2, <6>1 DEF Key
        <5> QED  BY <1>6, <1>11, <5>1, <5>2
      <4> QED  BY <3>5, <4>1, <4>3
    <3> QED  BY <3>4, <3>5, <3>6, <3>7, <3>8
  <2> HIDE DEF p
  <2>7. node'[n].parent = p /\ node'[new].parent = p
    BY <2>2
  <2>8. SplitInv(h2, b2)' = (step' = "parent" =>
         /\ split' \in [left : Node, key : Key, right : Node] /\ inserting' \in Key
         /\ n \in Allocated' /\ new \in Allocated' /\ n # new /\ new # root'
         /\ h2[n] = h2[new]
         /\ node'[new].parent = p
         /\ \A m \in Allocated' : \A i \in 1..Len(node'[m].kids) : node'[m].kids[i] # new
         /\ \A x \in b2[n] : x < s
         /\ \A x \in b2[new] : s <= x
         /\ \E U : n \in U /\ Attached(U)'
         /\ p # NULL =>
              /\ s \in b2[p] /\ b2[new] \subseteq b2[p]
              /\ \A i \in 1..Len(node'[p].kids) : node'[p].kids[i] = n =>
                   /\ i > 1 => node'[p].keys[i - 1] < s
                   /\ i <= Len(node'[p].keys) =>
                        /\ s < node'[p].keys[i]
                        /\ \A x \in b2[new] : x < node'[p].keys[i])
    BY <1>30, <2>7 DEF SplitInv
  <2> QED  BY <1>20, <1>29, <2>1, <2>3, <2>4, <2>5, <2>6, <2>7, <2>8
<1>32. root' # NULL /\ root' \in Allocated' /\ node'[root'].parent = NULL
  BY <1>1, <1>18, <1>22, <1>26, <1>29
<1>33. TreeInv(top, h2, b2)'
  BY <1>32, <1>18, <1>22, <1>23, <1>24, <1>26, <1>27, <1>28, <1>29, <1>31 DEF TreeInv
<1> QED  BY <1>19, <1>20, <1>33 DEF TreeOK

-------------------------------------------------------------------------------
\* The split goes up

LEMMA NewRootKeepsTree ==
  ASSUME BPTreeInv, NewRoot
  PROVE  NodesOK' /\ TreeOK'
<1>1. step = "parent" /\ NodesOK /\ TreeOK
  BY DEF BPTreeInv, NewRoot
<1>2. PICK top, height, below : TreeInv(top, height, below)
  BY <1>1 DEF TreeOK
<1>3. PICK left, right, s : left = split.left /\ right = split.right /\ s = split.key
  OBVIOUS
<1>4. /\ top \in Nat /\ height \in [Node -> 0..top] /\ below \in [Node -> SUBSET Key]
      /\ KidsInv(height) /\ KeysInv(below)
  BY <1>2 DEF TreeInv
<1>5. /\ s \in Key
      /\ left \in Allocated /\ right \in Allocated /\ left # right
      /\ height[left] = height[right]
      /\ node[left].parent = NULL /\ node[right].parent = NULL
      /\ \A m \in Allocated : \A i \in 1..Len(node[m].kids) : node[m].kids[i] # right
      /\ \A x \in below[left] : x < s
      /\ \A x \in below[right] : s <= x
  BY <1>1, <1>2, <1>3 DEF TreeInv, SplitInv, NewRoot, Parent
<1>7. PICK n \in Node :
        /\ Fresh(n)
        /\ node' = [node EXCEPT ![n] = Internal(<<s>>, <<left, right>>, NULL),
                                ![left].parent = n, ![right].parent = n]
        /\ root' = n
  BY <1>3 DEF NewRoot
<1>8. PICK top0 : top0 = Internal(<<s>>, <<left, right>>, NULL)
  OBVIOUS
<1>9. n \notin Allocated /\ n # left /\ n # right /\ left \in Node /\ right \in Node
  BY <1>5, <1>7 DEF Fresh, Allocated
<1>10. /\ NodeOK(top0) /\ top0 # NULL /\ top0.leaf = FALSE /\ top0.keys = <<s>>
       /\ top0.kids = <<left, right>> /\ top0.parent = NULL
  <2>1. /\ <<s>> \in Seq(Key) /\ <<left, right>> \in Seq(Node)
        /\ Len(<<s>>) = 1 /\ Len(<<left, right>>) = 2 /\ 1 <= MaxKeys
    BY <1>5, <1>9, BPTreeAssumption
  <2>2. NodeOK(top0)
    <3>1. PICK ks, cs : ks = <<s>> /\ cs = <<left, right>>
      OBVIOUS
    <3>2. /\ ks \in Seq(Key) /\ cs \in Seq(Node) /\ Len(cs) = Len(ks) + 1 /\ Len(ks) <= MaxKeys
          /\ NULL \in Node \cup {NULL}
      BY <2>1, <3>1
    <3>3. NodeOK(Internal(ks, cs, NULL))
      BY <3>2, InternalOK
    <3> QED  BY <1>8, <3>1, <3>3
  <2> QED  BY <1>1, <1>8, <2>2, OnlyNodes DEF Internal
<1>11. /\ node' = [m \in Node |-> node'[m]]
       /\ node'[n] = top0
       /\ node'[left] = [node[left] EXCEPT !.parent = n]
       /\ node'[right] = [node[right] EXCEPT !.parent = n]
       /\ \A m \in Node : m # n /\ m # left /\ m # right => node'[m] = node[m]
  BY <1>1, <1>5, <1>7, <1>8, <1>9 DEF NodesOK
<1>12. \A m \in Allocated :
         /\ m \in Node /\ m # n /\ NodeOK(node'[m]) /\ node'[m] # NULL
         /\ node'[m].leaf = node[m].leaf /\ node'[m].keys = node[m].keys
         /\ node'[m].kids = node[m].kids
         /\ node'[m].parent = IF m = left \/ m = right THEN n ELSE node[m].parent
  <2>1. \A m \in Allocated : NodeOK(node[m]) /\ m \in Node /\ node[m] # NULL
    BY <1>1, OnlyNodes
  <2>2. ASSUME NEW m \in Allocated, m = left \/ m = right
        PROVE  /\ NodeOK(node'[m]) /\ node'[m].leaf = node[m].leaf
               /\ node'[m].keys = node[m].keys /\ node'[m].kids = node[m].kids
               /\ node'[m].parent = n
    <3>1. node'[m] = [node[m] EXCEPT !.parent = n]
      <4>1. CASE m = left
        BY <1>11, <4>1
      <4>2. CASE m = right
        BY <1>11, <4>2
      <4> QED  BY <2>2, <4>1, <4>2
    <3>2. PICK r : r = node[m]
      OBVIOUS
    <3>3. NodeOK(r)
      BY <2>1, <3>2
    <3>4. /\ NodeOK([r EXCEPT !.parent = n])
          /\ [r EXCEPT !.parent = n].parent = n /\ [r EXCEPT !.parent = n].leaf = r.leaf
          /\ [r EXCEPT !.parent = n].keys = r.keys /\ [r EXCEPT !.parent = n].kids = r.kids
      BY <3>3, AdoptedOK
    <3> QED  BY <3>1, <3>2, <3>4
  <2> QED  BY <1>1, <1>9, <1>11, <2>1, <2>2, OnlyNodes
<1>13. Allocated' = Allocated \cup {n}
  <2>1. \A m \in Node : m \notin Allocated /\ m # n => node'[m] = NULL
    BY <1>5, <1>11 DEF Allocated
  <2> QED  BY <1>10, <1>11, <1>12, <2>1 DEF Allocated
<1>14. NodesOK'
  <2>1. \A m \in Node : node'[m] = NULL \/ NodeOK(node'[m])
    BY <1>10, <1>11, <1>12, <1>13 DEF Allocated
  <2> QED  BY <1>11, <2>1 DEF NodesOK
<1> DEFINE h2 == [height EXCEPT ![n] = height[left] + 1]
           b2 == [below EXCEPT ![n] = below[left] \cup below[right] \cup {s}]
<1>15. /\ h2 \in [Node -> 0..(top + 1)] /\ h2[n] = height[left] + 1
       /\ \A m \in Node : m # n => h2[m] = height[m]
       /\ b2 \in [Node -> SUBSET Key] /\ b2[n] = below[left] \cup below[right] \cup {s}
       /\ \A m \in Node : m # n => b2[m] = below[m]
  BY <1>4, <1>5, <1>9
<1> HIDE DEF h2, b2
<1>16. KidsInv(h2)'
  <2> SUFFICES ASSUME NEW m \in Allocated' PROVE
        /\ node'[m].leaf => node'[m].kids = <<>> /\ h2[m] = 0
        /\ \A i \in 1..Len(node'[m].kids) :
             /\ node'[m].kids[i] \in Allocated'
             /\ h2[m] = h2[node'[m].kids[i]] + 1
             /\ node'[node'[m].kids[i]].parent = m
             /\ \A j \in 1..Len(node'[m].kids) : node'[m].kids[j] = node'[m].kids[i] => j = i
    BY DEF KidsInv
  <2>1. CASE m = n
    <3>1. /\ node'[m].kids = <<left, right>> /\ Len(node'[m].kids) = 2 /\ node'[m].leaf = FALSE
          /\ node'[m].kids[1] = left /\ node'[m].kids[2] = right
      BY <1>10, <1>11, <2>1
    <3>2. /\ h2[m] = h2[left] + 1 /\ h2[m] = h2[right] + 1
          /\ node'[left].parent = n /\ node'[right].parent = n
      BY <1>5, <1>9, <1>12, <1>15, <2>1
    <3>3. 1..2 = {1, 2}
      OBVIOUS
    <3> QED  BY <1>5, <1>13, <2>1, <3>1, <3>2, <3>3
  <2>2. CASE m \in Allocated
    <3>1. /\ node[m].leaf => node[m].kids = <<>> /\ height[m] = 0
          /\ \A i \in 1..Len(node[m].kids) :
               /\ node[m].kids[i] \in Allocated
               /\ height[m] = height[node[m].kids[i]] + 1
               /\ node[node[m].kids[i]].parent = m
               /\ \A j \in 1..Len(node[m].kids) : node[m].kids[j] = node[m].kids[i] => j = i
      BY <1>4, <2>2 DEF KidsInv
    <3>2. m # NULL
      BY <1>1, <1>12, <2>2, OnlyNodes
    <3>3. \A i \in 1..Len(node[m].kids) :
            /\ node[m].kids[i] # left /\ node[m].kids[i] # right
            /\ node'[node[m].kids[i]].parent = m
            /\ h2[node[m].kids[i]] = height[node[m].kids[i]]
      <4> SUFFICES ASSUME NEW i \in 1..Len(node[m].kids)
                   PROVE  LET c == node[m].kids[i]
                          IN /\ c # left /\ c # right
                             /\ node'[c].parent = m /\ h2[c] = height[c]
        OBVIOUS
      <4> DEFINE c == node[m].kids[i]
      <4>1. c \in Allocated /\ node[c].parent = m
        BY <3>1
      <4> HIDE DEF c
      <4>2. c # left /\ c # right
        BY <1>5, <3>2, <4>1
      <4>3. c \in Node /\ c # n /\ node'[c].parent = node[c].parent
        BY <1>12, <4>1, <4>2
      <4> QED  BY <1>15, <4>1, <4>2, <4>3 DEF c
    <3>4. h2[m] = height[m] /\ node'[m].kids = node[m].kids /\ node'[m].leaf = node[m].leaf
      BY <1>12, <1>15, <2>2
    <3> QED  BY <1>13, <3>1, <3>3, <3>4
  <2> QED  BY <1>13, <2>1, <2>2
<1>17. KeysInv(b2)'
  <2> SUFFICES ASSUME NEW m \in Allocated' PROVE
        /\ \A j \in 1..Len(node'[m].keys) : node'[m].keys[j] \in b2[m]
        /\ Ascending(node'[m].keys)
        /\ \A i \in 1..Len(node'[m].kids) : \A x \in b2[node'[m].kids[i]] :
             /\ x \in b2[m]
             /\ i > 1 => node'[m].keys[i - 1] <= x
             /\ i <= Len(node'[m].keys) => x < node'[m].keys[i]
    BY DEF KeysInv
  <2>1. CASE m = n
    <3>1. /\ node'[m].kids[1] = left /\ node'[m].kids[2] = right /\ Len(node'[m].kids) = 2
          /\ Len(node'[m].keys) = 1 /\ node'[m].keys[1] = s
      <4>1. node'[m].kids = <<left, right>> /\ node'[m].keys = <<s>>
        BY <1>10, <1>11, <2>1
      <4> QED  BY <4>1
    <3>2. 1..2 = {1, 2} /\ 1..1 = {1}
      OBVIOUS
    <3>3. b2[left] = below[left] /\ b2[right] = below[right]
      BY <1>9, <1>15
    <3>4. ASSUME NEW i \in 1..2, NEW x \in b2[node'[m].kids[i]]
          PROVE  /\ x \in b2[m]
                 /\ i > 1 => node'[m].keys[i - 1] <= x
                 /\ i <= 1 => x < node'[m].keys[i]
      <4>1. CASE i = 1
        BY <1>5, <1>15, <2>1, <3>1, <3>3, <3>4, <4>1
      <4>2. CASE i = 2
        BY <1>5, <1>15, <2>1, <3>1, <3>3, <3>4, <4>2
      <4> QED  BY <3>2, <4>1, <4>2
    <3>5. Ascending(node'[m].keys) /\ \A j \in 1..Len(node'[m].keys) : node'[m].keys[j] \in b2[m]
      BY <1>15, <2>1, <3>1, <3>2 DEF Ascending
    <3> QED  BY <3>1, <3>4, <3>5
  <2>2. CASE m \in Allocated
    <3>1. node'[m].keys = node[m].keys /\ node'[m].kids = node[m].kids /\ b2[m] = below[m]
      BY <1>12, <1>15, <2>2
    <3>2. \A i \in 1..Len(node[m].kids) : b2[node[m].kids[i]] = below[node[m].kids[i]]
      BY <1>4, <1>12, <1>15, <2>2 DEF KidsInv
    <3>3. KeysHeld(m, below)
      BY <1>4, <2>2, KeysHeldBy
    <3> QED  BY <3>1, <3>2, <3>3 DEF KeysHeld
  <2> QED  BY <1>13, <2>1, <2>2
<1>18. step' = "ready"
  BY DEF NewRoot, Accept, Return
<1>19. top + 1 \in Nat /\ node'[root'].parent = NULL /\ root' \in Allocated'
  <2>1. root' = n
    BY <1>7
  <2>2. node'[root'] = top0
    BY <1>11, <2>1
  <2> QED  BY <1>4, <1>10, <1>13, <2>1, <2>2
<1>20. TreeInv(top + 1, h2, b2)'
  BY <1>15, <1>16, <1>17, <1>18, <1>19 DEF TreeInv, SplitInv
<1> QED  BY <1>14, <1>20 DEF TreeOK

\* The split node is where its parent points.
LEMMA LeftPlace ==
  ASSUME NodesOK, NEW top, NEW height, NEW below, TreeInv(top, height, below),
         step = "parent", Parent # NULL
  PROVE  /\ Parent \in Allocated /\ ~node[Parent].leaf
         /\ LeftIndex \in 1..Len(node[Parent].kids)
         /\ node[Parent].kids[LeftIndex] = split.left
<1>1. PICK left, p : left = split.left /\ p = Parent
  OBVIOUS
<1>2. PICK U : left \in U /\ Attached(U)
  BY <1>1 DEF TreeInv, SplitInv
<1>3. p = node[left].parent /\ p # NULL
  BY <1>1 DEF Parent
<1>4. left # root
  BY <1>3 DEF TreeInv
<1>5. p \in Allocated /\ \E i \in 1..Len(node[p].kids) : node[p].kids[i] = left
  BY <1>2, <1>3, <1>4 DEF Attached
<1>6. Len(node[p].kids) \in Nat
  BY <1>5, NodeFields
<1>7. ~node[p].leaf
  BY <1>5 DEF TreeInv, KidsInv
<1> DEFINE I == { i \in 1..Len(node[p].kids) : node[p].kids[i] = left }
<1>8. LeftIndex = IF I # {} THEN Min(I) ELSE 0
  BY <1>1 DEF LeftIndex, SelectInSeq
<1>9. I # {} /\ I \subseteq 1..Len(node[p].kids) /\ \A i \in I : node[p].kids[i] = left
  BY <1>5
<1> HIDE DEF I
<1>10. Min(I) \in I
  BY <1>6, <1>9, FirstPlace
<1> QED  BY <1>1, <1>5, <1>7, <1>8, <1>9, <1>10

\* The keys and the children of the parent with those of the split: what they
\* would be in a node with room for them all.
Grown(p, keys, kids, height, below) ==
  /\ keys \in Seq(Key) /\ kids \in Seq(Node)
  /\ Len(keys) \in Nat /\ Len(kids) = Len(keys) + 1
  /\ Ascending(keys)
  /\ \A j \in 1..Len(keys) : keys[j] \in below[p] /\ keys[j] \in Nat
  /\ \A i \in 1..Len(kids) :
       /\ kids[i] \in Allocated
       /\ height[p] = height[kids[i]] + 1
       /\ node[kids[i]].parent = p
       /\ \A j \in 1..Len(kids) : kids[j] = kids[i] => j = i
       /\ \A x \in below[kids[i]] :
            /\ x \in below[p]
            /\ i > 1 => keys[i - 1] <= x
            /\ i <= Len(keys) => x < keys[i]
  /\ \A c \in Allocated : node[c].parent = p =>
       \A m \in Allocated : \A i \in 1..Len(node[m].kids) :
         node[m].kids[i] = c => m = p

LEMMA ParentGrown ==
  ASSUME NodesOK, NEW top, NEW height, NEW below, TreeInv(top, height, below),
         step = "parent", Parent # NULL
  PROVE  /\ Grown(Parent, ParentKeys, ParentKids, height, below)
         /\ Len(ParentKeys) = Len(node[Parent].keys) + 1
<1>1. PICK left, right, s, p, i :
        left = split.left /\ right = split.right /\ s = split.key /\ p = Parent /\ i = LeftIndex
  OBVIOUS
<1>2. PICK ks, cs : ks = node[p].keys /\ cs = node[p].kids
  OBVIOUS
<1>3. /\ p \in Allocated /\ ~node[p].leaf /\ i \in 1..Len(cs) /\ cs[i] = left
  BY <1>1, <1>2, LeftPlace
<1>4. /\ ks \in Seq(Key) /\ cs \in Seq(Node) /\ Len(ks) \in Nat /\ Len(cs) = Len(ks) + 1
      /\ \A j \in 1..Len(ks) : ks[j] \in Nat
  BY <1>2, <1>3, NodeFields DEF Key
<1>5. KidsInv(height) /\ KeysInv(below) /\ SplitInv(height, below)
  BY DEF TreeInv
<1>6. /\ s \in Key /\ s \in Nat /\ right \in Allocated /\ right \in Node
      /\ height[left] = height[right] /\ node[right].parent = p
      /\ \A m \in Allocated : \A j \in 1..Len(node[m].kids) : node[m].kids[j] # right
      /\ \A x \in below[left] : x < s
      /\ \A x \in below[right] : s <= x
      /\ s \in below[p] /\ below[right] \subseteq below[p]
  <2>1. p = node[left].parent /\ p # NULL
    BY <1>1 DEF Parent
  <2>2. split \in [left : Node, key : Key, right : Node]
    BY <1>5 DEF SplitInv
  <2>3. s \in Key /\ right \in Node
    BY <1>1, <2>2
  <2>4. s \in Nat
    BY <2>3 DEF Key
  <2>5. /\ right \in Allocated /\ height[left] = height[right] /\ node[right].parent = p
        /\ \A m \in Allocated : \A j \in 1..Len(node[m].kids) : node[m].kids[j] # right
    BY <1>1, <1>5, <2>1 DEF SplitInv
  <2>6. /\ \A x \in below[left] : x < s
        /\ \A x \in below[right] : s <= x
        /\ s \in below[p] /\ below[right] \subseteq below[p]
    BY <1>1, <1>5, <2>1 DEF SplitInv
  <2> QED  BY <2>3, <2>4, <2>5, <2>6
<1>7. /\ i > 1 => ks[i - 1] < s
      /\ i <= Len(ks) => s < ks[i] /\ \A x \in below[right] : x < ks[i]
  BY <1>1, <1>2, <1>3, <1>5 DEF SplitInv, Parent
<1>8. /\ Ascending(ks)
      /\ \A j \in 1..Len(ks) : ks[j] \in below[p]
      /\ \A j \in 1..Len(cs) : \A x \in below[cs[j]] :
           /\ x \in below[p]
           /\ j > 1 => ks[j - 1] <= x
           /\ j <= Len(ks) => x < ks[j]
  BY <1>2, <1>3, <1>5 DEF KeysInv
<1>9. \A j \in 1..Len(cs) :
        /\ cs[j] \in Allocated /\ height[p] = height[cs[j]] + 1 /\ node[cs[j]].parent = p
        /\ cs[j] # right
        /\ \A m \in 1..Len(cs) : cs[m] = cs[j] => m = j
  BY <1>2, <1>3, <1>5, <1>6 DEF KidsInv
<1>10. PICK ks2, cs2 : ks2 = InsertAt(ks, i, s) /\ cs2 = InsertAt(cs, i + 1, right)
  OBVIOUS
<1>11. /\ ks2 \in Seq(Key) /\ Len(ks2) = Len(ks) + 1 /\ Ascending(ks2)
       /\ \A j \in 1..Len(ks2) :
            \/ j < i /\ j \in 1..Len(ks) /\ ks2[j] = ks[j]
            \/ j = i /\ ks2[j] = s
            \/ j > i /\ j - 1 \in 1..Len(ks) /\ ks2[j] = ks[j - 1]
  <2>1. i \in 1..(Len(ks) + 1)
    BY <1>3, <1>4
  <2>2. i > 1 => ks[i - 1] < s
    BY <1>7
  <2>3. i <= Len(ks) => s < ks[i]
    BY <1>7
  <2>4. ks \in Seq(Key) /\ s \in Key /\ Ascending(ks)
    BY <1>4, <1>6, <1>8
  <2>5. ks2 = InsertAt(ks, i, s)
    BY <1>10
  <2> QED  BY <2>1, <2>2, <2>3, <2>4, <2>5, StillAscending
<1>12. /\ cs2 \in Seq(Node) /\ Len(cs2) = Len(cs) + 1
       /\ \A j \in 1..Len(cs2) :
            cs2[j] = IF j <= i THEN cs[j] ELSE IF j = i + 1 THEN right ELSE cs[j - 1]
  <2>1. i + 1 \in 1..(Len(cs) + 1)
    BY <1>3, <1>4
  <2>2. /\ cs2 \in Seq(Node) /\ Len(cs2) = Len(cs) + 1
        /\ \A j \in 1..(Len(cs) + 1) :
             cs2[j] = IF j < i + 1 THEN cs[j] ELSE IF j = i + 1 THEN right ELSE cs[j - 1]
    <3>1. PICK a : a = i + 1
      OBVIOUS
    <3>2. cs \in Seq(Node) /\ right \in Node /\ a \in 1..(Len(cs) + 1)
      BY <1>4, <1>6, <2>1, <3>1
    <3>4. cs2 = InsertAt(cs, a, right)
      BY <1>10, <3>1
    <3>3. /\ InsertAt(cs, a, right) \in Seq(Node) /\ Len(InsertAt(cs, a, right)) = Len(cs) + 1
          /\ \A j \in 1..(Len(cs) + 1) :
               InsertAt(cs, a, right)[j] =
                 IF j < a THEN cs[j] ELSE IF j = a THEN right ELSE cs[j - 1]
      BY <3>2, InsertedAt
    <3> QED  BY <3>1, <3>3, <3>4
  <2>3. \A j \in 1..Len(cs2) : j < i + 1 <=> j <= i
    BY <1>3, <1>4, <2>2
  <2> QED  BY <2>2, <2>3
<1>13. \A j \in 1..Len(ks2) : ks2[j] \in below[p] /\ ks2[j] \in Nat
  BY <1>4, <1>6, <1>8, <1>11
<1>14. ASSUME NEW j \in 1..Len(cs2)
       PROVE  /\ cs2[j] \in Allocated
              /\ height[p] = height[cs2[j]] + 1
              /\ node[cs2[j]].parent = p
              /\ \A m \in 1..Len(cs2) : cs2[m] = cs2[j] => m = j
  <2>1. \A m \in 1..Len(cs2) : \/ m <= i /\ m \in 1..Len(cs) /\ cs2[m] = cs[m]
                               \/ m = i + 1 /\ cs2[m] = right
                               \/ m > i + 1 /\ m - 1 \in 1..Len(cs) /\ cs2[m] = cs[m - 1]
    BY <1>3, <1>4, <1>12
  <2>2. height[p] = height[right] + 1
    BY <1>3, <1>6, <1>9
  <2>3. CASE j = i + 1
    <3>1. cs2[j] = right
      BY <1>3, <1>4, <2>1, <2>3
    <3> QED  BY <1>3, <1>4, <1>6, <1>9, <2>1, <2>2, <2>3, <3>1
  <2>4. CASE j <= i
    <3>1. cs2[j] = cs[j] /\ j \in 1..Len(cs)
      BY <1>3, <1>4, <2>1, <2>4
    <3>2. ASSUME NEW m \in 1..Len(cs2), cs2[m] = cs2[j] PROVE m = j
      <4>1. CASE m <= i /\ m \in 1..Len(cs) /\ cs2[m] = cs[m]
        BY <1>9, <3>1, <3>2, <4>1
      <4>2. CASE m = i + 1 /\ cs2[m] = right
        BY <1>9, <3>1, <3>2, <4>2
      <4>3. CASE m > i + 1 /\ m - 1 \in 1..Len(cs) /\ cs2[m] = cs[m - 1]
        <5>1. m - 1 = j
          BY <1>9, <3>1, <3>2, <4>3
        <5> QED  BY <1>3, <1>4, <2>4, <4>3, <5>1
      <4> QED  BY <2>1, <4>1, <4>2, <4>3
    <3> QED  BY <1>9, <3>1, <3>2
  <2>5. CASE j > i + 1
    <3>1. cs2[j] = cs[j - 1] /\ j - 1 \in 1..Len(cs) /\ j - 1 > i
      BY <1>3, <1>4, <2>1, <2>5
    <3>2. ASSUME NEW m \in 1..Len(cs2), cs2[m] = cs2[j] PROVE m = j
      <4>1. CASE m <= i /\ m \in 1..Len(cs) /\ cs2[m] = cs[m]
        <5>1. m = j - 1
          BY <1>9, <3>1, <3>2, <4>1
        <5> QED  BY <1>3, <3>1, <4>1, <5>1
      <4>2. CASE m = i + 1 /\ cs2[m] = right
        BY <1>9, <3>1, <3>2, <4>2
      <4>3. CASE m > i + 1 /\ m - 1 \in 1..Len(cs) /\ cs2[m] = cs[m - 1]
        <5>1. m - 1 = j - 1
          BY <1>9, <3>1, <3>2, <4>3
        <5> QED  BY <1>4, <1>12, <5>1
      <4> QED  BY <2>1, <4>1, <4>2, <4>3
    <3> QED  BY <1>9, <3>1, <3>2
  <2>6. i \in Nat /\ j \in Nat
    BY <1>3, <1>4, <1>12
  <2>7. j = i + 1 \/ j <= i \/ j > i + 1
    BY <2>6
  <2> QED  BY <2>3, <2>4, <2>5, <2>7
<1>15. ASSUME NEW j \in 1..Len(cs2), NEW x \in below[cs2[j]]
       PROVE  /\ x \in below[p]
              /\ j > 1 => ks2[j - 1] <= x
              /\ j <= Len(ks2) => x < ks2[j]
  <2>1. Len(ks2) \in Nat /\ Len(cs2) = Len(ks2) + 1 /\ i \in Nat /\ j \in Nat
    BY <1>3, <1>4, <1>11, <1>12
  <2>2. CASE j < i
    <3>1. cs2[j] = cs[j] /\ j \in 1..Len(cs)
      BY <1>3, <1>4, <1>12, <2>1, <2>2
    <3>2. j \in 1..Len(ks2) /\ ks2[j] = ks[j] /\ j <= Len(ks)
      BY <1>3, <1>4, <1>11, <2>1, <2>2
    <3>3. j > 1 => ks2[j - 1] = ks[j - 1]
      BY <1>3, <1>4, <1>11, <2>1, <2>2
    <3> QED  BY <1>8, <1>15, <3>1, <3>2, <3>3
  <2>3. CASE j = i
    <3>1. cs2[j] = left /\ j \in 1..Len(cs) /\ cs[j] = left
      <4>1. j \in 1..Len(cs) /\ cs[j] = left
        BY <1>3, <2>3
      <4>2. j <= i
        BY <2>1, <2>3
      <4>3. cs2[j] = cs[j]
        BY <1>12, <4>2
      <4> QED  BY <4>1, <4>3
    <3>2. j \in 1..Len(ks2) /\ ks2[j] = s
      BY <1>3, <1>4, <1>11, <2>1, <2>3
    <3>3. j > 1 => ks2[j - 1] = ks[j - 1]
      BY <1>3, <1>4, <1>11, <2>1, <2>3
    <3> QED  BY <1>6, <1>8, <1>15, <3>1, <3>2, <3>3
  <2>4. CASE j = i + 1
    <3>1. cs2[j] = right
      BY <1>3, <1>4, <1>12, <2>1, <2>4
    <3>2. ks2[j - 1] = s
      BY <1>3, <1>4, <1>11, <2>1, <2>4
    <3>3. j <= Len(ks2) => ks2[j] = ks[i] /\ i <= Len(ks)
      BY <1>3, <1>4, <1>11, <2>1, <2>4
    <3> QED  BY <1>6, <1>7, <1>15, <3>1, <3>2, <3>3
  <2>5. CASE j > i + 1
    <3>1. cs2[j] = cs[j - 1] /\ j - 1 \in 1..Len(cs) /\ j - 1 > 1
      BY <1>3, <1>4, <1>12, <2>1, <2>5
    <3>2. ks2[j - 1] = ks[(j - 1) - 1]
      BY <1>3, <1>4, <1>11, <2>1, <2>5
    <3>3. j <= Len(ks2) => ks2[j] = ks[j - 1] /\ j - 1 <= Len(ks)
      BY <1>3, <1>4, <1>11, <2>1, <2>5
    <3> QED  BY <1>8, <1>15, <3>1, <3>2, <3>3
  <2> QED  BY <2>1, <2>2, <2>3, <2>4, <2>5
<1>16. \A c \in Allocated : node[c].parent = p =>
         \A m \in Allocated : \A j \in 1..Len(node[m].kids) : node[m].kids[j] = c => m = p
  BY <1>5 DEF KidsInv
<1>17. Grown(p, ks2, cs2, height, below)
  BY <1>4, <1>11, <1>12, <1>13, <1>14, <1>15, <1>16 DEF Grown
<1>18. ParentKeys = ks2 /\ ParentKids = cs2
  BY <1>1, <1>2, <1>10 DEF ParentKeys, ParentKids
<1> QED  BY <1>1, <1>2, <1>11, <1>17, <1>18

LEMMA InsertIntoInternalKeepsTree ==
  ASSUME BPTreeInv, InsertIntoInternal
  PROVE  NodesOK' /\ TreeOK'
<1>1. step = "parent" /\ NodesOK /\ TreeOK /\ Parent # NULL
  BY DEF BPTreeInv, InsertIntoInternal
<1>2. PICK top, height, below : TreeInv(top, height, below)
  BY <1>1 DEF TreeOK
<1>3. PICK left, right, p, ks, cs :
        left = split.left /\ right = split.right /\ p = Parent
        /\ ks = ParentKeys /\ cs = ParentKids
  OBVIOUS
<1>4. /\ top \in Nat /\ height \in [Node -> 0..top] /\ below \in [Node -> SUBSET Key]
      /\ root \in Allocated /\ node[root].parent = NULL
      /\ KidsInv(height) /\ KeysInv(below)
  BY <1>1, <1>2 DEF TreeInv
<1>5. Grown(p, ks, cs, height, below) /\ Len(ks) = Len(node[p].keys) + 1
  BY <1>1, <1>2, <1>3, ParentGrown
<1>6. p \in Allocated /\ ~node[p].leaf
  BY <1>1, <1>2, <1>3, LeftPlace
<1>7. /\ left \in Allocated /\ right \in Allocated
      /\ height[left] = height[right] /\ node[right].parent = p /\ node[left].parent = p
  BY <1>1, <1>2, <1>3 DEF TreeInv, SplitInv, Parent
<1>8. right # p
  <2>1. height[p] = height[left] + 1
    <3>1. LeftIndex \in 1..Len(node[p].kids) /\ node[p].kids[LeftIndex] = left
      BY <1>1, <1>2, <1>3, LeftPlace
    <3> QED  BY <1>4, <1>6, <3>1 DEF KidsInv
  <2>2. height[right] \in Nat
    BY <1>4, <1>7 DEF Allocated
  <2> QED  BY <1>7, <2>1, <2>2
<1>9. /\ ~Full(p)
      /\ node' = [node EXCEPT ![p].keys = ks, ![p].kids = cs, ![right].parent = p]
  BY <1>3 DEF InsertIntoInternal
<1>10. PICK r : r = [node[p] EXCEPT !.keys = ks, !.kids = cs]
  OBVIOUS
<1>11. /\ p \in Node /\ right \in Node /\ NodeOK(node[p]) /\ NodeOK(node[right])
       /\ Len(node[p].keys) \in Nat
  BY <1>1, <1>6, <1>7, OnlyNodes, NodeFields
<1>12. /\ r.leaf = node[p].leaf /\ r.keys = ks /\ r.kids = cs /\ r.parent = node[p].parent
       /\ NodeOK(r) /\ r # NULL
  <2>1. Len(ks) <= MaxKeys
    BY <1>5, <1>9, <1>11, BPTreeAssumption DEF Full, NodeOK
  <2>2. ks \in Seq(Key) /\ cs \in Seq(Node) /\ Len(cs) = Len(ks) + 1
    BY <1>5 DEF Grown
  <2>3. /\ r.leaf = node[p].leaf /\ r.keys = ks /\ r.kids = cs /\ r.parent = node[p].parent
        /\ r \in TreeNode
    BY <1>10, <1>11, <2>2 DEF NodeOK, TreeNode
  <2>4. NodeOK(r)
    BY <1>6, <2>1, <2>2, <2>3 DEF NodeOK
  <2> QED  BY <1>1, <2>3, <2>4, OnlyNodes
<1>13. /\ node' = [m \in Node |-> node'[m]]
       /\ node'[p] = r
       /\ node'[right] = [node[right] EXCEPT !.parent = p]
       /\ \A m \in Node : m # p /\ m # right => node'[m] = node[m]
  BY <1>1, <1>8, <1>9, <1>10, <1>11 DEF NodesOK
<1>14. node'[right] = node[right]
  <2>1. node[right] \in TreeNode
    BY <1>11 DEF NodeOK
  <2> QED  BY <1>7, <1>13, <2>1 DEF TreeNode
<1>15. \A m \in Node : m # p => node'[m] = node[m]
  BY <1>13, <1>14
<1>16. Allocated' = Allocated
  BY <1>6, <1>12, <1>13, <1>15 DEF Allocated
<1>17. NodesOK'
  BY <1>1, <1>12, <1>13, <1>15 DEF NodesOK
<1>18. \A m \in Allocated : /\ m \in Node /\ node'[m].leaf = node[m].leaf
                            /\ node'[m].parent = node[m].parent
                            /\ m # p => node'[m] = node[m]
  BY <1>12, <1>13, <1>15 DEF Allocated
<1>19. KidsInv(height)'
  <2> SUFFICES ASSUME NEW m \in Allocated' PROVE
        /\ node'[m].leaf => node'[m].kids = <<>> /\ height[m] = 0
        /\ \A i \in 1..Len(node'[m].kids) :
             /\ node'[m].kids[i] \in Allocated'
             /\ height[m] = height[node'[m].kids[i]] + 1
             /\ node'[node'[m].kids[i]].parent = m
             /\ \A j \in 1..Len(node'[m].kids) : node'[m].kids[j] = node'[m].kids[i] => j = i
    BY DEF KidsInv
  <2>1. CASE m = p
    <3>1. ~node'[m].leaf /\ node'[m].kids = cs
      BY <1>6, <1>12, <1>13, <2>1
    <3>2. \A i \in 1..Len(cs) :
            /\ cs[i] \in Allocated /\ height[p] = height[cs[i]] + 1 /\ node[cs[i]].parent = p
            /\ \A j \in 1..Len(cs) : cs[j] = cs[i] => j = i
      BY <1>5 DEF Grown
    <3> QED  BY <1>16, <1>18, <2>1, <3>1, <3>2
  <2>2. CASE m # p
    <3>1. m \in Allocated /\ node'[m] = node[m]
      BY <1>16, <1>18, <2>2
    <3>2. /\ node[m].leaf => node[m].kids = <<>> /\ height[m] = 0
          /\ \A i \in 1..Len(node[m].kids) :
               /\ node[m].kids[i] \in Allocated
               /\ height[m] = height[node[m].kids[i]] + 1
               /\ node[node[m].kids[i]].parent = m
               /\ \A j \in 1..Len(node[m].kids) : node[m].kids[j] = node[m].kids[i] => j = i
      BY <1>4, <3>1 DEF KidsInv
    <3>3. \A i \in 1..Len(node[m].kids) : node'[node[m].kids[i]].parent = m
      BY <1>18, <3>2
    <3> QED  BY <1>16, <3>1, <3>2, <3>3
  <2> QED  BY <2>1, <2>2
<1>20. KeysInv(below)'
  <2> SUFFICES ASSUME NEW m \in Allocated' PROVE
        /\ \A j \in 1..Len(node'[m].keys) : node'[m].keys[j] \in below[m]
        /\ Ascending(node'[m].keys)
        /\ \A i \in 1..Len(node'[m].kids) : \A x \in below[node'[m].kids[i]] :
             /\ x \in below[m]
             /\ i > 1 => node'[m].keys[i - 1] <= x
             /\ i <= Len(node'[m].keys) => x < node'[m].keys[i]
    BY DEF KeysInv
  <2>1. CASE m = p
    BY <1>5, <1>12, <1>13, <2>1 DEF Grown
  <2>2. CASE m # p
    BY <1>4, <1>16, <1>18, <2>2 DEF KeysInv
  <2> QED  BY <2>1, <2>2
<1>21. step' = "ready" /\ root' = root
  BY DEF InsertIntoInternal, Accept, Return
<1>22. TreeInv(top, height, below)'
  BY <1>4, <1>16, <1>18, <1>19, <1>20, <1>21 DEF TreeInv, SplitInv
<1> QED  BY <1>17, <1>22 DEF TreeOK

LEMMA SplitInternalKeepsTree ==
  ASSUME BPTreeInv, SplitInternal
  PROVE  NodesOK' /\ TreeOK' /\ split' \in [left : Node, key : Key, right : Node]
<1>1. step = "parent" /\ NodesOK /\ TreeOK /\ Parent # NULL
  BY DEF BPTreeInv, SplitInternal
<1>2. PICK top, height, below : TreeInv(top, height, below)
  BY <1>1 DEF TreeOK
<1>3. PICK p, ks, cs, h, s :
        p = Parent /\ ks = ParentKeys /\ cs = ParentKids /\ h = Half(ks) /\ s = ks[h + 1]
  OBVIOUS
<1>4. /\ top \in Nat /\ height \in [Node -> 0..top] /\ below \in [Node -> SUBSET Key]
      /\ root \in Allocated /\ node[root].parent = NULL /\ root # NULL
      /\ KidsInv(height) /\ KeysInv(below) /\ inserting \in Key
  BY <1>1, <1>2 DEF TreeInv, SplitInv
<1>5. Grown(p, ks, cs, height, below) /\ Len(ks) = Len(node[p].keys) + 1
  BY <1>1, <1>2, <1>3, ParentGrown
<1>6. p \in Allocated /\ ~node[p].leaf /\ Full(p)
  BY <1>1, <1>2, <1>3, LeftPlace DEF SplitInternal
<1>7. /\ p \in Node /\ NodeOK(node[p]) /\ node[p].parent \in Node \cup {NULL} /\ p # NULL
  BY <1>1, <1>6, OnlyNodes, NodeFields
<1>8. Len(ks) = MaxKeys + 1
  BY <1>5, <1>6 DEF Full
<1>9. /\ ks \in Seq(Key) /\ cs \in Seq(Node) /\ Len(cs) = Len(ks) + 1 /\ Ascending(ks)
      /\ \A j \in 1..Len(ks) : ks[j] \in below[p]
      /\ \A i \in 1..Len(cs) :
           /\ cs[i] \in Allocated
           /\ height[p] = height[cs[i]] + 1
           /\ node[cs[i]].parent = p
           /\ \A j \in 1..Len(cs) : cs[j] = cs[i] => j = i
           /\ \A x \in below[cs[i]] :
                /\ x \in below[p]
                /\ i > 1 => ks[i - 1] <= x
                /\ i <= Len(ks) => x < ks[i]
  BY <1>5 DEF Grown
<1>10. /\ h \in Nat /\ 1 <= h /\ h + 1 <= Len(ks) /\ h <= MaxKeys
       /\ Len(ks) - h <= MaxKeys
       /\ s \in Key /\ s \in Nat /\ ks[1] < s
       /\ \A j \in 1..h : ks[j] < s
       /\ \A j \in (h + 1)..Len(ks) : s <= ks[j]
       /\ Len(ks) \in Nat /\ \A j \in 1..Len(ks) : ks[j] \in Nat
  <2>1. h = Half(ks) /\ s = ks[h + 1]
    BY <1>3
  <2>2. /\ h \in Nat /\ 1 <= h /\ h + 1 <= Len(ks) /\ h <= MaxKeys
        /\ Len(ks) - h <= MaxKeys
        /\ ks[h + 1] \in Key /\ ks[1] < ks[h + 1]
        /\ \A j \in 1..h : ks[j] < ks[h + 1]
        /\ \A j \in (h + 1)..Len(ks) : ks[h + 1] <= ks[j]
        /\ Len(ks) \in Nat /\ \A j \in 1..Len(ks) : ks[j] \in Nat
    BY <1>8, <1>9, <2>1, Halves
  <2>3. h + 1 \in 1..Len(ks)
    BY <2>2
  <2> QED  BY <2>1, <2>2, <2>3
<1>11. PICK lk, lc, rk, rc :
         /\ lk = SubSeq(ks, 1, h) /\ lc = SubSeq(cs, 1, h + 1)
         /\ rk = SubSeq(ks, h + 2, Len(ks)) /\ rc = SubSeq(cs, h + 2, Len(cs))
  OBVIOUS
<1>12. /\ lk \in Seq(Key) /\ Len(lk) = h /\ \A j \in 1..h : lk[j] = ks[j]
       /\ lc \in Seq(Node) /\ Len(lc) = h + 1 /\ \A j \in 1..(h + 1) : lc[j] = cs[j]
  <2>1. h \in 0..Len(ks) /\ h + 1 \in 0..Len(cs)
    BY <1>9, <1>10
  <2>2. lk \in Seq(Key) /\ Len(lk) = h /\ \A j \in 1..h : lk[j] = ks[j]
    BY <1>9, <1>11, <2>1, FrontPart
  <2>3. lc \in Seq(Node) /\ Len(lc) = h + 1 /\ \A j \in 1..(h + 1) : lc[j] = cs[j]
    <3>1. PICK a : a = h + 1
      OBVIOUS
    <3>2. /\ SubSeq(cs, 1, a) \in Seq(Node) /\ Len(SubSeq(cs, 1, a)) = a
          /\ \A j \in 1..a : SubSeq(cs, 1, a)[j] = cs[j]
      BY <1>9, <2>1, <3>1, FrontPart
    <3> QED  BY <1>11, <3>1, <3>2
  <2> QED  BY <2>2, <2>3
<1>13. /\ rk \in Seq(Key) /\ Len(rk) = Len(ks) - h - 1
       /\ \A j \in 1..(Len(ks) - h - 1) : rk[j] = ks[h + 1 + j]
       /\ rc \in Seq(Node) /\ Len(rc) = Len(ks) - h
       /\ \A j \in 1..(Len(ks) - h) : rc[j] = cs[h + 1 + j]
  <2>1. PICK a : a = h + 2
    OBVIOUS
  <2>2. a \in 1..(Len(ks) + 1) /\ a \in 1..(Len(cs) + 1)
    BY <1>9, <1>10, <2>1
  <2>3. /\ SubSeq(ks, a, Len(ks)) \in Seq(Key) /\ Len(SubSeq(ks, a, Len(ks))) = Len(ks) - a + 1
        /\ \A j \in 1..(Len(ks) - a + 1) : SubSeq(ks, a, Len(ks))[j] = ks[a + j - 1]
    BY <1>9, <2>2, BackPart
  <2>4. /\ SubSeq(cs, a, Len(cs)) \in Seq(Node) /\ Len(SubSeq(cs, a, Len(cs))) = Len(cs) - a + 1
        /\ \A j \in 1..(Len(cs) - a + 1) : SubSeq(cs, a, Len(cs))[j] = cs[a + j - 1]
    BY <1>9, <2>2, BackPart
  <2>5. /\ Len(ks) - a + 1 = Len(ks) - h - 1 /\ Len(cs) - a + 1 = Len(ks) - h
        /\ \A j \in Nat : a + j - 1 = h + 1 + j
    BY <1>9, <1>10, <2>1
  <2>6. rk \in Seq(Key) /\ Len(rk) = Len(ks) - h - 1 /\ rc \in Seq(Node) /\ Len(rc) = Len(ks) - h
    BY <1>11, <2>1, <2>3, <2>4, <2>5
  <2>7. ASSUME NEW j \in 1..(Len(ks) - h - 1) PROVE rk[j] = ks[h + 1 + j]
    <3>1. rk[j] = ks[a + j - 1]
      BY <1>11, <2>1, <2>3, <2>5
    <3>2. a + j - 1 = h + 1 + j
      BY <1>10, <2>1
    <3> QED  BY <3>1, <3>2
  <2>8. ASSUME NEW j \in 1..(Len(ks) - h) PROVE rc[j] = cs[h + 1 + j]
    <3>1. rc[j] = cs[a + j - 1]
      BY <1>11, <2>1, <2>4, <2>5
    <3>2. a + j - 1 = h + 1 + j
      BY <1>10, <2>1
    <3> QED  BY <3>1, <3>2
  <2> QED  BY <2>6, <2>7, <2>8
<1>14. PICK l, r : /\ l = Internal(lk, lc, node[p].parent)
                   /\ r = Internal(rk, rc, node[p].parent)
  OBVIOUS
<1>15. /\ NodeOK(l) /\ l # NULL /\ l.leaf = FALSE /\ l.keys = lk /\ l.kids = lc
       /\ l.parent = node[p].parent
  <2>1. Len(lc) = Len(lk) + 1 /\ Len(lk) <= MaxKeys
    BY <1>10, <1>12
  <2>2. NodeOK(l)
    BY <1>7, <1>12, <1>14, <2>1, InternalOK
  <2> QED  BY <1>1, <1>14, <2>2, OnlyNodes DEF Internal
<1>16. /\ NodeOK(r) /\ r # NULL /\ r.leaf = FALSE /\ r.keys = rk /\ r.kids = rc
       /\ r.parent = node[p].parent
  <2>1. Len(rc) = Len(rk) + 1 /\ Len(rk) <= MaxKeys
    BY <1>10, <1>13, BPTreeAssumption
  <2>2. NodeOK(r)
    BY <1>7, <1>13, <1>14, <2>1, InternalOK
  <2> QED  BY <1>1, <1>14, <2>2, OnlyNodes DEF Internal
<1>17. PICK new \in Node :
         /\ Fresh(new)
         /\ node' = Adopt(Adopt(
              [node EXCEPT ![p] = Internal(lk, lc, @.parent), ![new] = r], lc, p), rc, new)
         /\ split' = [left |-> p, key |-> s, right |-> new]
  BY <1>3, <1>11, <1>14 DEF SplitInternal
<1>18. new \notin Allocated /\ new # p
  BY <1>6, <1>17 DEF Fresh, Allocated
<1>19. /\ ToSet(lc) = { cs[i] : i \in 1..(h + 1) }
       /\ ToSet(rc) = { cs[i] : i \in (h + 2)..Len(cs) }
  <2>1. ToSet(lc) = { cs[i] : i \in 1..(h + 1) }
    BY <1>12 DEF ToSet
  <2>2. ToSet(rc) = { rc[j] : j \in 1..(Len(ks) - h) }
    BY <1>13 DEF ToSet
  <2>3. ASSUME NEW j \in 1..(Len(ks) - h) PROVE rc[j] \in { cs[i] : i \in (h + 2)..Len(cs) }
    <3>1. rc[j] = cs[h + 1 + j]
      BY <1>13
    <3>2. h + 1 + j \in (h + 2)..Len(cs)
      <4>1. Len(cs) = Len(ks) + 1 /\ Len(ks) \in Nat /\ h \in Nat
        BY <1>9, <1>10
      <4> QED  BY <4>1
    <3> QED  BY <3>1, <3>2
  <2>4. ASSUME NEW i \in (h + 2)..Len(cs) PROVE cs[i] \in { rc[j] : j \in 1..(Len(ks) - h) }
    <3>1. i - h - 1 \in 1..(Len(ks) - h) /\ h + 1 + (i - h - 1) = i
      BY <1>9, <1>10
    <3>2. rc[i - h - 1] = cs[i]
      BY <1>13, <3>1
    <3> QED  BY <3>1, <3>2
  <2> QED  BY <2>1, <2>2, <2>3, <2>4
<1> DEFINE moved == ToSet(rc)
           node1 == [node EXCEPT ![p] = l, ![new] = r]
           node2 == Adopt(node1, lc, p)
\* What becomes of the nodes.
<1>20. /\ node1 = [m \in Node |-> IF m = new THEN r ELSE IF m = p THEN l ELSE node[m]]
       /\ node' = Adopt(node2, rc, new)
  BY <1>1, <1>7, <1>14, <1>17, <1>18 DEF NodesOK
<1>21. /\ ToSet(lc) \subseteq Allocated /\ moved \subseteq Allocated
       /\ p \notin ToSet(lc) /\ p \notin moved
       /\ ToSet(lc) \cap moved = {}
       /\ \A c \in ToSet(lc) \cup moved : node[c].parent = p /\ height[p] = height[c] + 1
  <2>1. 1..(h + 1) \subseteq 1..Len(cs) /\ (h + 2)..Len(cs) \subseteq 1..Len(cs)
    BY <1>9, <1>10
  <2>2. \A i \in 1..Len(cs) : cs[i] # p
    <3>1. height[p] \in Nat
      BY <1>4, <1>7
    <3> QED  BY <1>9, <3>1
  <2>3. ASSUME NEW c \in ToSet(lc) \cup moved
        PROVE  c \in Allocated /\ c # p /\ node[c].parent = p /\ height[p] = height[c] + 1
    <3>1. PICK i \in 1..Len(cs) : c = cs[i]
      BY <1>19, <2>1
    <3> QED  BY <1>9, <2>2, <3>1
  <2>4. ASSUME NEW c \in ToSet(lc), c \in moved PROVE FALSE
    <3>1. PICK i \in 1..(h + 1) : c = cs[i]
      BY <1>19
    <3>2. PICK j \in (h + 2)..Len(cs) : c = cs[j]
      BY <1>19, <2>4
    <3>3. i # j
      BY <1>10
    <3>4. i \in 1..Len(cs) /\ j \in 1..Len(cs) /\ cs[i] = cs[j]
      BY <2>1, <3>1, <3>2
    <3> QED  BY <1>9, <3>3, <3>4
  <2> QED  BY <2>3, <2>4
<1>22. /\ node' = [m \in Node |-> node'[m]]
       /\ node'[p] = l /\ node'[new] = r
       /\ \A m \in Node : m # p /\ m # new =>
            node'[m] = IF m \in moved THEN [(IF m \in ToSet(lc) THEN [node[m] EXCEPT !.parent = p]
                                             ELSE node[m]) EXCEPT !.parent = new]
                       ELSE IF m \in ToSet(lc) THEN [node[m] EXCEPT !.parent = p] ELSE node[m]
  <2> HIDE DEF node1, moved
  <2>1. \A m \in Node : node2[m] = IF m \in ToSet(lc) THEN [node1[m] EXCEPT !.parent = p] ELSE node1[m]
    BY DEF Adopt
  <2>2. \A m \in Node : node'[m] = IF m \in moved THEN [node2[m] EXCEPT !.parent = new] ELSE node2[m]
    BY <1>20 DEF Adopt, moved
  <2>3. node' = [m \in Node |-> node'[m]]
    BY <1>20 DEF Adopt
  <2> HIDE DEF node2
  <2>4. \A m \in Node : node1[m] = IF m = new THEN r ELSE IF m = p THEN l ELSE node[m]
    BY <1>20
  <2>5. p \notin moved /\ p \notin ToSet(lc) /\ new \notin moved /\ new \notin ToSet(lc)
    BY <1>18, <1>21 DEF moved
  <2> QED  BY <1>7, <1>18, <2>1, <2>2, <2>3, <2>4, <2>5
<1> HIDE DEF node1, node2, moved
<1>23. \A m \in Allocated :
         /\ m \in Node /\ m # new /\ NodeOK(node'[m]) /\ node'[m] # NULL
         /\ node'[m].leaf = node[m].leaf
         /\ node'[m].parent = IF m \in moved THEN new ELSE node[m].parent
         /\ m # p => node'[m].keys = node[m].keys /\ node'[m].kids = node[m].kids
  <2> SUFFICES ASSUME NEW m \in Allocated PROVE
         /\ m \in Node /\ m # new /\ NodeOK(node'[m]) /\ node'[m] # NULL
         /\ node'[m].leaf = node[m].leaf
         /\ node'[m].parent = IF m \in moved THEN new ELSE node[m].parent
         /\ m # p => node'[m].keys = node[m].keys /\ node'[m].kids = node[m].kids
    OBVIOUS
  <2>1. m \in Node /\ m # new /\ NodeOK(node[m]) /\ node[m].leaf \in BOOLEAN
    BY <1>1, <1>18, OnlyNodes, NodeFields
  <2>2. CASE m = p
    BY <1>6, <1>15, <1>21, <1>22, <2>1, <2>2
  <2>3. CASE m # p
    <3>1. PICK a, b : a = node[m] /\ b = [a EXCEPT !.parent = p]
      OBVIOUS
    <3>2. /\ NodeOK(b) /\ b.parent = p /\ b.leaf = a.leaf /\ b.keys = a.keys /\ b.kids = a.kids
      BY <1>7, <2>1, <3>1, AdoptedOK
    <3>3. ASSUME NEW q, NodeOK(q)
          PROVE  /\ NodeOK([q EXCEPT !.parent = new])
                 /\ [q EXCEPT !.parent = new].parent = new
                 /\ [q EXCEPT !.parent = new].leaf = q.leaf
                 /\ [q EXCEPT !.parent = new].keys = q.keys
                 /\ [q EXCEPT !.parent = new].kids = q.kids
      BY <3>3, AdoptedOK
    <3>4. node'[m] = IF m \in moved THEN [(IF m \in ToSet(lc) THEN b ELSE a) EXCEPT !.parent = new]
                     ELSE IF m \in ToSet(lc) THEN b ELSE a
      BY <1>22, <2>1, <2>3, <3>1
    <3>5. PICK q : q = IF m \in ToSet(lc) THEN b ELSE a
      OBVIOUS
    <3>6. /\ NodeOK(q) /\ q.leaf = a.leaf /\ q.keys = a.keys /\ q.kids = a.kids
          /\ q.parent = a.parent
      <4>1. m \in ToSet(lc) => a.parent = p
        BY <1>21, <3>1
      <4> QED  BY <2>1, <3>1, <3>2, <3>5, <4>1
    <3>7. node'[m] = IF m \in moved THEN [q EXCEPT !.parent = new] ELSE q
      BY <3>4, <3>5
    <3>8. CASE m \in moved
      <4>1. node'[m] = [q EXCEPT !.parent = new]
        BY <3>7, <3>8
      <4>2. /\ NodeOK(node'[m]) /\ node'[m].parent = new /\ node'[m].leaf = q.leaf
            /\ node'[m].keys = q.keys /\ node'[m].kids = q.kids
        BY <3>3, <3>6, <4>1
      <4> QED  BY <1>1, <2>1, <3>1, <3>6, <3>8, <4>2, OnlyNodes
    <3>9. CASE m \notin moved
      <4>1. node'[m] = q
        BY <3>7, <3>9
      <4> QED  BY <1>1, <2>1, <3>1, <3>6, <3>9, <4>1, OnlyNodes
    <3> QED  BY <3>8, <3>9
  <2> QED  BY <2>2, <2>3
<1>24. Allocated' = Allocated \cup {new}
  <2>1. \A m \in Node : m \notin Allocated /\ m # new => node'[m] = NULL
    BY <1>6, <1>21, <1>22 DEF Allocated
  <2> QED  BY <1>16, <1>22, <1>23, <2>1 DEF Allocated
<1>25. NodesOK'
  <2>1. \A m \in Node : node'[m] = NULL \/ NodeOK(node'[m])
    BY <1>16, <1>22, <1>23, <1>24 DEF Allocated
  <2> QED  BY <1>22, <2>1 DEF NodesOK
<1>26. split' \in [left : Node, key : Key, right : Node]
  BY <1>7, <1>10, <1>17
<1> DEFINE h2 == [height EXCEPT ![new] = height[p]]
           b2 == [m \in Node |-> IF m = p THEN { x \in below[p] : x < s }
                                 ELSE IF m = new THEN { x \in below[p] : s <= x } ELSE below[m]]
<1>27. /\ h2 \in [Node -> 0..top] /\ h2[new] = height[p]
       /\ \A m \in Node : m # new => h2[m] = height[m]
  BY <1>4, <1>7
<1>28. /\ b2 \in [Node -> SUBSET Key]
       /\ b2[p] = { x \in below[p] : x < s } /\ b2[new] = { x \in below[p] : s <= x }
       /\ \A m \in Node : m # p /\ m # new => b2[m] = below[m]
       /\ \A m \in Node : m # new => b2[m] \subseteq below[m]
  BY <1>4, <1>7, <1>18
<1> HIDE DEF h2, b2
\* Every node but the two halves keeps its children, its place and its keys.
<1>29. \A i \in 1..Len(cs) :
         /\ cs[i] \in Allocated /\ cs[i] \in Node /\ cs[i] # p /\ cs[i] # new
         /\ h2[cs[i]] = height[cs[i]] /\ b2[cs[i]] = below[cs[i]]
         /\ cs[i] \in moved <=> i > h + 1
  <2> SUFFICES ASSUME NEW i \in 1..Len(cs)
               PROVE  /\ cs[i] \in Allocated /\ cs[i] \in Node /\ cs[i] # p /\ cs[i] # new
                      /\ h2[cs[i]] = height[cs[i]] /\ b2[cs[i]] = below[cs[i]]
                      /\ cs[i] \in moved <=> i > h + 1
    OBVIOUS
  <2>1. cs[i] \in Allocated /\ cs[i] \in Node /\ cs[i] # new
    BY <1>9, <1>18 DEF Allocated
  <2>2. i \in 1..(h + 1) \/ i \in (h + 2)..Len(cs)
    BY <1>9, <1>10
  <2>3. i \in 1..(h + 1) => cs[i] \in ToSet(lc)
    BY <1>19
  <2>4. i \in (h + 2)..Len(cs) => cs[i] \in moved
    BY <1>19 DEF moved
  <2>5. cs[i] # p
    BY <1>21, <2>2, <2>3, <2>4
  <2>6. cs[i] \in moved <=> i > h + 1
    <3>1. i \in 1..(h + 1) => ~(i > h + 1)
      BY <1>10
    <3>2. i \in (h + 2)..Len(cs) => i > h + 1
      BY <1>10
    <3> QED  BY <1>21, <2>2, <2>3, <2>4, <3>1, <3>2
  <2> QED  BY <1>27, <1>28, <2>1, <2>5, <2>6
<1>30. KidsInv(h2)'
  <2> SUFFICES ASSUME NEW m \in Allocated' PROVE
        /\ node'[m].leaf => node'[m].kids = <<>> /\ h2[m] = 0
        /\ \A i \in 1..Len(node'[m].kids) :
             /\ node'[m].kids[i] \in Allocated'
             /\ h2[m] = h2[node'[m].kids[i]] + 1
             /\ node'[node'[m].kids[i]].parent = m
             /\ \A j \in 1..Len(node'[m].kids) : node'[m].kids[j] = node'[m].kids[i] => j = i
    BY DEF KidsInv
  <2>1. CASE m = p
    <3>1. node'[m].leaf = FALSE /\ node'[m].kids = lc /\ h2[m] = height[p]
      BY <1>7, <1>15, <1>18, <1>22, <1>27, <2>1
    <3>2. ASSUME NEW i \in 1..Len(lc) PROVE i \in 1..Len(cs) /\ lc[i] = cs[i] /\ ~(i > h + 1)
      BY <1>9, <1>10, <1>12
    <3>3. ASSUME NEW i \in 1..Len(lc)
          PROVE  /\ lc[i] \in Allocated' /\ h2[m] = h2[lc[i]] + 1 /\ node'[lc[i]].parent = m
                 /\ \A j \in 1..Len(lc) : lc[j] = lc[i] => j = i
      BY <1>9, <1>23, <1>24, <1>29, <2>1, <3>1, <3>2
    <3> QED  BY <3>1, <3>3
  <2>2. CASE m = new
    <3>1. node'[m].leaf = FALSE /\ node'[m].kids = rc /\ h2[m] = height[p]
      BY <1>16, <1>22, <1>27, <2>2
    <3>2. ASSUME NEW i \in 1..Len(rc)
          PROVE  h + 1 + i \in 1..Len(cs) /\ rc[i] = cs[h + 1 + i] /\ h + 1 + i > h + 1
      <4>1. Len(cs) = Len(ks) + 1 /\ Len(ks) \in Nat /\ h \in Nat /\ Len(rc) = Len(ks) - h
        BY <1>9, <1>10, <1>13
      <4>2. h + 1 + i \in 1..Len(cs) /\ h + 1 + i > h + 1
        BY <4>1
      <4> QED  BY <1>13, <4>2
    <3>3. ASSUME NEW i \in 1..Len(rc)
          PROVE  /\ rc[i] \in Allocated' /\ h2[m] = h2[rc[i]] + 1 /\ node'[rc[i]].parent = m
      BY <1>9, <1>23, <1>24, <1>29, <2>2, <3>1, <3>2
    <3>4. ASSUME NEW i \in 1..Len(rc), NEW j \in 1..Len(rc), rc[j] = rc[i] PROVE j = i
      <4>1. h + 1 + j = h + 1 + i
        BY <1>9, <3>2, <3>4
      <4> QED  BY <1>10, <4>1
    <3> QED  BY <3>1, <3>3, <3>4
  <2>3. CASE m \in Allocated /\ m # p
    <3>1. /\ m \in Node /\ m # new /\ node'[m].leaf = node[m].leaf
          /\ node'[m].kids = node[m].kids /\ h2[m] = height[m]
      BY <1>23, <1>27, <2>3
    <3>2. /\ node[m].leaf => node[m].kids = <<>> /\ height[m] = 0
          /\ \A i \in 1..Len(node[m].kids) :
               /\ node[m].kids[i] \in Allocated
               /\ height[m] = height[node[m].kids[i]] + 1
               /\ node[node[m].kids[i]].parent = m
               /\ \A j \in 1..Len(node[m].kids) : node[m].kids[j] = node[m].kids[i] => j = i
      BY <1>4, <2>3 DEF KidsInv
    <3>3. \A i \in 1..Len(node[m].kids) :
            /\ node'[node[m].kids[i]].parent = m
            /\ h2[node[m].kids[i]] = height[node[m].kids[i]]
            /\ node[m].kids[i] \in Allocated'
      BY <1>21, <1>23, <1>24, <1>27, <2>3, <3>2
    <3> QED  BY <3>1, <3>2, <3>3
  <2> QED  BY <1>24, <2>1, <2>2, <2>3
<1>31. KeysInv(b2)'
  <2> SUFFICES ASSUME NEW m \in Allocated' PROVE
        /\ \A j \in 1..Len(node'[m].keys) : node'[m].keys[j] \in b2[m]
        /\ Ascending(node'[m].keys)
        /\ \A i \in 1..Len(node'[m].kids) : \A x \in b2[node'[m].kids[i]] :
             /\ x \in b2[m]
             /\ i > 1 => node'[m].keys[i - 1] <= x
             /\ i <= Len(node'[m].keys) => x < node'[m].keys[i]
    BY DEF KeysInv
  <2>0. below[p] \subseteq Nat
    BY <1>4, <1>7 DEF Key
  <2>1. CASE m = p
    <3>1. node'[m].keys = lk /\ node'[m].kids = lc
      BY <1>15, <1>22, <2>1
    <3>2. \A j \in 1..Len(lk) : j \in 1..Len(ks) /\ lk[j] = ks[j] /\ j \in 1..h
      BY <1>10, <1>12
    <3>3. \A j \in 1..Len(lk) : lk[j] \in b2[m]
      BY <1>9, <1>10, <1>28, <2>1, <3>2
    <3>4. Ascending(lk)
      BY <1>9, <3>2 DEF Ascending
    <3>5. ASSUME NEW i \in 1..Len(lc), NEW x \in b2[lc[i]]
          PROVE  /\ x \in b2[m]
                 /\ i > 1 => lk[i - 1] <= x
                 /\ i <= Len(lk) => x < lk[i]
      <4>1. i \in 1..Len(cs) /\ lc[i] = cs[i] /\ i \in 1..(h + 1) /\ i \in 1..Len(ks)
        BY <1>9, <1>10, <1>12
      <4>2. x \in below[p] /\ (i > 1 => ks[i - 1] <= x) /\ x < ks[i]
        <5>1. x \in below[cs[i]]
          BY <1>29, <3>5, <4>1
        <5>2. i <= Len(ks)
          BY <1>10, <4>1
        <5> QED  BY <1>9, <4>1, <5>1, <5>2
      <4>3. x < s
        <5>1. CASE i = h + 1
          <6>1. ks[i] = s
            BY <1>3, <5>1
          <6> QED  BY <4>2, <6>1
        <5>2. CASE i # h + 1
          <6>1. i \in 1..h
            BY <1>10, <4>1, <5>2
          <6>2. ks[i] < s /\ ks[i] \in Nat /\ x \in Nat /\ s \in Nat
            BY <1>10, <2>0, <4>1, <4>2, <6>1
          <6> QED  BY <4>2, <6>2
        <5> QED  BY <5>1, <5>2
      <4>4. i > 1 => lk[i - 1] = ks[i - 1]
        BY <1>10, <1>12, <4>1
      <4>5. i <= Len(lk) => lk[i] = ks[i]
        BY <1>10, <1>12, <4>1
      <4> QED  BY <1>28, <2>1, <4>2, <4>3, <4>4, <4>5
    <3> QED  BY <3>1, <3>3, <3>4, <3>5
  <2>2. CASE m = new
    <3>1. node'[m].keys = rk /\ node'[m].kids = rc
      BY <1>16, <1>22, <2>2
    <3>2. ASSUME NEW j \in 1..Len(rk)
          PROVE  /\ h + 1 + j \in 1..Len(ks) /\ rk[j] = ks[h + 1 + j]
                 /\ h + 1 + j \in (h + 1)..Len(ks)
      <4>1. Len(ks) \in Nat /\ h \in Nat /\ Len(rk) = Len(ks) - h - 1
        BY <1>10, <1>13
      <4>2. h + 1 + j \in 1..Len(ks) /\ h + 1 + j \in (h + 1)..Len(ks)
        BY <4>1
      <4> QED  BY <1>13, <4>2
    <3>3. ASSUME NEW j \in 1..Len(rk) PROVE rk[j] \in b2[m]
      <4>1. PICK i \in (h + 1)..Len(ks) : i \in 1..Len(ks) /\ rk[j] = ks[i]
        BY <3>2
      <4>2. ks[i] \in below[p] /\ s <= ks[i]
        BY <1>9, <1>10, <4>1
      <4> QED  BY <1>28, <2>2, <4>1, <4>2
    <3>4. Ascending(rk)
      <4> SUFFICES ASSUME NEW i \in 1..Len(rk), NEW j \in 1..Len(rk), i < j PROVE rk[i] < rk[j]
        BY DEF Ascending
      <4>1. h + 1 + i < h + 1 + j
        BY <1>10
      <4> QED  BY <1>9, <3>2, <4>1 DEF Ascending
    <3>5. ASSUME NEW i \in 1..Len(rc), NEW x \in b2[rc[i]]
          PROVE  /\ x \in b2[m]
                 /\ i > 1 => rk[i - 1] <= x
                 /\ i <= Len(rk) => x < rk[i]
      <4>0. Len(cs) = Len(ks) + 1 /\ Len(ks) \in Nat /\ h \in Nat /\ Len(rc) = Len(ks) - h
            /\ Len(rk) = Len(ks) - h - 1
        BY <1>9, <1>10, <1>13
      <4> DEFINE j == h + 1 + i
      <4>1. j \in 1..Len(cs) /\ j > 1 /\ j - 1 \in (h + 1)..Len(ks) /\ j - 1 \in 1..Len(ks)
        BY <4>0
      <4>2. rc[i] = cs[j]
        BY <1>13, <4>0
      <4>3. (i > 1 => rk[i - 1] = ks[j - 1]) /\ (i <= Len(rk) => rk[i] = ks[j] /\ j <= Len(ks))
        <5>1. ASSUME i > 1 PROVE rk[i - 1] = ks[j - 1]
          <6>1. i - 1 \in 1..Len(rk) /\ h + 1 + (i - 1) = j - 1
            BY <4>0, <5>1
          <6> QED  BY <3>2, <6>1
        <5>2. ASSUME i <= Len(rk) PROVE rk[i] = ks[j] /\ j <= Len(ks)
          <6>1. i \in 1..Len(rk) /\ j <= Len(ks)
            BY <4>0, <5>2
          <6> QED  BY <3>2, <6>1
        <5> QED  BY <5>1, <5>2
      <4> HIDE DEF j
      <4>4. x \in below[p] /\ ks[j - 1] <= x /\ (j <= Len(ks) => x < ks[j])
        <5>1. x \in below[cs[j]]
          BY <1>29, <3>5, <4>1, <4>2
        <5> QED  BY <1>9, <4>1, <5>1
      <4>5. s <= x
        <5>1. s <= ks[j - 1] /\ ks[j - 1] \in Nat /\ x \in Nat /\ s \in Nat
          BY <1>10, <2>0, <4>1, <4>4
        <5> QED  BY <4>4, <5>1
      <4> QED  BY <1>28, <2>2, <4>3, <4>4, <4>5
    <3> QED  BY <3>1, <3>3, <3>4, <3>5
  <2>3. CASE m \in Allocated /\ m # p
    <3>1. /\ m \in Node /\ m # new /\ node'[m].keys = node[m].keys
          /\ node'[m].kids = node[m].kids /\ b2[m] = below[m]
      BY <1>23, <1>28, <2>3
    <3>2. \A i \in 1..Len(node[m].kids) : b2[node[m].kids[i]] \subseteq below[node[m].kids[i]]
      <4>1. \A i \in 1..Len(node[m].kids) : node[m].kids[i] \in Allocated
        BY <1>4, <2>3 DEF KidsInv
      <4> QED  BY <1>23, <1>28, <4>1
    <3> QED  BY <1>4, <2>3, <3>1, <3>2 DEF KeysInv
  <2> QED  BY <1>24, <2>1, <2>2, <2>3
<1>32. step' = "parent" /\ root' = root /\ inserting' = inserting
  BY <1>1 DEF SplitInternal
<1>33. split'.left = p /\ split'.right = new /\ split'.key = s
  BY <1>17
<1>34. PICK U : p \in U /\ Attached(U)
  <2>1. PICK U : split.left \in U /\ Attached(U)
    BY <1>1, <1>2 DEF TreeInv, SplitInv
  <2>2. split.left # root
    BY <1>1, <1>4, <1>3, <1>7 DEF Parent
  <2> QED  BY <1>3, <2>1, <2>2 DEF Attached, Parent
<1> DEFINE q == node[p].parent
           V == { m \in U : height[m] >= height[p] }
<1>35. V \subseteq Allocated /\ p \in V /\ V \cap moved = {}
  <2>1. \A m \in Allocated : height[m] \in Nat
    BY <1>4 DEF Allocated
  <2> QED  BY <1>6, <1>21, <1>34, <2>1 DEF Attached
<1>36. ASSUME NEW m \in V, m # root
       PROVE  /\ node[m].parent \in V /\ node[m].parent \in Allocated /\ node[m].parent # p
              /\ \E i \in 1..Len(node[node[m].parent].kids) : node[node[m].parent].kids[i] = m
  <2>1. /\ node[m].parent \in U /\ node[m].parent \in Allocated
        /\ \E i \in 1..Len(node[node[m].parent].kids) : node[node[m].parent].kids[i] = m
    BY <1>34, <1>36 DEF Attached
  <2>2. height[node[m].parent] = height[m] + 1
    BY <1>4, <2>1 DEF KidsInv
  <2>3. height[m] \in Nat /\ height[p] \in Nat /\ height[m] >= height[p]
    BY <1>4, <1>7, <1>35 DEF Allocated
  <2> QED  BY <2>1, <2>2, <2>3
<1>37. Attached(V)'
  <2>1. \A m \in V : node'[m].parent = node[m].parent
    BY <1>23, <1>35
  <2>2. \A m \in V : m # root => node'[node[m].parent].kids = node[node[m].parent].kids
    BY <1>23, <1>36
  <2>3. \A m \in V : \/ m = root
                     \/ /\ node'[m].parent \in V
                        /\ \E i \in 1..Len(node'[node'[m].parent].kids) :
                             node'[node'[m].parent].kids[i] = m
    <3> HIDE DEF V
    <3> QED  BY <1>36, <2>1, <2>2
  <2>4. V \subseteq Allocated'
    <3> HIDE DEF V
    <3> QED  BY <1>24, <1>35
  <2> HIDE DEF V
  <2>5. \A m \in V : m = root => m = root'
    BY <1>32
  <2> QED  BY <2>3, <2>4, <2>5 DEF Attached
<1>38. ASSUME q # NULL
       PROVE  /\ s \in b2[q] /\ b2[new] \subseteq b2[q]
              /\ \A i \in 1..Len(node'[q].kids) : node'[q].kids[i] = p =>
                   /\ i > 1 => node'[q].keys[i - 1] < s
                   /\ i <= Len(node'[q].keys) =>
                        /\ s < node'[q].keys[i]
                        /\ \A x \in b2[new] : x < node'[q].keys[i]
  <2>1. p # root
    BY <1>4, <1>38
  <2>2. q \in Allocated /\ q # p /\ \E i \in 1..Len(node[q].kids) : node[q].kids[i] = p
    BY <1>35, <1>36, <2>1
  <2> HIDE DEF q, V
  <2>3. /\ node'[q].keys = node[q].keys /\ node'[q].kids = node[q].kids /\ b2[q] = below[q]
    BY <1>23, <1>28, <2>2
  <2>4. \A i \in 1..Len(node[q].kids) : node[q].kids[i] = p =>
          \A x \in below[p] : /\ x \in below[q]
                              /\ i > 1 => node[q].keys[i - 1] <= x
                              /\ i <= Len(node[q].keys) => x < node[q].keys[i]
    BY <1>4, <2>2 DEF KeysInv
  <2>5. s \in below[p] /\ ks[1] \in below[p] /\ b2[new] \subseteq below[p] /\ ks[1] \in Nat
    <3>1. 1 \in 1..Len(ks) /\ h + 1 \in 1..Len(ks)
      BY <1>10
    <3> QED  BY <1>3, <1>9, <1>10, <1>28, <3>1
  <2>6. s \in b2[q] /\ b2[new] \subseteq b2[q]
    BY <2>2, <2>3, <2>4, <2>5
  <2>7. ASSUME NEW i \in 1..Len(node[q].kids), node[q].kids[i] = p, i > 1
        PROVE  node[q].keys[i - 1] < s
    <3>1. node[q].keys[i - 1] <= ks[1]
      BY <2>4, <2>5, <2>7
    <3>2. i - 1 \in 1..Len(node[q].keys)
      <4>1. Len(node[q].kids) \in Nat /\ Len(node[q].kids) # 0 /\ Len(node[q].keys) \in Nat
        BY <1>1, <2>2, <2>7, NodeFields
      <4>2. ~node[q].leaf
        BY <1>4, <2>2, <4>1 DEF KidsInv
      <4> QED  BY <1>1, <2>2, <2>7, <4>1, <4>2, NodeFields
    <3>3. node[q].keys[i - 1] \in Nat
      <4>1. \A j \in 1..Len(node[q].keys) : node[q].keys[j] \in Key
        BY <1>1, <2>2, NodeFields
      <4> QED  BY <3>2, <4>1 DEF Key
    <3> QED  BY <1>10, <2>5, <3>1, <3>3
  <2> QED  BY <2>3, <2>4, <2>5, <2>6, <2>7
<1>39. SplitInv(h2, b2)'
  <2>1. /\ p \in Allocated' /\ new \in Allocated' /\ p # new /\ new # root /\ h2[p] = h2[new]
    BY <1>4, <1>6, <1>7, <1>18, <1>24, <1>27
  <2>2. node'[p].parent = q /\ node'[new].parent = q
    BY <1>15, <1>16, <1>22
  <2>3. \A m \in Allocated' : \A i \in 1..Len(node'[m].kids) : node'[m].kids[i] # new
    <3>1. \A m \in Allocated : \A i \in 1..Len(node[m].kids) : node[m].kids[i] # new
      BY <1>4, <1>18 DEF KidsInv
    <3>2. \A i \in 1..Len(node'[p].kids) : node'[p].kids[i] # new
      <4>1. node'[p].kids = lc /\ \A i \in 1..Len(lc) : i \in 1..Len(cs) /\ lc[i] = cs[i]
        BY <1>9, <1>10, <1>12, <1>15, <1>22
      <4> QED  BY <1>29, <4>1
    <3>3. \A i \in 1..Len(node'[new].kids) : node'[new].kids[i] # new
      <4>1. node'[new].kids = rc
        BY <1>16, <1>22
      <4>2. \A i \in 1..Len(rc) : rc[i] \in moved
        BY <1>13 DEF moved, ToSet
      <4> QED  BY <1>18, <1>21, <4>1, <4>2
    <3> QED  BY <1>23, <1>24, <3>1, <3>2, <3>3
  <2>4. (\A x \in b2[p] : x < s) /\ (\A x \in b2[new] : s <= x)
    BY <1>28
  <2>5. p \in V /\ Attached(V)'
    BY <1>35, <1>37
  <2> HIDE DEF q, V
  <2>6. SplitInv(h2, b2)' = (step' = "parent" =>
         /\ split' \in [left : Node, key : Key, right : Node] /\ inserting' \in Key
         /\ p \in Allocated' /\ new \in Allocated' /\ p # new /\ new # root'
         /\ h2[p] = h2[new]
         /\ node'[new].parent = q
         /\ \A m \in Allocated' : \A i \in 1..Len(node'[m].kids) : node'[m].kids[i] # new
         /\ \A x \in b2[p] : x < s
         /\ \A x \in b2[new] : s <= x
         /\ \E W : p \in W /\ Attached(W)'
         /\ q # NULL =>
              /\ s \in b2[q] /\ b2[new] \subseteq b2[q]
              /\ \A i \in 1..Len(node'[q].kids) : node'[q].kids[i] = p =>
                   /\ i > 1 => node'[q].keys[i - 1] < s
                   /\ i <= Len(node'[q].keys) =>
                        /\ s < node'[q].keys[i]
                        /\ \A x \in b2[new] : x < node'[q].keys[i])
    BY <1>33, <2>2 DEF SplitInv
  <2> QED  BY <1>4, <1>26, <1>32, <1>38, <2>1, <2>2, <2>3, <2>4, <2>5, <2>6
<1>40. root' # NULL /\ root' \in Allocated' /\ node'[root'].parent = NULL
  <2>1. root \notin moved
    BY <1>4, <1>7, <1>21
  <2> QED  BY <1>4, <1>23, <1>24, <1>32, <2>1
<1>41. TreeInv(top, h2, b2)'
  BY <1>4, <1>27, <1>28, <1>30, <1>31, <1>32, <1>39, <1>40 DEF TreeInv
<1> QED  BY <1>25, <1>26, <1>41 DEF TreeOK

-------------------------------------------------------------------------------
\* Every step keeps the invariant

LEMMA SameTree ==
  ASSUME NodesOK, TreeOK, UNCHANGED <<root, node>>, step' = "ready"
  PROVE  NodesOK' /\ TreeOK'
<1>1. PICK top, height, below : TreeInv(top, height, below)
  BY DEF TreeOK
<1>2. NodesOK'
  BY DEF NodesOK
<1>3. KidsInv(height)' /\ KeysInv(below)'
  <2>1. KidsInv(height) /\ KeysInv(below)
    BY <1>1 DEF TreeInv
  <2>2. KidsInv(height)'
    BY <2>1 DEF KidsInv, Allocated
  <2>3. KeysInv(below)'
    BY <2>1 DEF KeysInv, Allocated
  <2> QED  BY <2>2, <2>3
<1>4. TreeInv(top, height, below)'
  BY <1>1, <1>3 DEF TreeInv, SplitInv, Allocated
<1> QED  BY <1>2, <1>4 DEF TreeOK

\* A call that leaves a tree keeps the invariant.
LEMMA ReturnKeeps ==
  ASSUME BPTreeInv, Return, NodesOK', TreeOK',
         inserted' \subseteq Key, failures' \in 0..MaxFailures
  PROVE  BPTreeInv'
<1>1. found' \in [Key -> Nat \cup {NULL}]
  BY ReturnTyped
<1>2. step' = "ready" /\ split' = NULL /\ inserting' = NULL
  BY DEF Return
<1>3. root' \in Node \cup {NULL}
  BY DEF TreeOK, TreeInv, Allocated
<1>4. \A n \in Node : node'[n] = NULL \/
        /\ node'[n] \in TreeNode
        /\ Len(node'[n].keys) <= MaxKeys
        /\ IF node'[n].leaf THEN Len(node'[n].rows) = Len(node'[n].keys)
                            ELSE Len(node'[n].kids) = Len(node'[n].keys) + 1
  BY DEF NodesOK, NodeOK
<1>5. TypeOK'
  BY <1>1, <1>2, <1>3, <1>4 DEF TypeOK
<1> QED  BY <1>2, <1>5 DEF BPTreeInv

\* A split that goes up keeps it.
LEMMA SplitKeeps ==
  ASSUME BPTreeInv, NodesOK', TreeOK', UNCHANGED <<root, inserted, found, failures>>,
         step' = "parent", inserting' \in Key,
         split' \in [left : Node, key : Key, right : Node]
  PROVE  BPTreeInv'
<1>1. \A n \in Node : node'[n] = NULL \/
        /\ node'[n] \in TreeNode
        /\ Len(node'[n].keys) <= MaxKeys
        /\ IF node'[n].leaf THEN Len(node'[n].rows) = Len(node'[n].keys)
                            ELSE Len(node'[n].kids) = Len(node'[n].keys) + 1
  BY DEF NodesOK, NodeOK
<1>2. TypeOK'
  BY <1>1 DEF BPTreeInv, TypeOK
<1> QED  BY <1>2 DEF BPTreeInv

LEMMA InitTree == Init => BPTreeInv
<1> SUFFICES ASSUME Init PROVE BPTreeInv
  OBVIOUS
<1>1. NodesOK
  BY DEF Init, NodesOK
<1>2. TypeOK
  BY BPTreeAssumption DEF Init, TypeOK
<1>3. Allocated = {}
  BY DEF Init, Allocated
<1> DEFINE height == [n \in Node |-> 0]
           below == [n \in Node |-> {}]
<1>4. /\ height \in [Node -> 0..0] /\ below \in [Node -> SUBSET Key]
  OBVIOUS
<1> HIDE DEF height, below
<1>5. TreeInv(0, height, below)
  BY <1>3, <1>4 DEF Init, TreeInv, KidsInv, KeysInv, SplitInv
<1> QED  BY <1>1, <1>2, <1>5 DEF BPTreeInv, TreeOK

LEMMA InsertKeepsTree ==
  ASSUME BPTreeInv, NEW k \in Key, Insert(k)
  PROVE  BPTreeInv'
<1>1. step = "ready" /\ NodesOK /\ TreeOK
  BY DEF BPTreeInv, Insert
<1>2. inserted \subseteq Key /\ failures \in 0..MaxFailures
  BY DEF BPTreeInv, TypeOK
<1>3. CASE FirstKey(k)
  <2>1. NodesOK' /\ TreeOK'
    BY <1>1, <1>3, FirstKeyKeepsTree
  <2> QED  BY <1>2, <1>3, <2>1, ReturnKeeps DEF FirstKey, Accept
<1>4. CASE RefuseDuplicate(k)
  <2>1. Return /\ UNCHANGED <<root, node, failures, inserted>>
    BY <1>4 DEF RefuseDuplicate, Fail
  <2>2. NodesOK' /\ TreeOK'
    BY <1>1, <2>1, SameTree DEF Return
  <2> QED  BY <1>2, <2>1, <2>2, ReturnKeeps
<1>5. CASE InsertIntoLeaf(k)
  <2>1. NodesOK' /\ TreeOK'
    BY <1>1, <1>5, InsertIntoLeafKeepsTree
  <2> QED  BY <1>2, <1>5, <2>1, ReturnKeeps DEF InsertIntoLeaf, Accept
<1>6. CASE SplitLeaf(k)
  <2>1. NodesOK' /\ TreeOK' /\ split' \in [left : Node, key : Key, right : Node]
    BY <1>1, <1>6, SplitLeafKeepsTree
  <2> QED  BY <1>6, <2>1, SplitKeeps DEF SplitLeaf
<1>7. CASE FailToGrow(k)
  <2>1. Return /\ UNCHANGED <<root, node, inserted>> /\ failures' = failures + 1 /\ failures < MaxFailures
    BY <1>7 DEF FailToGrow, Fail, CallocFails
  <2>2. NodesOK' /\ TreeOK'
    BY <1>1, <2>1, SameTree DEF Return
  <2>3. failures' \in 0..MaxFailures
    BY <1>2, <2>1, BPTreeAssumption
  <2> QED  BY <1>2, <2>1, <2>2, <2>3, ReturnKeeps
<1> QED  BY <1>3, <1>4, <1>5, <1>6, <1>7 DEF Insert

LEMMA ParentKeepsTree ==
  ASSUME BPTreeInv, NewRoot \/ InsertIntoInternal \/ SplitInternal \/ FailToLink
  PROVE  BPTreeInv'
<1>1. step = "parent"
  BY DEF NewRoot, InsertIntoInternal, SplitInternal, FailToLink
<1>2. /\ NodesOK /\ TreeOK /\ inserted \subseteq Key /\ failures \in 0..MaxFailures
  BY <1>1 DEF BPTreeInv, TypeOK
<1>3. inserting \in Key
  BY <1>1, <1>2 DEF TreeOK, TreeInv, SplitInv
<1>4. CASE NewRoot
  <2>1. NodesOK' /\ TreeOK'
    BY <1>4, NewRootKeepsTree
  <2> QED  BY <1>2, <1>3, <1>4, <2>1, ReturnKeeps DEF NewRoot, Accept
<1>5. CASE InsertIntoInternal
  <2>1. NodesOK' /\ TreeOK'
    BY <1>5, InsertIntoInternalKeepsTree
  <2> QED  BY <1>2, <1>3, <1>5, <2>1, ReturnKeeps DEF InsertIntoInternal, Accept
<1>6. CASE SplitInternal
  <2>1. NodesOK' /\ TreeOK' /\ split' \in [left : Node, key : Key, right : Node]
    BY <1>6, SplitInternalKeepsTree
  <2>2. UNCHANGED <<root, step, inserting, inserted, found, failures>>
    BY <1>6 DEF SplitInternal
  <2> QED  BY <1>1, <1>3, <2>1, <2>2, SplitKeeps
<1>7. CASE FailToLink
  <2>1. Return /\ UNCHANGED <<root, node, inserted>> /\ failures' = failures + 1 /\ failures < MaxFailures
    BY <1>7 DEF FailToLink, Fail, CallocFails
  <2>2. NodesOK' /\ TreeOK'
    BY <1>2, <2>1, SameTree DEF Return
  <2>3. failures' \in 0..MaxFailures
    BY <1>2, <2>1, BPTreeAssumption
  <2> QED  BY <1>2, <2>1, <2>2, <2>3, ReturnKeeps
<1> QED  BY <1>4, <1>5, <1>6, <1>7

LEMMA FreeKeeps == ASSUME BPTreeInv, Free PROVE BPTreeInv'
<1>1. TypeOK /\ step' = "freed"
  BY DEF BPTreeInv, Free
<1>2. \A n \in Node : node'[n] = NULL \/ node'[n] = node[n]
  BY DEF Free
<1>3. \A n \in Node : node'[n] = NULL \/
        /\ node'[n] \in TreeNode
        /\ Len(node'[n].keys) <= MaxKeys
        /\ IF node'[n].leaf THEN Len(node'[n].rows) = Len(node'[n].keys)
                            ELSE Len(node'[n].kids) = Len(node'[n].keys) + 1
  BY <1>1, <1>2 DEF TypeOK
<1>4. TypeOK'
  BY <1>1, <1>3 DEF Free, TypeOK
<1> QED  BY <1>1, <1>4 DEF BPTreeInv

LEMMA StutterKeepsTree == ASSUME BPTreeInv, UNCHANGED vars PROVE BPTreeInv'
<1>1. UNCHANGED <<root, node, step, split, inserting, inserted, found, failures>>
  BY DEF vars
<1>2. TypeOK'
  BY <1>1 DEF BPTreeInv, TypeOK
<1>3. ASSUME step # "freed" PROVE NodesOK' /\ TreeOK'
  <2>1. NodesOK /\ TreeOK
    BY <1>3 DEF BPTreeInv
  <2>2. PICK top, height, below : TreeInv(top, height, below)
    BY <2>1 DEF TreeOK
  <2>3. NodesOK'
    BY <1>1, <2>1 DEF NodesOK
  <2>4. KidsInv(height) /\ KeysInv(below) /\ SplitInv(height, below)
    BY <2>2 DEF TreeInv
  <2>7. KidsInv(height)'
    BY <1>1, <2>4 DEF KidsInv, Allocated
  <2>8. KeysInv(below)'
    BY <1>1, <2>4 DEF KeysInv, Allocated
  <2>5. SplitInv(height, below)'
    <3>1. Allocated' = Allocated
      BY <1>1 DEF Allocated
    <3>2. \A U : Attached(U)' <=> Attached(U)
      BY <1>1, <3>1 DEF Attached
    <3> QED  BY <1>1, <2>4, <3>1, <3>2 DEF SplitInv
  <2>6. TreeInv(top, height, below)'
    BY <1>1, <2>2, <2>5, <2>7, <2>8 DEF TreeInv, Allocated
  <2> QED  BY <2>3, <2>6 DEF TreeOK
<1> QED  BY <1>1, <1>2, <1>3 DEF BPTreeInv

(***************************************************************************)
(* The nodes are a search tree after every step of every call.             *)
(***************************************************************************)
THEOREM TreeInvHolds == Spec => []BPTreeInv
<1>1. Init => BPTreeInv
  BY InitTree
<1>2. BPTreeInv /\ [Next]_vars => BPTreeInv'
  <2> SUFFICES ASSUME BPTreeInv, [Next]_vars PROVE BPTreeInv'
    OBVIOUS
  <2>1. ASSUME NEW k \in Key, Insert(k) PROVE BPTreeInv'
    BY <2>1, InsertKeepsTree
  <2>2. CASE NewRoot \/ InsertIntoInternal \/ SplitInternal \/ FailToLink
    BY <2>2, ParentKeepsTree
  <2>3. CASE Free
    BY <2>3, FreeKeeps
  <2>4. CASE Ended \/ UNCHANGED vars
    BY <2>4, StutterKeepsTree DEF Ended
  <2> QED  BY <2>1, <2>2, <2>3, <2>4 DEF Next
<1> QED  BY <1>1, <1>2, PTL DEF Spec

-------------------------------------------------------------------------------
\* What the invariant says of the properties

(***************************************************************************)
(* Nodes never have more keys than MaxKeys, nor keys without a row or      *)
(* between too few children.                                               *)
(***************************************************************************)
THEOREM TypeCorrect == Spec => []TypeOK
<1>1. BPTreeInv => TypeOK
  BY DEF BPTreeInv
<1> QED  BY <1>1, TreeInvHolds, PTL

(***************************************************************************)
(* bptree_insert_into_parent finds the node it has split in its parent.    *)
(***************************************************************************)
THEOREM SplitNodeIsChildHolds == Spec => []SplitNodeIsChild
<1>1. BPTreeInv => SplitNodeIsChild
  <2> SUFFICES ASSUME BPTreeInv, step = "parent", Parent # NULL PROVE LeftIndex # 0
    BY DEF SplitNodeIsChild
  <2>1. NodesOK /\ TreeOK
    BY DEF BPTreeInv
  <2>2. PICK top, height, below : TreeInv(top, height, below)
    BY <2>1 DEF TreeOK
  <2>3. LeftIndex \in 1..Len(node[Parent].kids)
    BY <2>1, <2>2, LeftPlace
  <2> QED  BY <2>3
<1> QED  BY <1>1, TreeInvHolds, PTL

\* The levels of the tree are levels of height.
LEMMA LevelsHaveOneHeight ==
  ASSUME NodesOK, NEW top, NEW height, NEW below, TreeInv(top, height, below)
  PROVE  \A d \in 0..MaxNode : \A n \in Levels[d] :
           n \in Allocated /\ root # NULL /\ height[n] + d = height[root]
<1> DEFINE Under(S) == UNION { ToSet(node[n].kids) : n \in S }
           Next0(f, d) == IF d = 0 THEN IF root = NULL THEN {} ELSE {root} ELSE Under(f[d - 1])
           Grows(f, h) == \A d \in 0..MaxNode : d <= h => f[d] = Next0(f, d)
           level == CHOOSE f : f = [d \in 0..MaxNode |-> Next0(f, d)]
<1>1. MaxNode \in Nat
  BY BPTreeAssumption
<1>2. \A h \in Nat : \E f : f = [d \in 0..MaxNode |-> f[d]] /\ Grows(f, h)
  <2> DEFINE S == { h \in Nat : \E f : f = [d \in 0..MaxNode |-> f[d]] /\ Grows(f, h) }
  <2>1. 0 \in S
    <3> DEFINE f == [d \in 0..MaxNode |-> IF root = NULL THEN {} ELSE {root}]
    <3>1. \A d \in 0..MaxNode : d <= 0 => f[d] = Next0(f, d)
      <4>1. \A d \in 0..MaxNode : d <= 0 => d = 0
        BY <1>1
      <4> HIDE DEF Under
      <4> QED  BY <4>1
    <3>2. f = [d \in 0..MaxNode |-> f[d]] /\ Grows(f, 0)
      BY <3>1
    <3> HIDE DEF f, Grows
    <3> QED  BY <3>2
  <2>2. ASSUME NEW h \in Nat, h \in S PROVE h + 1 \in S
    <3>1. PICK f : f = [d \in 0..MaxNode |-> f[d]] /\ Grows(f, h)
      BY <2>2
    <3> DEFINE g == [d \in 0..MaxNode |-> IF d <= h THEN f[d] ELSE Next0(f, d)]
    <3> HIDE DEF Under
    <3>2. \A d \in 0..MaxNode : g[d] = IF d <= h THEN f[d] ELSE Next0(f, d)
      OBVIOUS
    <3>3. g = [d \in 0..MaxNode |-> g[d]]
      <4> HIDE DEF Next0
      <4> QED  OBVIOUS
    <3> HIDE DEF g
    <3>4. ASSUME NEW d \in 0..MaxNode, d <= h + 1 PROVE g[d] = Next0(g, d)
      <4>1. g[d] = Next0(f, d)
        BY <3>1, <3>2
      <4>2. CASE d = 0
        BY <4>1, <4>2
      <4>3. CASE d # 0
        <5>1. d - 1 \in 0..MaxNode /\ d - 1 <= h
          BY <1>1, <3>4, <4>3
        <5>2. g[d - 1] = f[d - 1]
          BY <3>2, <5>1
        <5> QED  BY <4>1, <4>3, <5>2
      <4> QED  BY <4>2, <4>3
    <3>5. Grows(g, h + 1)
      <4> HIDE DEF Next0
      <4> QED  BY <3>4
    <3> HIDE DEF Grows, Next0
    <3>6. h + 1 \in Nat
      OBVIOUS
    <3> QED  BY <3>3, <3>5, <3>6
  <2> HIDE DEF S
  <2>3. Nat \subseteq S
    BY <2>1, <2>2, InductionOverNat
  <2> QED  BY <2>3 DEF S
<1>3. level = [d \in 0..MaxNode |-> Next0(level, d)]
  <2>1. PICK f : f = [d \in 0..MaxNode |-> f[d]] /\ Grows(f, MaxNode)
    BY <1>1, <1>2
  <2> HIDE DEF Under
  <2>2. \A d \in 0..MaxNode : f[d] = Next0(f, d)
    <3>1. \A d \in 0..MaxNode : d <= MaxNode
      BY <1>1
    <3> HIDE DEF Next0
    <3> QED  BY <2>1, <3>1
  <2>3. f = [d \in 0..MaxNode |-> Next0(f, d)]
    <3> HIDE DEF Next0
    <3>1. [d \in 0..MaxNode |-> f[d]] = [d \in 0..MaxNode |-> Next0(f, d)]
      BY <2>2
    <3> QED  BY <2>1, <3>1
  <2> HIDE DEF Next0
  <2> QED  BY <2>3
<1>4. Levels = level
  BY Zenon DEF Levels
<1>5. \A d \in 0..MaxNode : level[d] = Next0(level, d)
  <2> HIDE DEF level, Next0
  <2> QED  BY <1>3
<1> HIDE DEF level
<1>6. KidsInv(height) /\ (root # NULL => root \in Allocated)
      /\ \A n \in Allocated : height[n] \in Nat
  BY DEF TreeInv, Allocated
<1> DEFINE OneHeight(d) ==
             \A n \in level[d] : n \in Allocated /\ root # NULL /\ height[n] + d = height[root]
           T == { d \in Nat : d \in 0..MaxNode => OneHeight(d) }
<1>7. 0 \in T
  <2>1. 0 \in 0..MaxNode
    BY <1>1
  <2>2. level[0] = Next0(level, 0)
    <3> HIDE DEF Next0
    <3> QED  BY <1>5, <2>1
  <2>3. level[0] = IF root = NULL THEN {} ELSE {root}
    <3> HIDE DEF Under
    <3> QED  BY <2>2
  <2> QED  BY <1>6, <2>3
<1>8. ASSUME NEW d \in Nat, d \in T PROVE d + 1 \in T
  <2> SUFFICES ASSUME d + 1 \in 0..MaxNode PROVE OneHeight(d + 1)
    OBVIOUS
  <2>1. d \in 0..MaxNode /\ d + 1 # 0 /\ (d + 1) - 1 = d
    BY <1>1
  <2>2. level[d + 1] = Under(level[d])
    <3> HIDE DEF Under
    <3> QED  BY <1>5, <2>1
  <2>3. ASSUME NEW c \in level[d + 1]
        PROVE  c \in Allocated /\ root # NULL /\ height[c] + (d + 1) = height[root]
    <3>1. PICK n \in level[d] : c \in ToSet(node[n].kids)
      BY <2>2, <2>3
    <3>2. n \in Allocated /\ root # NULL /\ height[n] + d = height[root]
      BY <1>8, <2>1, <3>1
    <3>3. PICK i \in 1..Len(node[n].kids) : c = node[n].kids[i]
      BY <3>1 DEF ToSet
    <3>4. c \in Allocated /\ height[n] = height[c] + 1
      BY <1>6, <3>2, <3>3 DEF KidsInv
    <3>5. height[c] \in Nat
      BY <1>6, <3>4
    <3> QED  BY <3>2, <3>4, <3>5
  <2> QED  BY <2>3
<1> HIDE DEF T
<1>9. Nat \subseteq T
  BY <1>7, <1>8, InductionOverNat
<1> HIDE DEF Under
<1> QED  BY <1>1, <1>4, <1>9 DEF T

\* The keys of a subtree are among those the invariant allows it.
LEMMA KeysBelowBounded ==
  ASSUME NodesOK, NEW top, NEW height, NEW below, TreeInv(top, height, below)
  PROVE  \A n \in Allocated : KeysBelow(n) \subseteq below[n]
<1> DEFINE Of(f, n) == IF node[n].leaf THEN ToSet(node[n].keys)
                       ELSE UNION { f[node[n].kids[i]] : i \in 1..Len(node[n].kids) }
           Gathers(f, h) == \A n \in Allocated : height[n] <= h => f[n] = Of(f, n)
           keys == CHOOSE f : f = [n \in Allocated |-> Of(f, n)]
<1>1. /\ top \in Nat /\ KidsInv(height) /\ KeysInv(below)
      /\ \A n \in Allocated : height[n] \in Nat /\ height[n] <= top
  BY DEF TreeInv, Allocated
<1>2. \A n \in Allocated : \A i \in 1..Len(node[n].kids) :
        node[n].kids[i] \in Allocated /\ height[n] = height[node[n].kids[i]] + 1
  BY <1>1 DEF KidsInv
<1>3. ASSUME NEW n \in Allocated, height[n] <= 0 PROVE node[n].leaf
  <2> SUFFICES ASSUME ~node[n].leaf PROVE FALSE
    OBVIOUS
  <2>1. 1 \in 1..Len(node[n].kids)
    BY NodeFields
  <2> QED  BY <1>1, <1>2, <1>3, <2>1
<1>4. \A h \in Nat : \E f : f = [n \in Allocated |-> f[n]] /\ Gathers(f, h)
  <2> DEFINE S == { h \in Nat : \E f : f = [n \in Allocated |-> f[n]] /\ Gathers(f, h) }
  <2>1. 0 \in S
    <3> DEFINE f == [n \in Allocated |-> ToSet(node[n].keys)]
    <3>1. ASSUME NEW n \in Allocated, height[n] <= 0 PROVE f[n] = Of(f, n)
      BY <1>3, <3>1
    <3>2. f = [n \in Allocated |-> f[n]] /\ Gathers(f, 0)
      <4> HIDE DEF Of
      <4> QED  BY <3>1
    <3> HIDE DEF f, Gathers
    <3> QED  BY <3>2
  <2>2. ASSUME NEW h \in Nat, h \in S PROVE h + 1 \in S
    <3>1. PICK f : f = [n \in Allocated |-> f[n]] /\ Gathers(f, h)
      BY <2>2
    <3> DEFINE g == [n \in Allocated |-> IF height[n] <= h THEN f[n] ELSE Of(f, n)]
    <3>2. g = [n \in Allocated |-> g[n]]
          /\ \A n \in Allocated : g[n] = IF height[n] <= h THEN f[n] ELSE Of(f, n)
      <4> HIDE DEF Of
      <4> QED  OBVIOUS
    <3> HIDE DEF g
    <3>3. ASSUME NEW n \in Allocated, height[n] <= h + 1 PROVE g[n] = Of(g, n)
      <4>1. g[n] = Of(f, n)
        <5> HIDE DEF Of
        <5> QED  BY <3>1, <3>2
      <4>2. ASSUME NEW i \in 1..Len(node[n].kids) PROVE g[node[n].kids[i]] = f[node[n].kids[i]]
        <5>1. node[n].kids[i] \in Allocated /\ height[node[n].kids[i]] <= h
          BY <1>1, <1>2, <3>3
        <5> HIDE DEF Of
        <5> QED  BY <3>2, <5>1
      <4>3. Of(f, n) = Of(g, n)
        BY <4>2
      <4> HIDE DEF Of
      <4> QED  BY <4>1, <4>3
    <3>4. Gathers(g, h + 1)
      BY <3>3
    <3> HIDE DEF Gathers
    <3> QED  BY <3>2, <3>4
  <2> HIDE DEF S
  <2>3. Nat \subseteq S
    BY <2>1, <2>2, InductionOverNat
  <2> QED  BY <2>3 DEF S
<1>5. keys = [n \in Allocated |-> Of(keys, n)]
  <2>1. PICK f : f = [n \in Allocated |-> f[n]] /\ Gathers(f, top)
    BY <1>1, <1>4
  <2> HIDE DEF Of
  <2>2. \A n \in Allocated : f[n] = Of(f, n)
    BY <1>1, <2>1
  <2>3. f = [n \in Allocated |-> Of(f, n)]
    <3>1. [n \in Allocated |-> f[n]] = [n \in Allocated |-> Of(f, n)]
      BY <2>2
    <3> QED  BY <2>1, <3>1
  <2> QED  BY <2>3
<1>6. \A n : KeysBelow(n) = keys[n]
  BY Zenon DEF KeysBelow
<1>7. \A n \in Allocated : keys[n] = Of(keys, n)
  <2> HIDE DEF keys, Of
  <2> QED  BY <1>5
<1> HIDE DEF keys
<1> DEFINE T == { h \in Nat : \A n \in Allocated : height[n] <= h => keys[n] \subseteq below[n] }
<1>8. ASSUME NEW n \in Allocated, node[n].leaf PROVE keys[n] \subseteq below[n]
  <2>1. keys[n] = ToSet(node[n].keys)
    BY <1>7, <1>8
  <2> QED  BY <1>1, <2>1 DEF KeysInv, ToSet
<1>9. 0 \in T
  BY <1>3, <1>8
<1>10. ASSUME NEW h \in Nat, h \in T PROVE h + 1 \in T
  <2> SUFFICES ASSUME NEW n \in Allocated, height[n] <= h + 1 PROVE keys[n] \subseteq below[n]
    BY <1>10
  <2>1. CASE ~node[n].leaf
    <3>1. keys[n] = UNION { keys[node[n].kids[i]] : i \in 1..Len(node[n].kids) }
      BY <1>7, <2>1
    <3>2. ASSUME NEW i \in 1..Len(node[n].kids) PROVE keys[node[n].kids[i]] \subseteq below[n]
      <4>1. node[n].kids[i] \in Allocated /\ height[node[n].kids[i]] <= h
        BY <1>1, <1>2, <2>1
      <4>2. keys[node[n].kids[i]] \subseteq below[node[n].kids[i]]
        BY <1>10, <4>1
      <4> QED  BY <1>1, <4>2 DEF KeysInv
    <3> QED  BY <3>1, <3>2
  <2> QED  BY <1>8, <2>1
<1> HIDE DEF T
<1>11. Nat \subseteq T
  BY <1>9, <1>10, InductionOverNat
<1> QED  BY <1>1, <1>6, <1>11 DEF T

(***************************************************************************)
(* Between two calls the nodes below the root are a search tree: no order  *)
(* of inserts, and no allocation that fails halfway up, makes a search go  *)
(* the wrong way.                                                          *)
(***************************************************************************)
THEOREM SearchTreeHolds == Spec => []SearchTree
<1>1. BPTreeInv => SearchTree
  <2> SUFFICES ASSUME BPTreeInv, step = "ready" PROVE
        /\ \A n \in Reachable : Sorted(node[n].keys)
        /\ \A n \in Reachable : \A i \in 1..Len(node[n].kids) :
             /\ node[node[n].kids[i]].parent = n
             /\ \A k \in KeysBelow(node[n].kids[i]) :
                  /\ i > 1 => node[n].keys[i - 1] <= k
                  /\ i <= Len(node[n].keys) => k < node[n].keys[i]
        /\ root # NULL => node[root].parent = NULL
        /\ \A d \in 0..MaxNode : \A n, m \in Levels[d] : node[n].leaf = node[m].leaf
    BY DEF SearchTree
  <2>1. NodesOK /\ TreeOK
    BY DEF BPTreeInv
  <2>2. PICK top, height, below : TreeInv(top, height, below)
    BY <2>1 DEF TreeOK
  <2>3. \A d \in 0..MaxNode : \A n \in Levels[d] :
          n \in Allocated /\ height[n] + d = height[root] /\ root # NULL
    BY <2>1, <2>2, LevelsHaveOneHeight
  <2>4. Reachable \subseteq Allocated
    BY <2>3 DEF Reachable
  <2>5. ASSUME NEW n \in Reachable PROVE Sorted(node[n].keys)
    <3>1. Ascending(node[n].keys) /\ Len(node[n].keys) \in Nat
      BY <2>1, <2>2, <2>4, NodeFields DEF TreeInv, KeysInv
    <3> QED  BY <3>1 DEF Ascending, Sorted
  <2>6. ASSUME NEW n \in Reachable, NEW i \in 1..Len(node[n].kids)
        PROVE  /\ node[node[n].kids[i]].parent = n
               /\ \A k \in KeysBelow(node[n].kids[i]) :
                    /\ i > 1 => node[n].keys[i - 1] <= k
                    /\ i <= Len(node[n].keys) => k < node[n].keys[i]
    <3>1. n \in Allocated /\ node[n].kids[i] \in Allocated /\ node[node[n].kids[i]].parent = n
      BY <2>2, <2>4 DEF TreeInv, KidsInv
    <3>2. KeysBelow(node[n].kids[i]) \subseteq below[node[n].kids[i]]
      BY <2>1, <2>2, <3>1, KeysBelowBounded
    <3> QED  BY <2>2, <3>1, <3>2 DEF TreeInv, KeysInv
  <2>7. ASSUME NEW n \in Allocated PROVE node[n].leaf <=> height[n] = 0
    <3>1. KidsInv(height) /\ \A m \in Allocated : height[m] \in Nat
      BY <2>2 DEF TreeInv, Allocated
    <3>2. node[n].leaf => height[n] = 0
      BY <3>1 DEF KidsInv
    <3>3. ASSUME ~node[n].leaf PROVE height[n] # 0
      <4>1. 1 \in 1..Len(node[n].kids)
        BY <2>1, <3>3, NodeFields
      <4>2. node[n].kids[1] \in Allocated /\ height[n] = height[node[n].kids[1]] + 1
        BY <3>1, <4>1 DEF KidsInv
      <4> QED  BY <3>1, <4>2
    <3> QED  BY <3>2, <3>3
  <2>8. ASSUME NEW d \in 0..MaxNode, NEW n \in Levels[d], NEW m \in Levels[d]
        PROVE  node[n].leaf = node[m].leaf
    <3>1. n \in Allocated /\ m \in Allocated /\ height[n] + d = height[m] + d
      BY <2>3
    <3>2. height[n] \in Nat /\ height[m] \in Nat /\ d \in Nat
      BY <2>2, <3>1, BPTreeAssumption DEF TreeInv, Allocated
    <3>3. height[n] = height[m]
      BY <3>1, <3>2
    <3>4. node[n].leaf \in BOOLEAN /\ node[m].leaf \in BOOLEAN
      BY <2>1, <3>1, NodeFields
    <3>5. node[n].leaf <=> node[m].leaf
      BY <2>7, <3>1, <3>3
    <3> QED  BY <3>4, <3>5
  <2>9. root # NULL => node[root].parent = NULL
    BY <2>2 DEF TreeInv
  <2> QED  BY <2>5, <2>6, <2>8, <2>9
<1> QED  BY <1>1, TreeInvHolds, PTL

-------------------------------------------------------------------------------
\* What searches find

HasKey(n, k) == \E j \in 1..Len(node[n].keys) : node[n].keys[j] = k

\* Leaves keep every key with its row.
RowsInv ==
  \A n \in Allocated : node[n].leaf =>
    \A j \in 1..Len(node[n].keys) : node[n].rows[j] = RowOf(node[n].keys[j])

\* Where a search would go on instead of m, were the split that goes up
\* already in the parent.
Turned(m, k) ==
  IF step = "parent" /\ m = split.left /\ split.key <= k THEN split.right ELSE m

\* P is a way such a search for k goes from the root down to b.
LinkedWay(P, b, k) ==
  /\ P \subseteq Allocated /\ Turned(root, k) \in P /\ b \in P
  /\ \A m \in P : \/ m = Turned(root, k)
                  \/ /\ node[m].parent \in P /\ ~node[node[m].parent].leaf
                     /\ m = Turned(Routed(node[m].parent, k), k)

LinkedEnd(n, k) == n \in Allocated /\ node[n].leaf /\ \E P : LinkedWay(P, n, k)

\* Between calls found is what searches find; during a call it is, but for the
\* new key, what they would find once the split is linked.
CallInv ==
  /\ step # "freed" => RowsInv
  /\ step = "ready" => found = [k \in Key |-> Search(k)]
  /\ step = "parent" =>
       /\ split.key > 1
       /\ found[inserting] = NULL
       /\ \A k \in Key : found[k] \in {NULL, RowOf(k)}
       /\ \A k \in Key : \A n :
            LinkedEnd(n, k) => (HasKey(n, k) <=> k = inserting \/ found[k] # NULL)

\* Between which keys a search goes down says where.
LEMMA ChildIndexIs ==
  ASSUME NEW keys \in Seq(Nat), Ascending(keys), NEW k \in Nat, NEW i \in 1..(Len(keys) + 1),
         i > 1 => keys[i - 1] <= k, i <= Len(keys) => k < keys[i]
  PROVE  ChildIndex(keys, k) = i
<1>1. PICK c : c = ChildIndex(keys, k)
  OBVIOUS
<1>2. /\ c \in 1..(Len(keys) + 1)
      /\ \A j \in 1..(c - 1) : keys[j] <= k
      /\ c <= Len(keys) => k < keys[c]
  BY <1>1, ChildIndexFits
<1>3. Len(keys) \in Nat /\ \A j \in 1..Len(keys) : keys[j] \in Nat
  BY LenProperties
<1>4. ASSUME i < c PROVE FALSE
  <2>1. i \in 1..(c - 1) /\ i \in 1..Len(keys)
    BY <1>2, <1>3, <1>4
  <2>2. keys[i] <= k /\ k < keys[i]
    BY <1>2, <1>3, <2>1
  <2> QED  BY <1>3, <2>1, <2>2
<1>5. ASSUME c < i PROVE FALSE
  <2>1. c \in 1..Len(keys) /\ i - 1 \in 1..Len(keys) /\ (c = i - 1 \/ c < i - 1)
    BY <1>2, <1>3, <1>5
  <2>2. k < keys[c] /\ keys[i - 1] <= k
    BY <1>2, <1>3, <1>5, <2>1
  <2>3. keys[c] <= keys[i - 1]
    <3>1. c <= i - 1
      BY <1>3, <2>1
    <3> QED  BY <1>3, <2>1, <3>1, Increases
  <2> QED  BY <1>3, <2>1, <2>2, <2>3
<1> QED  BY <1>1, <1>2, <1>3, <1>4, <1>5

\* A search finds a key in the leaf it ends in, and there with its row.
LEMMA SearchIs ==
  ASSUME NodesOK, TreeOK, RowsInv, NEW k \in Key
  PROVE  /\ root = NULL => Search(k) = NULL
         /\ root # NULL => Search(k) = IF HasKey(FindLeaf(k), k) THEN RowOf(k) ELSE NULL
         /\ RowOf(k) # NULL
<1>1. CASE root = NULL
  BY <1>1, BPTreeAssumption DEF Search, RowOf, Key
<1>2. CASE root # NULL
  <2> DEFINE n == FindLeaf(k)
             I == { j \in 1..Len(node[n].keys) : node[n].keys[j] = k }
  <2>1. n \in Allocated /\ node[n].leaf
    BY <1>2, FindLeafEndsInLeaf DEF TreeOK
  <2>2. Len(node[n].keys) \in Nat
    BY <2>1, NodeFields
  <2>3. Search(k) = IF I = {} \/ Min(I) = 0 THEN NULL ELSE node[n].rows[Min(I)]
    BY <1>2 DEF Search, SelectInSeq
  <2> HIDE DEF n
  <2>4. I # {} => Min(I) \in I
    BY <2>2, FirstPlace
  <2>5. I # {} <=> HasKey(n, k)
    BY DEF HasKey
  <2>6. I # {} => node[n].rows[Min(I)] = RowOf(k) /\ Min(I) # 0
    <3> SUFFICES ASSUME I # {} PROVE node[n].rows[Min(I)] = RowOf(k) /\ Min(I) # 0
      OBVIOUS
    <3>1. PICK j : j = Min(I)
      OBVIOUS
    <3>2. j \in 1..Len(node[n].keys) /\ node[n].keys[j] = k
      BY <2>4, <3>1
    <3>3. node[n].rows[j] = RowOf(k) /\ j # 0
      BY <2>1, <2>2, <3>2 DEF RowsInv
    <3> QED  BY <3>1, <3>3
  <2>7. Search(k) = IF HasKey(n, k) THEN RowOf(k) ELSE NULL
    <3> HIDE DEF I
    <3> QED  BY <2>3, <2>5, <2>6
  <2>8. RowOf(k) # NULL
    BY BPTreeAssumption DEF RowOf, Key
  <2> QED  BY <1>2, <2>7, <2>8 DEF n
<1> QED  BY <1>1, <1>2

\* The one leaf a search for k ends in, as a fact of a state.
WaysMeet ==
  root # NULL => \A k \in Key :
    /\ FindLeaf(k) \in Allocated /\ node[FindLeaf(k)].leaf
    /\ \E P : WayDown(P, root, FindLeaf(k), k)
    /\ \A l, P : WayDown(P, root, l, k) /\ node[l].leaf => l = FindLeaf(k)

LEMMA TreeWaysMeet == NodesOK /\ TreeOK => WaysMeet
BY WaysEnd DEF WaysMeet, TreeOK

SearchValue ==
  \A k \in Key :
    /\ root = NULL => Search(k) = NULL
    /\ root # NULL => Search(k) = IF HasKey(FindLeaf(k), k) THEN RowOf(k) ELSE NULL
    /\ RowOf(k) # NULL

LEMMA TreeSearchValue == NodesOK /\ TreeOK /\ RowsInv => SearchValue
BY SearchIs DEF SearchValue

\* A call that changes no node leaves every search as it was.
LEMMA SameSearch ==
  ASSUME NodesOK, TreeOK, RowsInv, UNCHANGED <<root, node>>, step' = "ready"
  PROVE  RowsInv' /\ \A q \in Key : Search(q)' = Search(q)
<1>1. RowsInv'
  BY DEF RowsInv, Allocated, RowOf
<1>2. NodesOK' /\ TreeOK'
  BY SameTree
<1>3. WaysMeet /\ SearchValue
  BY TreeWaysMeet, TreeSearchValue
<1>4. WaysMeet' /\ SearchValue'
  BY <1>1, <1>2, TreeWaysMeet, TreeSearchValue, PTL
<1>5. ASSUME NEW q \in Key PROVE Search(q)' = Search(q)
  <2>1. CASE root = NULL
    BY <1>3, <1>4, <2>1 DEF SearchValue
  <2>2. CASE root # NULL
    <3>1. PICK l, P : l = FindLeaf(q) /\ node[l].leaf /\ WayDown(P, root, l, q)
      BY <1>3, <2>2 DEF WaysMeet
    <3>2. WayDown(P, root, l, q)' /\ node'[l].leaf /\ root' # NULL
      BY <2>2, <3>1 DEF WayDown, Allocated, Routed
    <3>3. FindLeaf(q)' = l
      BY <1>4, <3>2 DEF WaysMeet
    <3>4. HasKey(l, q)' <=> HasKey(l, q)
      BY DEF HasKey
    <3>5. Search(q) = IF HasKey(l, q) THEN RowOf(q) ELSE NULL
      BY <1>3, <2>2, <3>1 DEF SearchValue
    <3>6. Search(q)' = IF HasKey(l, q)' THEN RowOf(q) ELSE NULL
      BY <1>4, <3>2, <3>3 DEF SearchValue, RowOf
    <3> QED  BY <3>4, <3>5, <3>6
  <2> QED  BY <2>1, <2>2
<1> QED  BY <1>1, <1>5

\* What was found becomes what is found with one more key.
LEMMA OneMoreFound ==
  ASSUME NEW k \in Key, found = [q \in Key |-> found[q]], found[k] = NULL, UNCHANGED failures,
         found' = [q \in Key |-> Search(q)'], NEW S,
         \A q \in Key : found[q] = IF q \in S THEN RowOf(q) ELSE NULL,
         \A q \in Key : Search(q)' = IF q \in S \/ q = k THEN RowOf(q) ELSE NULL
  PROVE  Index!Insert(k)
<1>1. \A q \in Key : Search(q)' = IF q = k THEN RowOf(k) ELSE found[q]
  OBVIOUS
<1>2. found' = [q \in Key |-> IF q = k THEN RowOf(k) ELSE found[q]]
  BY <1>1
<1>3. found' = [found EXCEPT ![k] = RowOf(k)]
  BY <1>2
<1> QED  BY <1>3 DEF Index!Insert

LEMMA FirstKeyFound ==
  ASSUME BPTreeInv, CallInv, step = "ready", NEW k \in Key, FirstKey(k)
  PROVE  RowsInv' /\ Index!Insert(k)
<1>1. NodesOK /\ root = NULL /\ found = [q \in Key |-> Search(q)]
  BY DEF BPTreeInv, CallInv, FirstKey
<1>2. PICK n \in Node : /\ Fresh(n)
                        /\ node' = [node EXCEPT ![n] = Leaf(<<k>>, <<RowOf(k)>>, NULL, NULL)]
                        /\ root' = n
  BY DEF FirstKey
<1>3. NodesOK' /\ TreeOK'
  BY FirstKeyKeepsTree
<1>4. /\ node'[n].leaf /\ node'[n].keys = <<k>> /\ node'[n].rows = <<RowOf(k)>>
      /\ \A m \in Node : m # n => node'[m] = node[m]
  BY <1>1, <1>2 DEF NodesOK, Leaf
<1>5. n \in Allocated'
  <2>1. node'[n] = Leaf(<<k>>, <<RowOf(k)>>, NULL, NULL)
    BY <1>1, <1>2 DEF NodesOK
  <2>2. node'[n] # NULL
    <3>1. node'[n] = NULL \/ node'[n] \in TreeNode
      BY <1>3 DEF NodesOK, NodeOK
    <3>2. root' # NULL
      BY <1>1, <1>2, OnlyNodes
    <3> QED  BY <1>2, <1>3, <3>2 DEF TreeOK, TreeInv, Allocated
  <2> QED  BY <2>2 DEF Allocated
<1>6. RowsInv'
  <2> SUFFICES ASSUME NEW m \in Allocated', node'[m].leaf, NEW j \in 1..Len(node'[m].keys)
               PROVE  node'[m].rows[j] = RowOf(node'[m].keys[j])
    BY DEF RowsInv, RowOf
  <2>1. CASE m = n
    BY <1>4, <2>1
  <2>2. CASE m # n
    BY <1>4, <2>2 DEF Allocated, CallInv, RowsInv
  <2> QED  BY <2>1, <2>2
<1>7. WaysMeet' /\ SearchValue'
  BY <1>3, <1>6, TreeWaysMeet, TreeSearchValue, PTL
<1>8. ASSUME NEW q \in Key PROVE Search(q)' = IF q = k THEN RowOf(q) ELSE NULL
  <2>1. root' # NULL
    BY <1>1, <1>2, OnlyNodes
  <2>2. WayDown({n}, root, n, q)'
    BY <1>2, <1>5 DEF WayDown
  <2>3. n = FindLeaf(q)'
    BY <1>4, <1>7, <2>1, <2>2 DEF WaysMeet
  <2>4. HasKey(n, q)' <=> q = k
    BY <1>4 DEF HasKey
  <2> QED  BY <1>7, <2>1, <2>3, <2>4 DEF SearchValue, RowOf
<1>9. \A q \in Key : found[q] = NULL
  BY <1>1 DEF Search
<1>10. found' = [q \in Key |-> Search(q)'] /\ UNCHANGED failures
  BY DEF FirstKey, Accept, Return
<1>11. /\ \A q \in Key : found[q] = IF q \in {} THEN RowOf(q) ELSE NULL
       /\ \A q \in Key : Search(q)' = IF q \in {} \/ q = k THEN RowOf(q) ELSE NULL
       /\ found = [q \in Key |-> found[q]]
  BY <1>1, <1>8, <1>9
<1>12. Index!Insert(k)
  <2>1. PICK S : S = {}
    OBVIOUS
  <2>2. /\ \A q \in Key : found[q] = IF q \in S THEN RowOf(q) ELSE NULL
        /\ \A q \in Key : Search(q)' = IF q \in S \/ q = k THEN RowOf(q) ELSE NULL
    BY <1>11, <2>1
  <2> QED  BY <1>9, <1>10, <1>11, <2>2, OneMoreFound
<1> QED  BY <1>6, <1>12

\* A leaf with a new key and its row.
LEMMA LeafWithRow ==
  ASSUME NodesOK, TreeOK, RowsInv, NEW k \in Key, Missing(k)
  PROVE  LET n == FindLeaf(k)
             keys == KeysWith(n, k)
             rows == RowsWith(n, k)
         IN /\ \A j \in 1..Len(keys) : rows[j] = RowOf(keys[j])
            /\ \A q : (\E j \in 1..Len(keys) : keys[j] = q) <=> q = k \/ HasKey(n, q)
<1> DEFINE n == FindLeaf(k)
<1>1. n \in Allocated /\ node[n].leaf
  BY FindLeafEndsInLeaf DEF TreeOK, Missing
<1> HIDE DEF n
<1>2. PICK ks, rs, i : ks = node[n].keys /\ rs = node[n].rows /\ i = InsertIndex(ks, k)
  OBVIOUS
<1>3. /\ ks \in Seq(Key) /\ ks \in Seq(Nat) /\ rs \in Seq(Nat) /\ Len(rs) = Len(ks)
      /\ Len(ks) \in Nat /\ k \in Nat /\ RowOf(k) \in Nat
  BY <1>1, <1>2, NodeFields, BPTreeAssumption DEF Key, RowOf
<1>4. i \in 1..(Len(ks) + 1) /\ i \in Nat
  <2>1. i \in 1..(Len(ks) + 1)
    BY <1>2, <1>3, InsertIndexFits
  <2> QED  BY <2>1
<1>5. PICK keys, rows : keys = InsertAt(ks, i, k) /\ rows = InsertAt(rs, i, RowOf(k))
  OBVIOUS
<1>6. KeysWith(n, k) = keys /\ RowsWith(n, k) = rows
  BY <1>2, <1>5 DEF KeysWith, RowsWith
<1>7. /\ Len(keys) = Len(ks) + 1
      /\ \A j \in 1..(Len(ks) + 1) :
           keys[j] = IF j < i THEN ks[j] ELSE IF j = i THEN k ELSE ks[j - 1]
  <2>1. /\ InsertAt(ks, i, k) \in Seq(Key) /\ Len(InsertAt(ks, i, k)) = Len(ks) + 1
        /\ \A j \in 1..(Len(ks) + 1) :
             InsertAt(ks, i, k)[j] = IF j < i THEN ks[j] ELSE IF j = i THEN k ELSE ks[j - 1]
    <3>1. ks \in Seq(Key) /\ k \in Key /\ i \in 1..(Len(ks) + 1)
      BY <1>3, <1>4
    <3> QED  BY <3>1, InsertedAt
  <2> QED  BY <1>5, <2>1
<1>8. \A j \in 1..(Len(ks) + 1) :
        rows[j] = IF j < i THEN rs[j] ELSE IF j = i THEN RowOf(k) ELSE rs[j - 1]
  <2>1. PICK e : e = RowOf(k)
    OBVIOUS
  <2>2. e \in Nat /\ i \in 1..(Len(rs) + 1) /\ rows = InsertAt(rs, i, e)
    BY <1>3, <1>4, <1>5, <2>1
  <2>3. /\ InsertAt(rs, i, e) \in Seq(Nat) /\ Len(InsertAt(rs, i, e)) = Len(rs) + 1
        /\ \A j \in 1..(Len(rs) + 1) :
             InsertAt(rs, i, e)[j] = IF j < i THEN rs[j] ELSE IF j = i THEN e ELSE rs[j - 1]
    <3>1. rs \in Seq(Nat) /\ e \in Nat /\ i \in 1..(Len(rs) + 1)
      BY <1>3, <2>2
    <3> QED  BY <3>1, InsertedAt
  <2> QED  BY <1>3, <2>1, <2>2, <2>3
<1>9. \A j \in 1..Len(ks) : rs[j] = RowOf(ks[j])
  BY <1>1, <1>2 DEF RowsInv
<1>10. ASSUME NEW j \in 1..Len(keys) PROVE rows[j] = RowOf(keys[j])
  <2>1. j \in 1..(Len(ks) + 1) /\ j \in Nat
    BY <1>3, <1>7
  <2>2. CASE j < i
    <3>1. j \in 1..Len(ks)
      BY <1>3, <1>4, <2>1, <2>2
    <3> QED  BY <1>7, <1>8, <1>9, <2>1, <2>2, <3>1
  <2>3. CASE j = i
    <3>1. ~(j < i)
      BY <1>4, <2>3
    <3> QED  BY <1>7, <1>8, <2>1, <2>3, <3>1
  <2>4. CASE j > i
    <3>1. j - 1 \in 1..Len(ks) /\ ~(j < i) /\ j # i
      BY <1>3, <1>4, <2>1, <2>4
    <3> QED  BY <1>7, <1>8, <1>9, <2>1, <3>1
  <2> QED  BY <1>4, <2>1, <2>2, <2>3, <2>4
<1>11. ASSUME NEW q PROVE (\E j \in 1..Len(keys) : keys[j] = q) <=> q = k \/ HasKey(n, q)
  <2>1. ASSUME NEW j \in 1..Len(keys), keys[j] = q, q # k PROVE HasKey(n, q)
    <3>1. j \in 1..(Len(ks) + 1) /\ j \in Nat
      BY <1>3, <1>7
    <3>2. CASE j < i
      <4>1. j \in 1..Len(ks) /\ ks[j] = q
        BY <1>3, <1>4, <1>7, <2>1, <3>1, <3>2
      <4> QED  BY <1>2, <4>1 DEF HasKey
    <3>3. CASE ~(j < i)
      <4>1. j # i
        BY <1>7, <2>1, <3>1, <3>3
      <4>2. j - 1 \in 1..Len(ks)
        BY <1>3, <1>4, <3>1, <3>3, <4>1
      <4>3. ks[j - 1] = q
        BY <1>7, <2>1, <3>1, <3>3, <4>1
      <4> QED  BY <1>2, <4>2, <4>3 DEF HasKey
    <3> QED  BY <3>2, <3>3
  <2>2. ASSUME q = k PROVE \E j \in 1..Len(keys) : keys[j] = q
    <3>1. ~(i < i)
      BY <1>4
    <3> QED  BY <1>4, <1>7, <2>2, <3>1
  <2>3. ASSUME HasKey(n, q) PROVE \E j \in 1..Len(keys) : keys[j] = q
    <3>1. PICK j \in 1..Len(ks) : ks[j] = q
      BY <1>2, <2>3 DEF HasKey
    <3>2. CASE j < i
      <4>1. j \in 1..(Len(ks) + 1)
        BY <1>3
      <4> QED  BY <1>7, <3>1, <3>2, <4>1
    <3>3. CASE ~(j < i)
      <4>1. j + 1 \in 1..(Len(ks) + 1) /\ ~(j + 1 < i) /\ j + 1 # i /\ (j + 1) - 1 = j
        BY <1>3, <1>4, <3>3
      <4>2. keys[j + 1] = q
        BY <1>7, <3>1, <4>1
      <4> QED  BY <1>7, <4>1, <4>2
    <3> QED  BY <3>2, <3>3
  <2> QED  BY <2>1, <2>2, <2>3
<1> QED  BY <1>6, <1>10, <1>11 DEF n

LEMMA InsertIntoLeafFound ==
  ASSUME BPTreeInv, CallInv, step = "ready", NEW k \in Key, InsertIntoLeaf(k)
  PROVE  RowsInv' /\ Index!Insert(k)
<1>1. /\ NodesOK /\ TreeOK /\ RowsInv /\ found = [q \in Key |-> Search(q)]
      /\ root # NULL /\ root' = root /\ Missing(k)
  BY DEF BPTreeInv, CallInv, InsertIntoLeaf, Missing
<1>2. PICK n, keys, rows : n = FindLeaf(k) /\ keys = KeysWith(n, k) /\ rows = RowsWith(n, k)
  OBVIOUS
<1>3. WaysMeet /\ SearchValue
  BY <1>1, TreeWaysMeet, TreeSearchValue
<1>4. n \in Allocated /\ node[n].leaf /\ n \in Node /\ node[n] \in TreeNode
  BY <1>1, <1>2, <1>3, NodeFields DEF WaysMeet
<1>5. node' = [node EXCEPT ![n].keys = keys, ![n].rows = rows]
  BY <1>2 DEF InsertIntoLeaf
<1>6. NodesOK' /\ TreeOK'
  BY InsertIntoLeafKeepsTree
<1>7. /\ node'[n].leaf = node[n].leaf /\ node'[n].parent = node[n].parent
      /\ node'[n].keys = keys /\ node'[n].rows = rows
      /\ \A m \in Node : m # n => node'[m] = node[m]
  BY <1>1, <1>4, <1>5 DEF NodesOK, TreeNode
<1>8. \A m \in Allocated : /\ m \in Allocated' /\ node'[m].leaf = node[m].leaf
                           /\ node'[m].parent = node[m].parent
  <2>1. n \in Allocated'
    <3>1. NULL \notin Node
      BY <1>1, OnlyNodes
    <3>2. node'[n] # NULL
      <4>1. node'[n] \in TreeNode
        BY <1>4, <1>5, <1>1, <1>2, LeafWithKey DEF NodesOK, TreeNode, TreeOK
      <4> QED  BY <4>1, NoNode
    <3> QED  BY <1>4, <3>2 DEF Allocated
  <2> QED  BY <1>7, <2>1 DEF Allocated
<1>9. \A m \in Allocated' : m \in Allocated
  BY <1>4, <1>7 DEF Allocated
<1>10. /\ \A j \in 1..Len(keys) : rows[j] = RowOf(keys[j])
       /\ \A q : (\E j \in 1..Len(keys) : keys[j] = q) <=> q = k \/ HasKey(n, q)
  BY <1>1, <1>2, LeafWithRow
<1>11. RowsInv'
  <2> SUFFICES ASSUME NEW m \in Allocated', node'[m].leaf, NEW j \in 1..Len(node'[m].keys)
               PROVE  node'[m].rows[j] = RowOf(node'[m].keys[j])
    BY DEF RowsInv, RowOf
  <2>1. CASE m = n
    BY <1>7, <1>10, <2>1
  <2>2. CASE m # n
    BY <1>1, <1>7, <1>9, <2>2 DEF Allocated, RowsInv
  <2> QED  BY <2>1, <2>2
<1>12. WaysMeet' /\ SearchValue'
  BY <1>6, <1>11, TreeWaysMeet, TreeSearchValue, PTL
<1>13. ASSUME NEW q \in Key PROVE FindLeaf(q)' = FindLeaf(q)
  <2>1. PICK l, P : l = FindLeaf(q) /\ WayDown(P, root, l, q) /\ l \in Allocated /\ node[l].leaf
    BY <1>1, <1>3 DEF WaysMeet
  <2>2. ASSUME NEW m \in P, m # root
        PROVE  /\ node'[m].parent \in P /\ ~node'[node'[m].parent].leaf
               /\ m = Routed(node[m].parent, q)'
    <3>1. /\ node[m].parent \in P /\ ~node[node[m].parent].leaf
          /\ m = Routed(node[m].parent, q) /\ m \in Allocated /\ node[m].parent \in Allocated
      BY <2>1, <2>2 DEF WayDown
    <3>2. node'[m].parent = node[m].parent
      BY <1>8, <3>1
    <3>3. node'[node[m].parent] = node[node[m].parent]
      BY <1>4, <1>7, <3>1 DEF Allocated
    <3> QED  BY <3>1, <3>2, <3>3 DEF Routed
  <2>3. WayDown(P, root, l, q)'
    BY <1>1, <1>8, <2>1, <2>2 DEF WayDown
  <2>4. node'[l].leaf /\ root' # NULL
    BY <1>1, <1>8, <2>1
  <2> QED  BY <1>12, <2>1, <2>3, <2>4 DEF WaysMeet
<1>14. ASSUME NEW q \in Key
       PROVE  /\ found[q] = IF HasKey(FindLeaf(q), q) THEN RowOf(q) ELSE NULL
              /\ Search(q)' = IF HasKey(FindLeaf(q), q) \/ q = k THEN RowOf(q) ELSE NULL
  <2>1. PICK l : l = FindLeaf(q) /\ l = FindLeaf(q)' /\ l \in Allocated
    BY <1>1, <1>3, <1>13 DEF WaysMeet
  <2>2. found[q] = IF HasKey(l, q) THEN RowOf(q) ELSE NULL
    BY <1>1, <1>3, <2>1 DEF SearchValue
  <2>3. Search(q)' = IF HasKey(l, q)' THEN RowOf(q) ELSE NULL
    BY <1>1, <1>12, <2>1 DEF SearchValue, RowOf
  <2>4. HasKey(l, q)' <=> HasKey(l, q) \/ q = k
    <3>1. CASE l = n
      BY <1>7, <1>10, <3>1 DEF HasKey
    <3>2. CASE l # n
      <4>1. q # k
        BY <1>2, <2>1, <3>2
      <4> QED  BY <1>7, <2>1, <3>2, <4>1 DEF HasKey, Allocated
    <3> QED  BY <3>1, <3>2
  <2> QED  BY <2>1, <2>2, <2>3, <2>4
<1>15. found[k] = NULL
  BY <1>1 DEF Missing
<1>16. found' = [q \in Key |-> Search(q)'] /\ UNCHANGED failures
  BY DEF InsertIntoLeaf, Accept, Return
<1> DEFINE S == { q \in Key : HasKey(FindLeaf(q), q) }
<1>17. /\ \A q \in Key : found[q] = IF q \in S THEN RowOf(q) ELSE NULL
       /\ \A q \in Key : Search(q)' = IF q \in S \/ q = k THEN RowOf(q) ELSE NULL
       /\ found = [q \in Key |-> found[q]]
  BY <1>1, <1>14
<1> HIDE DEF S
<1>18. Index!Insert(k)
  BY <1>15, <1>16, <1>17, OneMoreFound
<1> QED  BY <1>11, <1>18

\* The keys of a front and of a back part, with their rows.
LEMMA FrontKeys ==
  ASSUME NEW keys \in Seq(Key), NEW rows \in Seq(Nat), Len(rows) = Len(keys),
         \A j \in 1..Len(keys) : rows[j] = RowOf(keys[j]), NEW h \in 0..Len(keys)
  PROVE  LET front == SubSeq(keys, 1, h)
         IN /\ \A j \in 1..Len(front) : SubSeq(rows, 1, h)[j] = RowOf(front[j])
            /\ \A q : (\E j \in 1..Len(front) : front[j] = q) <=> \E j \in 1..h : keys[j] = q
<1>1. PICK front, slots : front = SubSeq(keys, 1, h) /\ slots = SubSeq(rows, 1, h)
  OBVIOUS
<1>2. Len(keys) \in Nat /\ \A j \in 1..h : j \in 1..Len(keys)
  BY LenProperties
<1>3. Len(front) = h /\ \A j \in 1..h : front[j] = keys[j]
  BY <1>1, FrontPart
<1>4. \A j \in 1..h : slots[j] = rows[j]
  BY <1>1, FrontPart
<1> QED  BY <1>1, <1>2, <1>3, <1>4

LEMMA BackKeys ==
  ASSUME NEW keys \in Seq(Key), NEW rows \in Seq(Nat), Len(rows) = Len(keys),
         \A j \in 1..Len(keys) : rows[j] = RowOf(keys[j]), NEW i \in 1..(Len(keys) + 1)
  PROVE  LET back == SubSeq(keys, i, Len(keys))
         IN /\ \A j \in 1..Len(back) : SubSeq(rows, i, Len(rows))[j] = RowOf(back[j])
            /\ \A q : (\E j \in 1..Len(back) : back[j] = q) <=> \E j \in i..Len(keys) : keys[j] = q
<1>1. PICK back, slots, n : back = SubSeq(keys, i, Len(keys)) /\ slots = SubSeq(rows, i, Len(rows))
                            /\ n = Len(keys) - i + 1
  OBVIOUS
<1>2. Len(keys) \in Nat /\ n \in Nat
  BY <1>1, LenProperties
<1>3. Len(back) = n /\ \A j \in 1..n : back[j] = keys[i + j - 1]
  BY <1>1, BackPart
<1>4. \A j \in 1..n : slots[j] = rows[i + j - 1]
  BY <1>1, BackPart
<1>5. \A j \in 1..n : i + j - 1 \in i..Len(keys) /\ i + j - 1 \in 1..Len(keys)
  BY <1>1, <1>2
<1>6. \A j \in i..Len(keys) : j - i + 1 \in 1..n /\ i + (j - i + 1) - 1 = j
  BY <1>1, <1>2
<1>7. \A j \in 1..n : slots[j] = RowOf(back[j])
  BY <1>3, <1>4, <1>5
<1>8. ASSUME NEW q PROVE (\E j \in 1..n : back[j] = q) <=> \E j \in i..Len(keys) : keys[j] = q
  <2>1. ASSUME NEW j \in 1..n, back[j] = q PROVE \E l \in i..Len(keys) : keys[l] = q
    BY <1>3, <1>5, <2>1
  <2>2. ASSUME NEW j \in i..Len(keys), keys[j] = q PROVE \E l \in 1..n : back[l] = q
    <3>1. back[j - i + 1] = keys[j] /\ j - i + 1 \in 1..n
      BY <1>3, <1>6
    <3> QED  BY <2>2, <3>1
  <2> QED  BY <2>1, <2>2
<1> QED  BY <1>1, <1>3, <1>7, <1>8

\* The call is announced: the new key is in a half of its leaf.
LEMMA SplitLeafFound ==
  ASSUME BPTreeInv, CallInv, step = "ready", NEW k \in Key, SplitLeaf(k)
  PROVE  CallInv'
<1>1. /\ NodesOK /\ TreeOK /\ RowsInv /\ found = [q \in Key |-> Search(q)]
      /\ root # NULL /\ root' = root /\ found' = found /\ Missing(k)
      /\ step' = "parent" /\ inserting' = k
  BY DEF BPTreeInv, CallInv, SplitLeaf, Missing
<1>2. PICK n, keys, rows, h :
        n = FindLeaf(k) /\ keys = KeysWith(n, k) /\ rows = RowsWith(n, k) /\ h = Half(keys)
  OBVIOUS
<1>3. WaysMeet /\ SearchValue
  BY <1>1, TreeWaysMeet, TreeSearchValue
<1>4. n \in Allocated /\ node[n].leaf /\ n \in Node /\ node[n] \in TreeNode
  BY <1>1, <1>2, <1>3, NodeFields DEF WaysMeet
<1>5. PICK s : s = keys[h + 1]
  OBVIOUS
<1>6. PICK new \in Node :
        /\ Full(n) /\ Fresh(new)
        /\ node' = [node EXCEPT
             ![n] = Leaf(SubSeq(keys, 1, h), SubSeq(rows, 1, h), @.parent, new),
             ![new] = Leaf(SubSeq(keys, h + 1, Len(keys)), SubSeq(rows, h + 1, Len(rows)),
                           node[n].parent, node[n].next)]
        /\ split' = [left |-> n, key |-> s, right |-> new]
  BY <1>2, <1>5 DEF SplitLeaf
<1>7. NodesOK' /\ TreeOK'
  BY SplitLeafKeepsTree
<1>8. n # new /\ new \notin Allocated
  BY <1>4, <1>6 DEF Fresh, Allocated
<1>9. /\ node'[n].leaf /\ node'[n].keys = SubSeq(keys, 1, h) /\ node'[n].rows = SubSeq(rows, 1, h)
      /\ node'[n].parent = node[n].parent
      /\ node'[new].leaf /\ node'[new].keys = SubSeq(keys, h + 1, Len(keys))
      /\ node'[new].rows = SubSeq(rows, h + 1, Len(rows)) /\ node'[new].parent = node[n].parent
      /\ \A m \in Node : m # n /\ m # new => node'[m] = node[m]
  BY <1>1, <1>4, <1>6, <1>8 DEF NodesOK, Leaf
<1>10. \A m \in Allocated' : m = new \/ m \in Allocated
  BY <1>4, <1>9 DEF Allocated
<1>11. /\ keys \in Seq(Key) /\ Len(keys) = MaxKeys + 1 /\ Ascending(keys)
       /\ rows \in Seq(Nat) /\ Len(rows) = Len(keys)
  BY <1>1, <1>2, <1>6, LeafWithKey DEF TreeOK, Full
<1>12. /\ \A j \in 1..Len(keys) : rows[j] = RowOf(keys[j])
       /\ \A q : (\E j \in 1..Len(keys) : keys[j] = q) <=> q = k \/ HasKey(n, q)
  BY <1>1, <1>2, LeafWithRow
<1>13. /\ h \in Nat /\ 1 <= h /\ h + 1 <= Len(keys)
       /\ s \in Key /\ keys[1] \in Key /\ keys[1] < s
       /\ \A j \in 1..h : keys[j] < s
       /\ \A j \in (h + 1)..Len(keys) : s <= keys[j]
       /\ Len(keys) \in Nat /\ \A j \in 1..Len(keys) : keys[j] \in Nat
  BY <1>2, <1>5, <1>11, Halves
<1>14. h \in 0..Len(keys) /\ h + 1 \in 1..(Len(keys) + 1)
  BY <1>13
<1>15. /\ \A j \in 1..Len(node'[n].keys) : node'[n].rows[j] = RowOf(node'[n].keys[j])
       /\ \A q : HasKey(n, q)' <=> \E j \in 1..h : keys[j] = q
  <2>1. LET front == SubSeq(keys, 1, h)
        IN /\ \A j \in 1..Len(front) : SubSeq(rows, 1, h)[j] = RowOf(front[j])
           /\ \A q : (\E j \in 1..Len(front) : front[j] = q) <=> \E j \in 1..h : keys[j] = q
    <3>1. /\ keys \in Seq(Key) /\ rows \in Seq(Nat) /\ Len(rows) = Len(keys)
          /\ \A j \in 1..Len(keys) : rows[j] = RowOf(keys[j])
          /\ h \in 0..Len(keys)
      BY <1>11, <1>12, <1>14
    <3> QED  BY <3>1, FrontKeys
  <2>2. PICK front, slots : front = SubSeq(keys, 1, h) /\ slots = SubSeq(rows, 1, h)
    OBVIOUS
  <2>3. node'[n].keys = front /\ node'[n].rows = slots
    BY <1>9, <2>2
  <2>4. /\ \A j \in 1..Len(front) : slots[j] = RowOf(front[j])
        /\ \A q : (\E j \in 1..Len(front) : front[j] = q) <=> \E j \in 1..h : keys[j] = q
    BY <2>1, <2>2
  <2>5. ASSUME NEW q PROVE HasKey(n, q)' <=> \E j \in 1..Len(front) : front[j] = q
    BY <2>3 DEF HasKey
  <2> QED  BY <2>3, <2>4, <2>5
<1>16. /\ \A j \in 1..Len(node'[new].keys) : node'[new].rows[j] = RowOf(node'[new].keys[j])
       /\ \A q : HasKey(new, q)' <=> \E j \in (h + 1)..Len(keys) : keys[j] = q
  <2>1. PICK i : i = h + 1
    OBVIOUS
  <2>2. LET back == SubSeq(keys, i, Len(keys))
        IN /\ \A j \in 1..Len(back) : SubSeq(rows, i, Len(rows))[j] = RowOf(back[j])
           /\ \A q : (\E j \in 1..Len(back) : back[j] = q) <=> \E j \in i..Len(keys) : keys[j] = q
    <3>1. /\ keys \in Seq(Key) /\ rows \in Seq(Nat) /\ Len(rows) = Len(keys)
          /\ \A j \in 1..Len(keys) : rows[j] = RowOf(keys[j])
          /\ i \in 1..(Len(keys) + 1)
      BY <1>11, <1>12, <1>14, <2>1
    <3> QED  BY <3>1, BackKeys
  <2>3. PICK back, slots : back = SubSeq(keys, i, Len(keys)) /\ slots = SubSeq(rows, i, Len(rows))
    OBVIOUS
  <2>4. node'[new].keys = back /\ node'[new].rows = slots
    BY <1>9, <2>1, <2>3
  <2>5. /\ \A j \in 1..Len(back) : slots[j] = RowOf(back[j])
        /\ \A q : (\E j \in 1..Len(back) : back[j] = q) <=> \E j \in i..Len(keys) : keys[j] = q
    BY <2>2, <2>3
  <2>6. ASSUME NEW q PROVE HasKey(new, q)' <=> \E j \in 1..Len(back) : back[j] = q
    BY <2>4 DEF HasKey
  <2> QED  BY <2>1, <2>4, <2>5, <2>6
<1>17. RowsInv'
  <2> SUFFICES ASSUME NEW m \in Allocated', node'[m].leaf, NEW j \in 1..Len(node'[m].keys)
               PROVE  node'[m].rows[j] = RowOf(node'[m].keys[j])
    BY DEF RowsInv, RowOf
  <2>1. CASE m # n /\ m # new
    BY <1>1, <1>9, <1>10, <2>1 DEF Allocated, RowsInv
  <2> QED  BY <1>15, <1>16, <2>1
<1>18. s > 1
  BY <1>13 DEF Key
<1>19. \A q \in Key : found[q] = (IF HasKey(FindLeaf(q), q) THEN RowOf(q) ELSE NULL) /\ RowOf(q) # NULL
  BY <1>1, <1>3 DEF SearchValue
<1>20. found[k] = NULL
  BY <1>1 DEF Missing
\* The way a search would go is the old one, with the new leaf for the old one if
\* it turns there.
<1>21. ASSUME NEW q \in Key, NEW m PROVE Turned(m, q)' = IF m = n /\ s <= q THEN new ELSE m
  BY <1>1, <1>6 DEF Turned
<1>22. ASSUME NEW q \in Key, NEW l, LinkedEnd(l, q)'
       PROVE  /\ l \in Allocated \cup {new}
              /\ FindLeaf(q) = IF l = new THEN n ELSE l
              /\ l = new => s <= q
              /\ l = n => ~(s <= q)
  <2>1. PICK P : LinkedWay(P, l, q)'
    BY <1>22 DEF LinkedEnd
  <2>2. /\ P \subseteq Allocated' /\ Turned(root, q)' \in P /\ l \in P
        /\ \A m \in P : \/ m = Turned(root, q)'
                        \/ /\ node'[m].parent \in P /\ ~node'[node'[m].parent].leaf
                           /\ m = Turned(Routed(node[m].parent, q), q)'
    BY <2>1 DEF LinkedWay
  <2>3. root \in Allocated
    BY <1>1 DEF TreeOK, TreeInv
  <2> DEFINE Old(m) == IF m = new THEN n ELSE m
             Q == { m \in Allocated : m = root \/ m \in P \/ (m = n /\ new \in P) }
  \* What a node of the new way is, seen from the old one.
  <2>4. ASSUME NEW m \in P
        PROVE  /\ \/ Old(m) = root
                  \/ /\ node[Old(m)].parent \in Q /\ ~node[node[Old(m)].parent].leaf
                     /\ Old(m) = Routed(node[Old(m)].parent, q)
               /\ m = new => s <= q
               /\ m = n => ~(s <= q)
               /\ Old(m) \in Q
    <3>1. CASE m = Turned(root, q)'
      <4>1. m = IF root = n /\ s <= q THEN new ELSE root
        BY <1>1, <1>21, <3>1 DEF Turned
      <4> QED  BY <1>4, <1>8, <2>3, <4>1
    <3>2. CASE m # Turned(root, q)'
      <4>0. PICK p : p = node'[m].parent
        OBVIOUS
      <4>1. p \in P /\ ~node'[p].leaf /\ m = Turned(Routed(p, q), q)'
        <5>1. m = Turned(Routed(node[m].parent, q), q)'
          BY <2>2, <3>2
        <5>2. Routed(node[m].parent, q)' = Routed(p, q)'
          BY <4>0 DEF Routed
        <5>3. m = Turned(Routed(p, q), q)'
          BY <5>1, <5>2 DEF Turned
        <5> QED  BY <2>2, <3>2, <4>0, <5>3
      <4>2. node[Old(m)].parent = p
        <5>1. CASE m = new
          BY <1>9, <4>0, <5>1
        <5>2. CASE m = n
          BY <1>8, <1>9, <4>0, <5>2
        <5>3. CASE m # new /\ m # n
          <6>1. m \in Node
            BY <2>2 DEF Allocated
          <6> QED  BY <1>9, <4>0, <5>3, <6>1
        <5> QED  BY <5>1, <5>2, <5>3
      <4>3. p \in Allocated /\ p # n /\ p # new /\ node'[p] = node[p] /\ p \in Q
        <5>1. p \in Allocated' /\ p # n /\ p # new
          BY <1>9, <2>2, <4>1
        <5> QED  BY <1>9, <1>10, <4>1, <5>1 DEF Allocated
      <4>4. PICK c : c = Routed(p, q)
        OBVIOUS
      <4>5. c \in Allocated /\ ~node[p].leaf
        BY <1>1, <4>1, <4>3, <4>4, RoutedKid DEF TreeOK, TreeInv
      <4>6. m = IF c = n /\ s <= q THEN new ELSE c
        <5>1. c = Routed(p, q)'
          BY <4>3, <4>4 DEF Routed
        <5> QED  BY <1>1, <1>6, <4>1, <5>1 DEF Turned
      <4>7. Old(m) = c
        BY <1>8, <4>5, <4>6
      <4>8. Old(m) \in Q
        <5>1. m \in P
          OBVIOUS
        <5> QED  BY <4>5, <4>6, <4>7, <5>1
      <4>9. (m = new => s <= q) /\ (m = n => ~(s <= q))
        BY <1>8, <4>5, <4>6
      <4> HIDE DEF Q, Old
      <4> QED  BY <4>2, <4>3, <4>4, <4>5, <4>7, <4>8, <4>9
    <3> QED  BY <3>1, <3>2
  <2>5. l \in P /\ l \in Allocated'
    BY <2>2
  <2>6. Old(l) \in Allocated /\ node[Old(l)].leaf /\ Old(l) \in Q
    <3>1. node'[l].leaf
      BY <1>22 DEF LinkedEnd
    <3>2. CASE l = new \/ l = n
      BY <1>4, <2>4, <2>5, <3>2
    <3>3. CASE l # new /\ l # n
      <4>1. l \in Allocated /\ node'[l] = node[l]
        BY <1>9, <1>10, <2>5, <3>3 DEF Allocated
      <4> QED  BY <2>5, <3>1, <3>3, <4>1
    <3> QED  BY <3>2, <3>3
  <2>7. WayDown(Q, root, Old(l), q)
    <3>1. Q \subseteq Allocated /\ root \in Q
      BY <2>3
    <3>2. ASSUME NEW m \in Q
          PROVE  \/ m = root
                 \/ /\ node[m].parent \in Q /\ ~node[node[m].parent].leaf
                    /\ m = Routed(node[m].parent, q)
      <4>1. CASE m = root
        BY <4>1
      <4>2. CASE m \in P
        <5>1. Old(m) = m
          BY <1>8
        <5> HIDE DEF Q, Old
        <5> QED  BY <2>4, <4>2, <5>1
      <4>3. CASE m = n /\ new \in P
        <5>1. Old(new) = m
          BY <4>3
        <5> HIDE DEF Q, Old
        <5> QED  BY <2>4, <4>3, <5>1
      <4> QED  BY <4>1, <4>2, <4>3
    <3> HIDE DEF Q, Old
    <3> QED  BY <2>6, <3>1, <3>2 DEF WayDown
  <2>8. Old(l) = FindLeaf(q)
    <3> HIDE DEF Q, Old
    <3> QED  BY <1>1, <1>3, <2>6, <2>7 DEF WaysMeet
  <2>9. (l = new => s <= q) /\ (l = n => ~(s <= q))
    <3> HIDE DEF Q, Old
    <3> QED  BY <2>4, <2>5
  <2> QED  BY <1>10, <2>5, <2>8, <2>9
<1>23. ASSUME NEW q \in Key, NEW l, LinkedEnd(l, q)'
       PROVE  HasKey(l, q)' <=> q = k \/ found[q] # NULL
  <2>1. /\ l \in Allocated \cup {new}
        /\ FindLeaf(q) = IF l = new THEN n ELSE l
        /\ l = new => s <= q
        /\ l = n => ~(s <= q)
    BY <1>22, <1>23
  <2>2. q \in Nat /\ s \in Nat
    BY <1>13 DEF Key
  <2>3. found[q] # NULL <=> HasKey(FindLeaf(q), q)
    BY <1>19
  <2>4. CASE l = new
    <3>1. (\E j \in (h + 1)..Len(keys) : keys[j] = q) <=> \E j \in 1..Len(keys) : keys[j] = q
      <4>1. ASSUME NEW j \in 1..Len(keys), keys[j] = q PROVE j \in (h + 1)..Len(keys)
        <5>1. j \notin 1..h
          BY <1>13, <2>1, <2>2, <2>4, <4>1
        <5> QED  BY <1>13, <5>1
      <4>2. \A j \in (h + 1)..Len(keys) : j \in 1..Len(keys)
        BY <1>13
      <4> QED  BY <4>1, <4>2
    <3> QED  BY <1>12, <1>16, <2>1, <2>3, <2>4, <3>1
  <2>5. CASE l = n
    <3>1. (\E j \in 1..h : keys[j] = q) <=> \E j \in 1..Len(keys) : keys[j] = q
      <4>1. ASSUME NEW j \in 1..Len(keys), keys[j] = q PROVE j \in 1..h
        <5>1. j \notin (h + 1)..Len(keys)
          BY <1>13, <2>1, <2>2, <2>5, <4>1
        <5> QED  BY <1>13, <5>1
      <4>2. \A j \in 1..h : j \in 1..Len(keys)
        BY <1>13
      <4> QED  BY <4>1, <4>2
    <3> QED  BY <1>8, <1>12, <1>15, <2>1, <2>3, <2>5, <3>1
  <2>6. CASE l # new /\ l # n
    <3>1. l = FindLeaf(q) /\ q # k
      BY <1>2, <2>1, <2>6
    <3>2. node'[l] = node[l]
      BY <1>9, <2>1, <2>6 DEF Allocated
    <3> QED  BY <2>3, <3>1, <3>2 DEF HasKey
  <2> QED  BY <2>4, <2>5, <2>6
<1>24. \A q \in Key : found'[q] \in {NULL, RowOf(q)}
  BY <1>1, <1>19
<1> QED  BY <1>1, <1>6, <1>17, <1>18, <1>20, <1>23, <1>24 DEF CallInv, RowOf

\* A call that links the split finds what it announced.
LEMMA LinkedFound ==
  ASSUME BPTreeInv, CallInv, step = "parent", Return, UNCHANGED failures,
         NodesOK', TreeOK', RowsInv', root' # NULL,
         \A q \in Key : HasKey(FindLeaf(q), q)' <=> q = inserting \/ found[q] # NULL
  PROVE  Index!Insert(inserting)
<1>1. inserting \in Key /\ found = [q \in Key |-> found[q]]
  BY DEF BPTreeInv, TypeOK, TreeOK, TreeInv, SplitInv
<1>2. found[inserting] = NULL /\ \A q \in Key : found[q] \in {NULL, RowOf(q)}
  BY DEF CallInv
<1>3. WaysMeet' /\ SearchValue'
  BY TreeWaysMeet, TreeSearchValue, PTL
<1> DEFINE S == { q \in Key : found[q] # NULL }
<1>4. ASSUME NEW q \in Key PROVE Search(q)' = IF q \in S \/ q = inserting THEN RowOf(q) ELSE NULL
  <2>1. Search(q)' = IF HasKey(FindLeaf(q), q)' THEN RowOf(q) ELSE NULL
    BY <1>3 DEF SearchValue, RowOf
  <2>2. HasKey(FindLeaf(q), q)' <=> q \in S \/ q = inserting
    OBVIOUS
  <2> QED  BY <2>1, <2>2
<1>5. \A q \in Key : found[q] = IF q \in S THEN RowOf(q) ELSE NULL
  BY <1>2
<1>6. found' = [q \in Key |-> Search(q)']
  BY DEF Return
<1> HIDE DEF S
<1> QED  BY <1>1, <1>2, <1>4, <1>5, <1>6, OneMoreFound

\* The leaf a search ends in, once the split is linked under a new root.
LEMMA NewRootFound ==
  ASSUME BPTreeInv, CallInv, NewRoot
  PROVE  RowsInv' /\ Index!Insert(inserting)
<1>1. /\ NodesOK /\ TreeOK /\ RowsInv /\ step = "parent" /\ Return /\ UNCHANGED failures
  BY DEF BPTreeInv, CallInv, NewRoot, Accept
<1>2. PICK top, height, below : TreeInv(top, height, below)
  BY <1>1 DEF TreeOK
<1>3. PICK left, right, s : left = split.left /\ right = split.right /\ s = split.key
  OBVIOUS
<1>4. /\ s \in Key /\ s \in Nat
      /\ left \in Allocated /\ right \in Allocated /\ left # right
      /\ node[left].parent = NULL /\ node[right].parent = NULL
      /\ left \in Node /\ right \in Node
  BY <1>1, <1>2, <1>3 DEF TreeInv, SplitInv, NewRoot, Parent, Key, Allocated
<1>5. left = root
  <2>1. PICK U : left \in U /\ Attached(U)
    BY <1>1, <1>2, <1>3 DEF TreeInv, SplitInv
  <2>2. NULL \notin Allocated
    BY <1>1, OnlyNodes DEF Allocated
  <2> QED  BY <1>4, <2>1, <2>2 DEF Attached
<1>6. PICK n \in Node :
        /\ Fresh(n)
        /\ node' = [node EXCEPT ![n] = Internal(<<s>>, <<left, right>>, NULL),
                                ![left].parent = n, ![right].parent = n]
        /\ root' = n
  BY <1>3 DEF NewRoot
<1>7. NodesOK' /\ TreeOK'
  BY NewRootKeepsTree
<1>8. n \notin Allocated /\ n # left /\ n # right /\ n # NULL
  BY <1>1, <1>4, <1>6, OnlyNodes DEF Fresh, Allocated
<1>9. /\ ~node'[n].leaf /\ node'[n].keys = <<s>> /\ node'[n].kids = <<left, right>>
      /\ node'[left] = [node[left] EXCEPT !.parent = n]
      /\ node'[right] = [node[right] EXCEPT !.parent = n]
      /\ \A m \in Node : m # n /\ m # left /\ m # right => node'[m] = node[m]
  BY <1>1, <1>4, <1>6, <1>8 DEF NodesOK, Internal
<1>10. \A m \in Allocated :
         /\ m \in Node /\ m # n /\ node'[m].leaf = node[m].leaf /\ node'[m].keys = node[m].keys
         /\ node'[m].kids = node[m].kids /\ node'[m].rows = node[m].rows
         /\ node'[m].parent = IF m = left \/ m = right THEN n ELSE node[m].parent
  <2> SUFFICES ASSUME NEW m \in Allocated PROVE
         /\ m \in Node /\ m # n /\ node'[m].leaf = node[m].leaf /\ node'[m].keys = node[m].keys
         /\ node'[m].kids = node[m].kids /\ node'[m].rows = node[m].rows
         /\ node'[m].parent = IF m = left \/ m = right THEN n ELSE node[m].parent
    OBVIOUS
  <2>1. m \in Node /\ m # n /\ node[m] \in TreeNode
    BY <1>1, <1>8, NodeFields
  <2>2. CASE m = left
    BY <1>9, <2>1, <2>2 DEF TreeNode
  <2>3. CASE m = right
    BY <1>9, <2>1, <2>3 DEF TreeNode
  <2>4. CASE m # left /\ m # right
    BY <1>9, <2>1, <2>4
  <2> QED  BY <2>2, <2>3, <2>4
<1>11. \A m \in Allocated' : m = n \/ m \in Allocated
  BY <1>4, <1>9 DEF Allocated
<1>12. RowsInv'
  <2> SUFFICES ASSUME NEW m \in Allocated', node'[m].leaf, NEW j \in 1..Len(node'[m].keys)
               PROVE  node'[m].rows[j] = RowOf(node'[m].keys[j])
    BY DEF RowsInv, RowOf
  <2>1. m \in Allocated
    BY <1>9, <1>11
  <2> QED  BY <1>1, <1>10, <2>1 DEF RowsInv
<1>13. WaysMeet'
  BY <1>7, TreeWaysMeet, PTL
<1>14. ASSUME NEW q \in Key PROVE Routed(n, q)' = IF s <= q THEN right ELSE left
  <2>1. PICK ks, cs : ks = <<s>> /\ cs = <<left, right>>
    OBVIOUS
  <2>2. ks \in Seq(Nat) /\ Len(ks) = 1 /\ ks[1] = s /\ q \in Nat /\ cs[1] = left /\ cs[2] = right
    BY <1>4, <2>1 DEF Key
  <2>3. ChildIndex(ks, q) = IF s <= q THEN 2 ELSE 1
    <3>1. Ascending(ks)
      BY <2>2 DEF Ascending
    <3>2. CASE s <= q
      <4>1. 2 \in 1..(Len(ks) + 1) /\ 2 - 1 = 1 /\ ~(2 <= Len(ks))
        BY <2>2
      <4> QED  BY <2>2, <3>1, <3>2, <4>1, ChildIndexIs
    <3>3. CASE ~(s <= q)
      <4>1. 1 \in 1..(Len(ks) + 1) /\ q < s /\ ~(1 > 1)
        BY <1>4, <2>2, <3>3
      <4> QED  BY <2>2, <3>1, <3>3, <4>1, ChildIndexIs
    <3> QED  BY <3>2, <3>3
  <2>4. Routed(n, q)' = cs[ChildIndex(ks, q)]
    BY <1>9, <2>1 DEF Routed
  <2> QED  BY <2>2, <2>3, <2>4
<1>15. ASSUME NEW q \in Key
       PROVE  HasKey(FindLeaf(q), q)' <=> q = inserting \/ found[q] # NULL
  <2>1. root' # NULL
    BY <1>6, <1>8
  <2>2. PICK l, P : l = FindLeaf(q)' /\ l \in Allocated' /\ node'[l].leaf /\ WayDown(P, root, l, q)'
    BY <1>13, <2>1 DEF WaysMeet
  <2>3. l \in Allocated /\ node[l].leaf
    BY <1>9, <1>10, <1>11, <2>2
  <2>4. PICK a : a = Turned(root, q)
    OBVIOUS
  <2>5. a = (IF s <= q THEN right ELSE left) /\ a \in Allocated
    BY <1>1, <1>3, <1>4, <1>5, <2>4 DEF Turned
  <2>6. PICK Q : Q = (P \ {n}) \cup {a}
    OBVIOUS
  <2>7. Q \subseteq Allocated /\ a \in Q /\ l \in Q
    <3>1. P \subseteq Allocated' /\ l \in P
      BY <2>2 DEF WayDown
    <3> QED  BY <1>8, <1>11, <2>3, <2>5, <2>6, <3>1
  <2>8. ASSUME NEW m \in Q, m # a
        PROVE  /\ node[m].parent \in Q /\ ~node[node[m].parent].leaf
               /\ m = Turned(Routed(node[m].parent, q), q)
    <3>1. m \in P /\ m # n /\ m \in Allocated
      BY <2>6, <2>7, <2>8
    <3>2. PICK p : p = node'[m].parent
      OBVIOUS
    <3>3. p \in P /\ ~node'[p].leaf /\ m = Routed(p, q)'
      BY <1>6, <2>2, <3>1, <3>2 DEF WayDown
    <3>4. p # n
      BY <1>14, <2>5, <2>8, <3>3
    <3>5. m # left /\ m # right /\ node[m].parent = p
      BY <1>10, <3>1, <3>2, <3>4
    <3>6. p \in Allocated /\ p \in Q
      BY <1>11, <2>2, <2>6, <3>3, <3>4 DEF WayDown
    <3>7. ~node[p].leaf /\ m = Routed(p, q)
      BY <1>10, <3>3, <3>6 DEF Routed
    <3>8. Turned(m, q) = m
      BY <1>3, <3>5 DEF Turned
    <3> QED  BY <3>5, <3>6, <3>7, <3>8
  <2>9. LinkedWay(Q, l, q)
    BY <2>4, <2>7, <2>8 DEF LinkedWay
  <2>10. LinkedEnd(l, q)
    BY <2>3, <2>9 DEF LinkedEnd
  <2>11. HasKey(l, q) <=> q = inserting \/ found[q] # NULL
    BY <1>1, <2>10 DEF CallInv
  <2>12. HasKey(l, q)' <=> HasKey(l, q)
    BY <1>10, <2>3 DEF HasKey
  <2> QED  BY <2>2, <2>11, <2>12
<1>16. root' # NULL
  BY <1>6, <1>8
<1>17. Index!Insert(inserting)
  BY <1>1, <1>7, <1>12, <1>15, <1>16, LinkedFound
<1> QED  BY <1>12, <1>17

\* The places of the parent with those of the split.
LEMMA ParentPlaces ==
  ASSUME NodesOK, NEW top, NEW height, NEW below, TreeInv(top, height, below),
         step = "parent", Parent # NULL
  PROVE  LET ks == node[Parent].keys
             cs == node[Parent].kids
             i == LeftIndex
         IN /\ Len(ParentKeys) = Len(ks) + 1 /\ Len(ParentKids) = Len(ks) + 2
            /\ \A j \in 1..(Len(ks) + 1) :
                 ParentKeys[j] = IF j < i THEN ks[j] ELSE IF j = i THEN split.key ELSE ks[j - 1]
            /\ \A j \in 1..(Len(ks) + 2) :
                 ParentKids[j] = IF j < i + 1 THEN cs[j]
                                 ELSE IF j = i + 1 THEN split.right ELSE cs[j - 1]
<1>1. PICK left, right, s, p, i :
        left = split.left /\ right = split.right /\ s = split.key /\ p = Parent /\ i = LeftIndex
  OBVIOUS
<1>2. PICK ks, cs : ks = node[p].keys /\ cs = node[p].kids
  OBVIOUS
<1>3. p \in Allocated /\ ~node[p].leaf /\ i \in 1..Len(cs)
  BY <1>1, <1>2, LeftPlace
<1>4. /\ ks \in Seq(Key) /\ cs \in Seq(Node)
      /\ Len(ks) \in Nat /\ Len(cs) = Len(ks) + 1
  BY <1>2, <1>3, NodeFields
<1>5. s \in Key /\ right \in Node
  BY <1>1 DEF TreeInv, SplitInv, Allocated
<1>6. PICK ks2, cs2 : ks2 = ParentKeys /\ cs2 = ParentKids
  OBVIOUS
<1>7. Len(ks2) = Len(ks) + 1 /\ Len(cs2) = Len(ks) + 2
  <2>1. Grown(p, ks2, cs2, height, below) /\ Len(ks2) = Len(ks) + 1
    BY <1>1, <1>2, <1>6, ParentGrown
  <2> QED  BY <1>4, <2>1 DEF Grown
<1>8. \A j \in 1..(Len(ks) + 1) :
        ks2[j] = IF j < i THEN ks[j] ELSE IF j = i THEN s ELSE ks[j - 1]
  <2>1. i \in 1..(Len(ks) + 1) /\ ks2 = InsertAt(ks, i, s)
    BY <1>1, <1>2, <1>3, <1>4, <1>6 DEF ParentKeys
  <2>2. /\ InsertAt(ks, i, s) \in Seq(Key) /\ Len(InsertAt(ks, i, s)) = Len(ks) + 1
        /\ \A j \in 1..(Len(ks) + 1) :
             InsertAt(ks, i, s)[j] = IF j < i THEN ks[j] ELSE IF j = i THEN s ELSE ks[j - 1]
    <3>1. ks \in Seq(Key) /\ s \in Key /\ i \in 1..(Len(ks) + 1)
      BY <1>4, <1>5, <2>1
    <3> QED  BY <3>1, InsertedAt
  <2> QED  BY <2>1, <2>2
<1>9. \A j \in 1..(Len(ks) + 2) :
        cs2[j] = IF j < i + 1 THEN cs[j] ELSE IF j = i + 1 THEN right ELSE cs[j - 1]
  <2>1. PICK a : a = i + 1
    OBVIOUS
  <2>2. a \in 1..(Len(cs) + 1) /\ cs2 = InsertAt(cs, a, right)
    BY <1>1, <1>2, <1>3, <1>4, <1>6, <2>1 DEF ParentKids
  <2>3. /\ InsertAt(cs, a, right) \in Seq(Node) /\ Len(InsertAt(cs, a, right)) = Len(cs) + 1
        /\ \A j \in 1..(Len(cs) + 1) :
             InsertAt(cs, a, right)[j] =
               IF j < a THEN cs[j] ELSE IF j = a THEN right ELSE cs[j - 1]
    <3>1. cs \in Seq(Node) /\ right \in Node /\ a \in 1..(Len(cs) + 1)
      BY <1>4, <1>5, <2>2
    <3> QED  BY <3>1, InsertedAt
  <2>4. PICK t : t = InsertAt(cs, a, right)
    OBVIOUS
  <2>5. \A j \in 1..(Len(ks) + 2) :
          t[j] = IF j < a THEN cs[j] ELSE IF j = a THEN right ELSE cs[j - 1]
    <3>1. Len(cs) + 1 = Len(ks) + 2
      BY <1>4
    <3> QED  BY <2>3, <2>4, <3>1
  <2> QED  BY <2>1, <2>2, <2>4, <2>5
<1> QED  BY <1>1, <1>2, <1>6, <1>7, <1>8, <1>9

\* With the split in the parent a search goes down there as it would turn before.
LEMMA GrownRoutes ==
  ASSUME NodesOK, TreeOK, step = "parent", Parent # NULL, NEW k \in Key
  PROVE  /\ ChildIndex(ParentKeys, k) \in 1..Len(ParentKids)
         /\ ParentKids[ChildIndex(ParentKeys, k)] = Turned(Routed(Parent, k), k)
<1>1. PICK top, height, below : TreeInv(top, height, below)
  BY DEF TreeOK
<1>2. PICK left, right, s, p, i :
        left = split.left /\ right = split.right /\ s = split.key /\ p = Parent /\ i = LeftIndex
  OBVIOUS
<1>3. PICK ks, cs : ks = node[p].keys /\ cs = node[p].kids
  OBVIOUS
<1>4. p \in Allocated /\ ~node[p].leaf /\ i \in 1..Len(cs) /\ cs[i] = left
  BY <1>1, <1>2, <1>3, LeftPlace
<1>5. /\ ks \in Seq(Key) /\ ks \in Seq(Nat) /\ cs \in Seq(Node)
      /\ Len(ks) \in Nat /\ Len(cs) = Len(ks) + 1
      /\ \A j \in 1..Len(ks) : ks[j] \in Nat
  BY <1>3, <1>4, NodeFields DEF Key
<1>6. s \in Key /\ s \in Nat /\ right \in Node /\ k \in Nat
  <2>1. split \in [left : Node, key : Key, right : Node]
    BY <1>1 DEF TreeInv, SplitInv
  <2>2. s \in Key /\ right \in Node
    BY <1>2, <2>1
  <2> QED  BY <2>2 DEF Key
<1>7. \A j, m \in 1..Len(cs) : cs[j] = cs[m] => j = m
  BY <1>1, <1>3, <1>4 DEF TreeInv, KidsInv
<1>8. PICK ks2, cs2 : ks2 = ParentKeys /\ cs2 = ParentKids
  OBVIOUS
<1>9. ks2 \in Seq(Nat) /\ Ascending(ks2) /\ Len(ks2) = Len(ks) + 1 /\ Len(cs2) = Len(ks) + 2
  <2>1. Grown(p, ks2, cs2, height, below)
    BY <1>1, <1>2, <1>8, ParentGrown
  <2>2. ks2 \in Seq(Key) /\ Ascending(ks2)
    BY <2>1 DEF Grown
  <2>3. Key \subseteq Nat
    BY DEF Key
  <2>4. Len(ks2) = Len(ks) + 1 /\ Len(cs2) = Len(ks) + 2
    BY <1>1, <1>2, <1>3, <1>8, ParentPlaces
  <2> QED  BY <2>2, <2>3, <2>4, SeqMonotonic
<1>10. \A j \in 1..(Len(ks) + 1) :
         ks2[j] = IF j < i THEN ks[j] ELSE IF j = i THEN s ELSE ks[j - 1]
  BY <1>1, <1>2, <1>3, <1>8, ParentPlaces
<1>11. \A j \in 1..(Len(ks) + 2) :
         cs2[j] = IF j < i + 1 THEN cs[j] ELSE IF j = i + 1 THEN right ELSE cs[j - 1]
  BY <1>1, <1>2, <1>3, <1>8, ParentPlaces
<1>12. PICK c : c = ChildIndex(ks, k)
  OBVIOUS
<1>13. /\ c \in 1..(Len(ks) + 1)
       /\ \A j \in 1..(c - 1) : ks[j] <= k
       /\ c <= Len(ks) => k < ks[c]
  BY <1>5, <1>6, <1>12, ChildIndexFits
<1>14. c \in Nat /\ i \in Nat /\ c >= 1 /\ i >= 1 /\ i <= Len(ks) + 1 /\ c <= Len(ks) + 1
  BY <1>4, <1>5, <1>13
<1>15. c > 1 => ks[c - 1] <= k
  <2>1. c > 1 => c - 1 \in 1..(c - 1)
    BY <1>14
  <2> QED  BY <1>13, <2>1
<1>16. Turned(Routed(p, k), k) = IF c = i /\ s <= k THEN right ELSE cs[c]
  <2>1. Routed(p, k) = cs[c]
    BY <1>3, <1>12 DEF Routed
  <2>2. cs[c] = left <=> c = i
    BY <1>4, <1>5, <1>7, <1>13
  <2> QED  BY <1>2, <2>1, <2>2 DEF Turned
<1> DEFINE Goal(j) == /\ ChildIndex(ks2, k) = j /\ j \in 1..(Len(ks) + 2)
                      /\ cs2[j] = IF c = i /\ s <= k THEN right ELSE cs[c]
<1>17. CASE c < i
  <2>1. c \in 1..(Len(ks2) + 1) /\ c \in 1..(Len(ks) + 1) /\ c \in 1..(Len(ks) + 2) /\ c <= Len(ks)
    BY <1>5, <1>9, <1>14, <1>17
  <2>2. c > 1 => ks2[c - 1] <= k
    <3>1. c > 1 => c - 1 \in 1..(Len(ks) + 1) /\ c - 1 < i
      BY <1>5, <1>14, <1>17
    <3> QED  BY <1>10, <1>15, <3>1
  <2>3. c <= Len(ks2) => k < ks2[c]
    BY <1>10, <1>13, <1>17, <2>1
  <2>4. ChildIndex(ks2, k) = c
    BY <1>6, <1>9, <2>1, <2>2, <2>3, ChildIndexIs
  <2>5. cs2[c] = cs[c] /\ c # i
    <3>1. c < i + 1 /\ c # i
      BY <1>14, <1>17
    <3> QED  BY <1>11, <2>1, <3>1
  <2>6. Goal(c)
    BY <2>1, <2>4, <2>5
  <2> QED  BY <1>2, <1>5, <1>8, <1>9, <1>16, <2>6
<1>18. CASE c > i
  <2>1. PICK d : d = c + 1
    OBVIOUS
  <2>2. /\ d \in 1..(Len(ks2) + 1) /\ d \in 1..(Len(ks) + 2) /\ d - 1 = c
        /\ c \in 1..(Len(ks) + 1) /\ c - 1 \in 1..Len(ks) /\ ~(c < i) /\ c # i
    BY <1>5, <1>9, <1>14, <1>18, <2>1
  <2>3. ks2[d - 1] <= k
    BY <1>10, <1>14, <1>15, <1>18, <2>2
  <2>4. d <= Len(ks2) => k < ks2[d]
    <3> SUFFICES ASSUME d <= Len(ks2) PROVE k < ks2[d]
      OBVIOUS
    <3>1. d \in 1..(Len(ks) + 1) /\ ~(d < i) /\ d # i /\ c <= Len(ks)
      BY <1>5, <1>9, <1>14, <1>18, <2>1
    <3>2. ks2[d] = ks[c]
      BY <1>10, <2>2, <3>1
    <3> QED  BY <1>13, <3>1, <3>2
  <2>5. ChildIndex(ks2, k) = d
    BY <1>6, <1>9, <2>2, <2>3, <2>4, ChildIndexIs
  <2>6. cs2[d] = cs[c]
    <3>1. ~(d < i + 1) /\ d # i + 1
      BY <1>14, <1>18, <2>1
    <3> QED  BY <1>11, <2>2, <3>1
  <2>7. Goal(d)
    BY <2>2, <2>5, <2>6
  <2> QED  BY <1>2, <1>5, <1>8, <1>9, <1>16, <2>7
<1>19. CASE c = i /\ s <= k
  <2>1. PICK d : d = i + 1
    OBVIOUS
  <2>2. /\ d \in 1..(Len(ks2) + 1) /\ d \in 1..(Len(ks) + 2) /\ d - 1 = i
        /\ i \in 1..(Len(ks) + 1) /\ ~(i < i)
    BY <1>5, <1>9, <1>14, <2>1
  <2>3. ks2[d - 1] <= k
    BY <1>10, <1>19, <2>2
  <2>4. d <= Len(ks2) => k < ks2[d]
    <3> SUFFICES ASSUME d <= Len(ks2) PROVE k < ks2[d]
      OBVIOUS
    <3>1. d \in 1..(Len(ks) + 1) /\ ~(d < i) /\ d # i /\ c <= Len(ks)
      BY <1>5, <1>9, <1>14, <1>19, <2>1
    <3>2. ks2[d] = ks[c]
      BY <1>10, <1>19, <2>2, <3>1
    <3> QED  BY <1>13, <3>1, <3>2
  <2>5. ChildIndex(ks2, k) = d
    BY <1>6, <1>9, <2>2, <2>3, <2>4, ChildIndexIs
  <2>6. cs2[d] = right
    <3>1. ~(d < i + 1) /\ d = i + 1
      BY <1>14, <2>1
    <3> QED  BY <1>11, <2>2, <3>1
  <2>7. Goal(d)
    BY <1>19, <2>2, <2>5, <2>6
  <2> QED  BY <1>2, <1>5, <1>8, <1>9, <1>16, <2>7
<1>20. CASE c = i /\ ~(s <= k)
  <2>1. i \in 1..(Len(ks2) + 1) /\ i \in 1..(Len(ks) + 1) /\ i \in 1..(Len(ks) + 2) /\ ~(i < i)
    BY <1>5, <1>9, <1>14
  <2>2. i > 1 => ks2[i - 1] <= k
    <3>1. i > 1 => i - 1 \in 1..(Len(ks) + 1) /\ i - 1 < i
      BY <1>5, <1>14
    <3> QED  BY <1>10, <1>15, <1>20, <3>1
  <2>3. k < ks2[i]
    BY <1>6, <1>10, <1>20, <2>1
  <2>4. ChildIndex(ks2, k) = i
    BY <1>6, <1>9, <2>1, <2>2, <2>3, ChildIndexIs
  <2>5. cs2[i] = cs[i]
    <3>1. i < i + 1
      BY <1>14
    <3> QED  BY <1>11, <2>1, <3>1
  <2>6. Goal(i)
    BY <1>20, <2>1, <2>4, <2>5
  <2> QED  BY <1>2, <1>5, <1>8, <1>9, <1>16, <2>6
<1> QED  BY <1>14, <1>17, <1>18, <1>19, <1>20

\* A node given the parent it has.
LEMMA SameParent ==
  ASSUME NEW r \in TreeNode
  PROVE  [r EXCEPT !.parent = r.parent] = r
BY DEF TreeNode

\* The leaf a search ends in, once the split is linked in the parent.
LEMMA InsertIntoInternalFound ==
  ASSUME BPTreeInv, CallInv, InsertIntoInternal
  PROVE  RowsInv' /\ Index!Insert(inserting)
<1>1. /\ NodesOK /\ TreeOK /\ RowsInv /\ step = "parent" /\ Parent # NULL
      /\ Return /\ UNCHANGED failures /\ root' = root /\ root # NULL
  BY DEF BPTreeInv, CallInv, InsertIntoInternal, Accept, TreeOK, TreeInv
<1>2. PICK top, height, below : TreeInv(top, height, below)
  BY <1>1 DEF TreeOK
<1>3. PICK left, right, p, ks, cs :
        left = split.left /\ right = split.right /\ p = Parent
        /\ ks = ParentKeys /\ cs = ParentKids
  OBVIOUS
<1>4. /\ KidsInv(height) /\ root \in Allocated /\ node[root].parent = NULL
      /\ left \in Allocated /\ right \in Allocated
      /\ node[right].parent = p /\ node[left].parent = p
      /\ height[left] = height[right] /\ height[left] \in Nat
  <2>1. /\ KidsInv(height) /\ SplitInv(height, below) /\ root \in Allocated
        /\ node[root].parent = NULL /\ height \in [Node -> 0..top] /\ top \in Nat
    BY <1>1, <1>2 DEF TreeInv
  <2>2. p = node[left].parent
    BY <1>3 DEF Parent
  <2>3. /\ left \in Allocated /\ right \in Allocated /\ node[right].parent = p
        /\ height[left] = height[right]
    BY <1>1, <1>3, <2>1, <2>2 DEF SplitInv
  <2>4. height[left] \in Nat
    BY <2>1, <2>3 DEF Allocated
  <2> QED  BY <2>1, <2>2, <2>3, <2>4
<1>5. p \in Allocated /\ ~node[p].leaf
  BY <1>1, <1>2, <1>3, LeftPlace
<1>6. right # p
  <2>1. LeftIndex \in 1..Len(node[p].kids) /\ node[p].kids[LeftIndex] = left
    BY <1>1, <1>2, <1>3, LeftPlace
  <2>2. height[p] = height[left] + 1
    BY <1>4, <1>5, <2>1 DEF KidsInv
  <2> QED  BY <1>4, <2>2
<1>7. node' = [node EXCEPT ![p].keys = ks, ![p].kids = cs, ![right].parent = p]
  BY <1>3 DEF InsertIntoInternal
<1>8. NodesOK' /\ TreeOK'
  BY InsertIntoInternalKeepsTree
<1>9. /\ p \in Node /\ right \in Node /\ node[p] \in TreeNode /\ node[right] \in TreeNode
  BY <1>1, <1>4, <1>5, NodeFields
<1>10. /\ node'[p].leaf = node[p].leaf /\ node'[p].keys = ks /\ node'[p].kids = cs
       /\ node'[p].parent = node[p].parent
       /\ \A m \in Node : m # p => node'[m] = node[m]
  <2>1. /\ node'[p] = [node[p] EXCEPT !.keys = ks, !.kids = cs]
        /\ node'[right] = [node[right] EXCEPT !.parent = p]
        /\ \A m \in Node : m # p /\ m # right => node'[m] = node[m]
    BY <1>1, <1>6, <1>7, <1>9 DEF NodesOK
  <2>2. node'[right] = node[right]
    <3>1. node'[right] = [node[right] EXCEPT !.parent = node[right].parent]
      BY <1>4, <2>1
    <3> QED  BY <1>9, <3>1, SameParent
  <2> QED  BY <1>9, <2>1, <2>2 DEF TreeNode
<1>11. \A m \in Allocated' : /\ m \in Allocated /\ node'[m].leaf = node[m].leaf
                             /\ node'[m].parent = node[m].parent
  BY <1>5, <1>10 DEF Allocated
<1>12. \A m \in Allocated : node[m].leaf => node'[m] = node[m]
  BY <1>5, <1>10 DEF Allocated
<1>13. RowsInv'
  <2> SUFFICES ASSUME NEW m \in Allocated', node'[m].leaf, NEW j \in 1..Len(node'[m].keys)
               PROVE  node'[m].rows[j] = RowOf(node'[m].keys[j])
    BY DEF RowsInv, RowOf
  <2>1. m \in Allocated /\ node[m].leaf /\ node'[m] = node[m]
    BY <1>11, <1>12
  <2> QED  BY <1>1, <2>1 DEF RowsInv
<1>14. WaysMeet'
  BY <1>8, TreeWaysMeet, PTL
<1>15. ASSUME NEW q \in Key
       PROVE  HasKey(FindLeaf(q), q)' <=> q = inserting \/ found[q] # NULL
  <2>1. PICK l, P : l = FindLeaf(q)' /\ l \in Allocated' /\ node'[l].leaf /\ WayDown(P, root, l, q)'
    BY <1>1, <1>14 DEF WaysMeet
  <2>2. l \in Allocated /\ node[l].leaf /\ node'[l] = node[l]
    BY <1>11, <1>12, <2>1
  <2>3. P \subseteq Allocated /\ root \in P /\ l \in P
    BY <1>1, <1>11, <2>1 DEF WayDown
  <2>4. Turned(root, q) = root
    <3>1. root # left
      BY <1>1, <1>3, <1>4
    <3> QED  BY <1>3, <3>1 DEF Turned
  <2>5. ASSUME NEW m \in P, m # root
        PROVE  /\ node[m].parent \in P /\ ~node[node[m].parent].leaf
               /\ m = Turned(Routed(node[m].parent, q), q)
    <3>1. PICK u : u = node[m].parent
      OBVIOUS
    <3>2. u \in P /\ ~node[u].leaf /\ m = Routed(u, q)' /\ u \in Allocated
      <4>1. node'[m].parent = u
        BY <1>11, <2>1, <3>1 DEF WayDown
      <4>2. u \in P /\ ~node'[u].leaf /\ m = Routed(u, q)'
        BY <1>1, <2>1, <2>5, <4>1 DEF WayDown
      <4>3. u \in Allocated'
        BY <2>1, <4>2 DEF WayDown
      <4> QED  BY <1>11, <4>2, <4>3
    <3>3. CASE u = p
      <4>1. m = cs[ChildIndex(ks, q)]
        BY <1>10, <3>2, <3>3 DEF Routed
      <4> QED  BY <1>1, <1>3, <3>1, <3>2, <3>3, <4>1, GrownRoutes
    <3>4. CASE u # p
      <4>1. m = Routed(u, q)
        BY <1>10, <3>2, <3>4 DEF Routed, Allocated
      <4>2. m # left
        BY <1>4, <3>1, <3>4
      <4> QED  BY <1>3, <3>1, <3>2, <4>1, <4>2 DEF Turned
    <3> QED  BY <3>3, <3>4
  <2>6. LinkedWay(P, l, q)
    BY <2>3, <2>4, <2>5 DEF LinkedWay
  <2>7. LinkedEnd(l, q)
    BY <2>2, <2>6 DEF LinkedEnd
  <2>8. HasKey(l, q) <=> q = inserting \/ found[q] # NULL
    BY <1>1, <2>7 DEF CallInv
  <2>9. HasKey(l, q)' <=> HasKey(l, q)
    BY <2>2 DEF HasKey
  <2> QED  BY <2>1, <2>8, <2>9
<1>16. Index!Insert(inserting)
  BY <1>1, <1>8, <1>13, <1>15, LinkedFound
<1> QED  BY <1>13, <1>16

\* A search that would go down somewhere goes down there in one of the halves.
LEMMA HalfRoutes ==
  ASSUME NEW ks \in Seq(Key), Ascending(ks), NEW cs \in Seq(Node), Len(cs) = Len(ks) + 1,
         NEW h \in Nat, h + 1 <= Len(ks), NEW q \in Key
  PROVE  LET lk == SubSeq(ks, 1, h)
             lc == SubSeq(cs, 1, h + 1)
             rk == SubSeq(ks, h + 2, Len(ks))
             rc == SubSeq(cs, h + 2, Len(cs))
             kid == cs[ChildIndex(ks, q)]
         IN /\ lc[ChildIndex(lk, q)] \in ToSet(cs) /\ rc[ChildIndex(rk, q)] \in ToSet(cs)
            /\ q < ks[h + 1] => lc[ChildIndex(lk, q)] = kid
            /\ ~(q < ks[h + 1]) => rc[ChildIndex(rk, q)] = kid
<1>1. /\ Len(ks) \in Nat /\ Key \subseteq Nat /\ q \in Nat /\ ks \in Seq(Nat)
      /\ \A j \in 1..Len(ks) : ks[j] \in Nat
  <2>1. Key \subseteq Nat
    BY DEF Key
  <2>2. ks \in Seq(Nat)
    BY <2>1, SeqMonotonic
  <2> QED  BY <2>1, <2>2, LenProperties
<1>2. PICK lk, lc, rk, rc :
        /\ lk = SubSeq(ks, 1, h) /\ lc = SubSeq(cs, 1, h + 1)
        /\ rk = SubSeq(ks, h + 2, Len(ks)) /\ rc = SubSeq(cs, h + 2, Len(cs))
  OBVIOUS
<1>3. lk \in Seq(Nat) /\ Len(lk) = h /\ \A j \in 1..h : lk[j] = ks[j]
  <2>1. h \in 0..Len(ks)
    BY <1>1
  <2> QED  BY <1>1, <1>2, <2>1, FrontPart
<1>4. \A j \in 1..(h + 1) : lc[j] = cs[j]
  <2>1. PICK a : a = h + 1
    OBVIOUS
  <2>2. a \in 0..Len(cs)
    BY <1>1, <2>1
  <2>3. \A j \in 1..a : SubSeq(cs, 1, a)[j] = cs[j]
    BY <2>2, FrontPart
  <2> QED  BY <1>2, <2>1, <2>3
<1>5. PICK n : n = Len(ks) - h - 1
  OBVIOUS
<1>6. n \in Nat /\ Len(ks) = n + h + 1 /\ Len(cs) = n + h + 2
  BY <1>1, <1>5
<1>7. rk \in Seq(Nat) /\ Len(rk) = n /\ \A j \in 1..n : rk[j] = ks[h + 1 + j]
  <2>1. PICK a : a = h + 2
    OBVIOUS
  <2>2. a \in 1..(Len(ks) + 1) /\ Len(ks) - a + 1 = n
    BY <1>1, <1>6, <2>1
  <2>3. /\ SubSeq(ks, a, Len(ks)) \in Seq(Nat) /\ Len(SubSeq(ks, a, Len(ks))) = Len(ks) - a + 1
        /\ \A j \in 1..(Len(ks) - a + 1) : SubSeq(ks, a, Len(ks))[j] = ks[a + j - 1]
    BY <1>1, <2>2, BackPart
  <2>4. \A j \in 1..n : a + j - 1 = h + 1 + j
    BY <1>6, <2>1
  <2> QED  BY <1>2, <2>1, <2>2, <2>3, <2>4
<1>8. \A j \in 1..(n + 1) : rc[j] = cs[h + 1 + j]
  <2>1. PICK a : a = h + 2
    OBVIOUS
  <2>2. a \in 1..(Len(cs) + 1) /\ Len(cs) - a + 1 = n + 1
    BY <1>6, <2>1
  <2>3. \A j \in 1..(Len(cs) - a + 1) : SubSeq(cs, a, Len(cs))[j] = cs[a + j - 1]
    BY <2>2, BackPart
  <2>4. \A j \in 1..(n + 1) : a + j - 1 = h + 1 + j
    BY <1>6, <2>1
  <2> QED  BY <1>2, <2>1, <2>2, <2>3, <2>4
<1>9. Ascending(lk)
  <2>1. \A j \in 1..h : j \in 1..Len(ks)
    BY <1>1
  <2> QED  BY <1>3, <2>1 DEF Ascending
<1>10. Ascending(rk)
  <2> SUFFICES ASSUME NEW i \in 1..n, NEW j \in 1..n, i < j PROVE rk[i] < rk[j]
    BY <1>7 DEF Ascending
  <2>1. h + 1 + i \in 1..Len(ks) /\ h + 1 + j \in 1..Len(ks) /\ h + 1 + i < h + 1 + j
    BY <1>6
  <2>2. ks[h + 1 + i] < ks[h + 1 + j]
    BY <2>1 DEF Ascending
  <2> QED  BY <1>7, <2>2
<1>11. PICK c, d, e : c = ChildIndex(ks, q) /\ d = ChildIndex(lk, q) /\ e = ChildIndex(rk, q)
  OBVIOUS
<1>12. d \in 1..(h + 1) /\ e \in 1..(n + 1)
  <2>1. d \in 1..(Len(lk) + 1)
    BY <1>1, <1>3, <1>11, ChildIndexFits
  <2>2. e \in 1..(Len(rk) + 1)
    BY <1>1, <1>7, <1>11, ChildIndexFits
  <2> QED  BY <1>3, <1>7, <2>1, <2>2
<1>13. lc[d] \in ToSet(cs) /\ rc[e] \in ToSet(cs)
  <2>1. d \in 1..Len(cs) /\ h + 1 + e \in 1..Len(cs)
    BY <1>6, <1>12
  <2>2. lc[d] = cs[d] /\ rc[e] = cs[h + 1 + e]
    BY <1>4, <1>8, <1>12
  <2> QED  BY <2>1, <2>2 DEF ToSet
<1>14. /\ c \in 1..(Len(ks) + 1)
       /\ \A j \in 1..(c - 1) : ks[j] <= q
       /\ c <= Len(ks) => q < ks[c]
  BY <1>1, <1>11, ChildIndexFits
<1>15. h + 1 \in 1..Len(ks) /\ c \in Nat /\ c >= 1 /\ c <= n + h + 2
  BY <1>6, <1>14
<1>16. c > 1 => c - 1 \in 1..(c - 1) /\ ks[c - 1] <= q
  <2>1. c > 1 => c - 1 \in 1..(c - 1)
    BY <1>15
  <2> QED  BY <1>14, <2>1
<1>17. ASSUME q < ks[h + 1] PROVE lc[d] = cs[c]
  <2>1. c <= h + 1
    <3> SUFFICES ASSUME ~(c <= h + 1) PROVE FALSE
      OBVIOUS
    <3>1. h + 1 \in 1..(c - 1)
      BY <1>15
    <3>2. ks[h + 1] <= q
      BY <1>14, <3>1
    <3> QED  BY <1>1, <1>15, <1>17, <3>2
  <2>2. c \in 1..(h + 1) /\ c \in 1..(Len(lk) + 1)
    BY <1>3, <1>15, <2>1
  <2>3. c > 1 => lk[c - 1] <= q
    <3>1. c > 1 => c - 1 \in 1..h
      BY <2>2
    <3> QED  BY <1>3, <1>16, <3>1
  <2>4. c <= Len(lk) => q < lk[c]
    <3>1. c <= h => c \in 1..h /\ c <= Len(ks)
      BY <1>6, <2>2
    <3> QED  BY <1>3, <1>14, <3>1
  <2>5. ChildIndex(lk, q) = c
    BY <1>1, <1>3, <1>9, <2>2, <2>3, <2>4, ChildIndexIs
  <2> QED  BY <1>4, <1>11, <2>2, <2>5
<1>18. ASSUME ~(q < ks[h + 1]) PROVE rc[e] = cs[c]
  <2>1. c > h + 1
    <3> SUFFICES ASSUME ~(c > h + 1) PROVE FALSE
      OBVIOUS
    <3>1. c \in 1..Len(ks) /\ (c = h + 1 \/ c < h + 1)
      BY <1>6, <1>15
    <3>2. q < ks[c] /\ (c = h + 1 \/ ks[c] < ks[h + 1])
      BY <1>14, <1>15, <3>1 DEF Ascending
    <3> QED  BY <1>1, <1>15, <1>18, <3>1, <3>2
  <2>2. PICK i : i = c - h - 1
    OBVIOUS
  <2>3. i \in 1..(n + 1) /\ h + 1 + i = c /\ i \in 1..(Len(rk) + 1)
    BY <1>7, <1>15, <2>1, <2>2
  <2>4. i > 1 => rk[i - 1] <= q
    <3>1. i > 1 => i - 1 \in 1..n /\ h + 1 + (i - 1) = c - 1 /\ c > 1
      BY <1>6, <1>15, <2>2, <2>3
    <3>2. i > 1 => rk[i - 1] = ks[h + 1 + (i - 1)]
      BY <1>7, <3>1
    <3> QED  BY <1>16, <3>1, <3>2
  <2>5. i <= Len(rk) => q < rk[i]
    <3>1. i <= n => i \in 1..n /\ c <= Len(ks)
      BY <1>6, <2>3
    <3> QED  BY <1>7, <1>14, <2>3, <3>1
  <2>6. ChildIndex(rk, q) = i
    BY <1>1, <1>7, <1>10, <2>3, <2>4, <2>5, ChildIndexIs
  <2> QED  BY <1>8, <1>11, <2>3, <2>6
<1> QED  BY <1>2, <1>11, <1>13, <1>17, <1>18

\* A child that is told its parent stays what it was.
LEMMA AdoptKeeps ==
  ASSUME NEW nodes, NEW kids, NEW p \in Node, NEW n \in Node, nodes[n] \in TreeNode
  PROVE  LET new == Adopt(nodes, kids, p)[n]
         IN /\ new \in TreeNode
            /\ new.leaf = nodes[n].leaf /\ new.keys = nodes[n].keys
            /\ new.kids = nodes[n].kids /\ new.rows = nodes[n].rows
<1>1. PICK r : r = nodes[n]
  OBVIOUS
<1>2. /\ [r EXCEPT !.parent = p] \in TreeNode
      /\ [r EXCEPT !.parent = p].leaf = r.leaf /\ [r EXCEPT !.parent = p].keys = r.keys
      /\ [r EXCEPT !.parent = p].kids = r.kids /\ [r EXCEPT !.parent = p].rows = r.rows
  BY <1>1 DEF TreeNode
<1>3. Adopt(nodes, kids, p)[n] = IF n \in ToSet(kids) THEN [r EXCEPT !.parent = p] ELSE r
  BY <1>1 DEF Adopt
<1> QED  BY <1>1, <1>2, <1>3

LEMMA AdoptInternal ==
  ASSUME NEW nodes, NEW kids, NEW p \in Node, NEW n \in Node, NEW ks, NEW cs, NEW q,
         nodes[n] = Internal(ks, cs, q)
  PROVE  Adopt(nodes, kids, p)[n] \in { Internal(ks, cs, q), Internal(ks, cs, p) }
<1>1. PICK r : r = Internal(ks, cs, q)
  OBVIOUS
<1>2. [r EXCEPT !.parent = p] = Internal(ks, cs, p)
  <2>1. PICK a, b : a = [r EXCEPT !.parent = p] /\ b = Internal(ks, cs, p)
    OBVIOUS
  <2>2. /\ DOMAIN a = {"leaf", "keys", "kids", "rows", "parent", "next"}
        /\ a = [f \in DOMAIN a |-> a[f]]
        /\ a.leaf = FALSE /\ a.keys = ks /\ a.kids = cs /\ a.rows = <<>>
        /\ a.parent = p /\ a.next = NULL
    BY <1>1, <2>1 DEF Internal
  <2>3. /\ DOMAIN b = {"leaf", "keys", "kids", "rows", "parent", "next"}
        /\ b = [f \in DOMAIN b |-> b[f]]
        /\ b.leaf = FALSE /\ b.keys = ks /\ b.kids = cs /\ b.rows = <<>>
        /\ b.parent = p /\ b.next = NULL
    BY <2>1 DEF Internal
  <2>4. \A f \in DOMAIN a : a[f] = b[f]
    BY <2>2, <2>3
  <2> QED  BY <2>1, <2>2, <2>3, <2>4
<1>3. Adopt(nodes, kids, p)[n] = IF n \in ToSet(kids) THEN [r EXCEPT !.parent = p] ELSE r
  BY <1>1 DEF Adopt
<1> QED  BY <1>1, <1>2, <1>3

LEMMA PartWithin ==
  ASSUME NEW S, NEW s \in Seq(S), NEW i \in 1..(Len(s) + 1), NEW j \in (i - 1)..Len(s)
  PROVE  ToSet(SubSeq(s, i, j)) \subseteq ToSet(s)
<1>1. PICK t : t = SubSeq(s, i, j)
  OBVIOUS
<1>2. Len(t) = j - i + 1 /\ \A m \in 1..(j - i + 1) : t[m] = s[i + m - 1]
  BY <1>1, Part
<1>3. Len(s) \in Nat
  BY LenProperties
<1>4. \A m \in 1..(j - i + 1) : i + m - 1 \in 1..Len(s)
  BY <1>3
<1>5. \A m \in 1..Len(t) : t[m] \in ToSet(s)
  BY <1>2, <1>4 DEF ToSet
<1> QED  BY <1>1, <1>5 DEF ToSet

\* The parent that is split, and the sizes of what it is split into.
LEMMA FullParent ==
  ASSUME BPTreeInv, SplitInternal
  PROVE  LET p == Parent
             ks == ParentKeys
             cs == ParentKids
             h == Half(ks)
         IN /\ p \in Allocated /\ ~node[p].leaf /\ p \in Node
            /\ ks \in Seq(Key) /\ cs \in Seq(Node) /\ Len(cs) = Len(ks) + 1 /\ Ascending(ks)
            /\ Len(ks) \in Nat /\ h \in Nat /\ 1 <= h /\ h + 1 <= Len(ks)
            /\ ks[h + 1] \in Key /\ ks[h + 1] > 1
            /\ \A c \in ToSet(cs) : c \in Allocated /\ node[c].parent = p /\ c # p
<1>1. NodesOK /\ TreeOK /\ step = "parent" /\ Parent # NULL
  BY DEF BPTreeInv, SplitInternal
<1>2. PICK top, height, below : TreeInv(top, height, below)
  BY <1>1 DEF TreeOK
<1>3. PICK left, p, ks, cs, h, s :
        /\ left = split.left /\ p = Parent /\ ks = ParentKeys /\ cs = ParentKids
        /\ h = Half(ks) /\ s = ks[h + 1]
  OBVIOUS
<1>4. /\ KidsInv(height) /\ root \in Allocated /\ node[root].parent = NULL
      /\ left \in Allocated /\ node[left].parent = p
      /\ height \in [Node -> 0..top] /\ top \in Nat
  BY <1>1, <1>2, <1>3 DEF TreeInv, SplitInv, Parent
<1>5. Grown(p, ks, cs, height, below) /\ Len(ks) = Len(node[p].keys) + 1
  BY <1>1, <1>2, <1>3, ParentGrown
<1>6. p \in Allocated /\ ~node[p].leaf /\ Len(ks) = MaxKeys + 1 /\ p \in Node
      /\ node[p].parent \in Node \cup {NULL}
  <2>1. p \in Allocated /\ ~node[p].leaf
    BY <1>1, <1>2, <1>3, LeftPlace
  <2>2. Full(p)
    BY <1>3 DEF SplitInternal
  <2> QED  BY <1>1, <1>5, <2>1, <2>2, NodeFields DEF Full
<1>7. /\ ks \in Seq(Key) /\ cs \in Seq(Node) /\ Len(cs) = Len(ks) + 1 /\ Ascending(ks)
      /\ \A c \in ToSet(cs) : c \in Allocated /\ node[c].parent = p /\ c # p
  <2>1. /\ ks \in Seq(Key) /\ cs \in Seq(Node) /\ Len(cs) = Len(ks) + 1 /\ Ascending(ks)
        /\ \A i \in 1..Len(cs) : /\ cs[i] \in Allocated /\ height[p] = height[cs[i]] + 1
                                 /\ node[cs[i]].parent = p
    BY <1>5 DEF Grown
  <2>2. height[p] \in Nat
    BY <1>4, <1>6
  <2>3. \A i \in 1..Len(cs) : cs[i] # p
    BY <2>1, <2>2
  <2> QED  BY <2>1, <2>3 DEF ToSet
<1>8. /\ h \in Nat /\ h + 1 <= Len(ks) /\ h <= MaxKeys /\ 1 <= h
      /\ Len(ks) - h <= MaxKeys /\ s \in Key /\ ks[1] \in Key /\ ks[1] < s /\ Len(ks) \in Nat
  <2>1. h = Half(ks) /\ s = ks[h + 1]
    BY <1>3
  <2>2. /\ h \in Nat /\ 1 <= h /\ h + 1 <= Len(ks) /\ h <= MaxKeys
        /\ Len(ks) - h <= MaxKeys
        /\ ks[h + 1] \in Key /\ ks[1] < ks[h + 1] /\ Len(ks) \in Nat
    <3>1. ks \in Seq(Key) /\ Len(ks) = MaxKeys + 1 /\ Ascending(ks)
      BY <1>6, <1>7
    <3> QED  BY <2>1, <3>1, Halves
  <2>3. 1 \in 1..Len(ks)
    BY <2>2
  <2> QED  BY <1>7, <2>1, <2>2, <2>3
<1>9. s > 1
  BY <1>8 DEF Key
<1> QED  BY <1>3, <1>6, <1>7, <1>8, <1>9

\* What splitting it does to the nodes.
LEMMA HalvedNodes ==
  ASSUME BPTreeInv, SplitInternal
  PROVE  \E new \in Node :
           LET p == Parent
               ks == ParentKeys
               cs == ParentKids
               h == Half(ks)
           IN /\ new \notin Allocated /\ new # p /\ new \in Allocated'
              /\ \A m \in Allocated' : m = new \/ m \in Allocated
              /\ \A m \in Allocated : m \in Allocated'
              /\ split' = [left |-> p, key |-> ks[h + 1], right |-> new]
              /\ \A m \in Allocated : m # p =>
                   /\ node'[m].leaf = node[m].leaf /\ node'[m].keys = node[m].keys
                   /\ node'[m].kids = node[m].kids /\ node'[m].rows = node[m].rows
              /\ \A m \in Allocated : m \notin ToSet(cs) => node'[m].parent = node[m].parent
              /\ ~node'[p].leaf /\ ~node'[new].leaf
              /\ node'[p].keys = SubSeq(ks, 1, h) /\ node'[p].kids = SubSeq(cs, 1, h + 1)
              /\ node'[new].keys = SubSeq(ks, h + 2, Len(ks))
              /\ node'[new].kids = SubSeq(cs, h + 2, Len(cs))
<1>1. NodesOK /\ step' = "parent"
  BY DEF BPTreeInv, SplitInternal
<1>2. PICK p, ks, cs, h, s :
        /\ p = Parent /\ ks = ParentKeys /\ cs = ParentKids
        /\ h = Half(ks) /\ s = ks[h + 1]
  OBVIOUS
<1>3. /\ p \in Allocated /\ ~node[p].leaf /\ p \in Node
      /\ ks \in Seq(Key) /\ cs \in Seq(Node) /\ Len(cs) = Len(ks) + 1
      /\ Len(ks) \in Nat /\ h \in Nat /\ 1 <= h /\ h + 1 <= Len(ks)
      /\ \A c \in ToSet(cs) : c \in Allocated /\ c # p
  BY <1>2, FullParent
<1>4. PICK lk, lc, rk, rc :
         /\ lk = SubSeq(ks, 1, h) /\ lc = SubSeq(cs, 1, h + 1)
         /\ rk = SubSeq(ks, h + 2, Len(ks)) /\ rc = SubSeq(cs, h + 2, Len(cs))
  OBVIOUS
<1>5. PICK new \in Node :
         /\ Fresh(new)
         /\ node' = Adopt(Adopt(
              [node EXCEPT ![p] = Internal(lk, lc, @.parent),
                           ![new] = Internal(rk, rc, node[p].parent)], lc, p), rc, new)
         /\ split' = [left |-> p, key |-> s, right |-> new]
  BY <1>2, <1>4 DEF SplitInternal
<1>6. new \notin Allocated /\ new # p
  BY <1>3, <1>5 DEF Fresh, Allocated
<1>7. new \in Allocated' /\ p \in Allocated'
  <2>1. TreeOK'
    BY SplitInternalKeepsTree
  <2>2. split'.left = p /\ split'.right = new
    BY <1>5
  <2> QED  BY <1>1, <2>1, <2>2 DEF TreeOK, TreeInv, SplitInv
<1>8. /\ \A m \in Allocated : m # p =>
            /\ m \in Allocated'
            /\ node'[m].leaf = node[m].leaf /\ node'[m].keys = node[m].keys
            /\ node'[m].kids = node[m].kids /\ node'[m].rows = node[m].rows
      /\ \A m \in Allocated : m \notin ToSet(cs) => node'[m].parent = node[m].parent
      /\ ~node'[p].leaf /\ node'[p].keys = lk /\ node'[p].kids = lc
      /\ ~node'[new].leaf /\ node'[new].keys = rk /\ node'[new].kids = rc
      /\ \A m \in Allocated' : m = new \/ m \in Allocated
  <2>1. PICK node1, node2 :
          /\ node1 = [node EXCEPT ![p] = Internal(lk, lc, @.parent),
                                 ![new] = Internal(rk, rc, node[p].parent)]
          /\ node2 = Adopt(node1, lc, p)
    OBVIOUS
  <2>2. node' = Adopt(node2, rc, new)
    BY <1>5, <2>1
  <2>3. /\ node1[p] = Internal(lk, lc, node[p].parent)
        /\ node1[new] = Internal(rk, rc, node[p].parent)
        /\ \A m \in Node : m # p /\ m # new => node1[m] = node[m]
    BY <1>1, <1>3, <1>6, <2>1 DEF NodesOK
  <2>4. ASSUME NEW m \in Allocated, m # p
        PROVE  /\ m \in Allocated'
               /\ node'[m].leaf = node[m].leaf /\ node'[m].keys = node[m].keys
               /\ node'[m].kids = node[m].kids /\ node'[m].rows = node[m].rows
    <3>1. m \in Node /\ node1[m] = node[m] /\ node[m] \in TreeNode
      BY <1>1, <1>6, <2>3, <2>4, NodeFields
    <3>2. /\ node2[m] \in TreeNode
          /\ node2[m].leaf = node[m].leaf /\ node2[m].keys = node[m].keys
          /\ node2[m].kids = node[m].kids /\ node2[m].rows = node[m].rows
      <4>1. node1[m] \in TreeNode
        BY <3>1
      <4>2. LET x == Adopt(node1, lc, p)[m]
            IN /\ x \in TreeNode
               /\ x.leaf = node1[m].leaf /\ x.keys = node1[m].keys
               /\ x.kids = node1[m].kids /\ x.rows = node1[m].rows
        BY <1>3, <3>1, <4>1, AdoptKeeps
      <4> QED  BY <2>1, <3>1, <4>2
    <3>3. /\ node'[m] \in TreeNode
          /\ node'[m].leaf = node2[m].leaf /\ node'[m].keys = node2[m].keys
          /\ node'[m].kids = node2[m].kids /\ node'[m].rows = node2[m].rows
      <4>1. LET x == Adopt(node2, rc, new)[m]
            IN /\ x \in TreeNode
               /\ x.leaf = node2[m].leaf /\ x.keys = node2[m].keys
               /\ x.kids = node2[m].kids /\ x.rows = node2[m].rows
        BY <3>1, <3>2, AdoptKeeps
      <4> QED  BY <2>2, <4>1
    <3> QED  BY <3>1, <3>2, <3>3, NoNode DEF Allocated
  <2>5. \E x : node'[p] = Internal(lk, lc, x)
    <3>1. PICK y : node1[p] = Internal(lk, lc, y)
      BY <2>3
    <3>2. Adopt(node1, lc, p)[p] \in { Internal(lk, lc, y), Internal(lk, lc, p) }
      BY <1>3, <3>1, AdoptInternal
    <3>3. PICK z : node2[p] = Internal(lk, lc, z)
      BY <2>1, <3>2
    <3>4. Adopt(node2, rc, new)[p] \in { Internal(lk, lc, z), Internal(lk, lc, new) }
      BY <1>3, <3>3, AdoptInternal
    <3> QED  BY <2>2, <3>4
  <2>6. \E x : node'[new] = Internal(rk, rc, x)
    <3>1. PICK y : node1[new] = Internal(rk, rc, y)
      BY <2>3
    <3>2. Adopt(node1, lc, p)[new] \in { Internal(rk, rc, y), Internal(rk, rc, p) }
      BY <1>3, <3>1, AdoptInternal
    <3>3. PICK z : node2[new] = Internal(rk, rc, z)
      BY <2>1, <3>2
    <3>4. Adopt(node2, rc, new)[new] \in { Internal(rk, rc, z), Internal(rk, rc, new) }
      BY <3>3, AdoptInternal
    <3> QED  BY <2>2, <3>4
  <2>7. ToSet(lc) \subseteq ToSet(cs)
    <3>1. PICK j : j = h + 1
      OBVIOUS
    <3>2. 1 \in 1..(Len(cs) + 1) /\ j \in (1 - 1)..Len(cs)
      BY <1>3, <3>1
    <3> QED  BY <1>3, <1>4, <3>1, <3>2, PartWithin
  <2>8. ToSet(rc) \subseteq ToSet(cs)
    <3>1. PICK i, j : i = h + 2 /\ j = Len(cs)
      OBVIOUS
    <3>2. i \in 1..(Len(cs) + 1) /\ j \in (i - 1)..Len(cs)
      BY <1>3, <3>1
    <3> QED  BY <1>3, <1>4, <3>1, <3>2, PartWithin
  <2>9. \A m \in Allocated' : m = new \/ m \in Allocated
    <3> SUFFICES ASSUME NEW m \in Node, m \notin Allocated, m # new PROVE node'[m] = NULL
      BY DEF Allocated
    <3>1. node1[m] = NULL
      BY <1>3, <2>3 DEF Allocated
    <3>2. m \notin ToSet(lc) /\ m \notin ToSet(rc)
      BY <1>3, <2>7, <2>8
    <3> QED  BY <2>1, <2>2, <3>1, <3>2 DEF Adopt
  <2>10. ASSUME NEW m \in Allocated, m \notin ToSet(cs) PROVE node'[m].parent = node[m].parent
    <3>1. m \in Node /\ m # new /\ m \notin ToSet(lc) /\ m \notin ToSet(rc)
      BY <1>6, <2>7, <2>8, <2>10 DEF Allocated
    <3>2. node'[m] = node1[m]
      BY <2>1, <2>2, <3>1 DEF Adopt
    <3> QED  BY <1>3, <2>3, <3>1, <3>2 DEF Internal
  <2> QED  BY <2>4, <2>5, <2>6, <2>9, <2>10 DEF Internal
<1>9. \A m \in Allocated : m \in Allocated'
  <2> SUFFICES ASSUME NEW m \in Allocated PROVE m \in Allocated'
    OBVIOUS
  <2>1. CASE m = p
    BY <1>7, <2>1
  <2>2. CASE m # p
    BY <1>8, <2>2
  <2> QED  BY <2>1, <2>2
<1>10. /\ split' = [left |-> p, key |-> ks[h + 1], right |-> new]
       /\ node'[p].keys = SubSeq(ks, 1, h) /\ node'[p].kids = SubSeq(cs, 1, h + 1)
       /\ node'[new].keys = SubSeq(ks, h + 2, Len(ks))
       /\ node'[new].kids = SubSeq(cs, h + 2, Len(cs))
  <2>1. split' = [left |-> p, key |-> ks[h + 1], right |-> new]
    BY <1>2, <1>5
  <2>2. /\ node'[p].keys = lk /\ node'[p].kids = lc
        /\ node'[new].keys = rk /\ node'[new].kids = rc
    BY <1>8
  <2> QED  BY <1>4, <2>1, <2>2
<1>11. Parent = p /\ ParentKeys = ks /\ ParentKids = cs /\ Half(ks) = h
  BY <1>2
<1> WITNESS new \in Node
<1> QED  BY <1>6, <1>7, <1>8, <1>9, <1>10, <1>11

\* The level above is split too: the way a search would go stays the same, with
\* the new half of the parent for the parent if it turns there.
LEMMA SplitInternalFound ==
  ASSUME BPTreeInv, CallInv, SplitInternal
  PROVE  CallInv'
<1>1. /\ NodesOK /\ TreeOK /\ RowsInv /\ step = "parent" /\ Parent # NULL
      /\ UNCHANGED <<root, step, inserting, found>>
  BY DEF BPTreeInv, CallInv, SplitInternal
<1>2. PICK top, height, below : TreeInv(top, height, below)
  BY <1>1 DEF TreeOK
<1>3. PICK left, p, ks, cs, h, s :
        /\ left = split.left /\ p = Parent /\ ks = ParentKeys /\ cs = ParentKids
        /\ h = Half(ks) /\ s = ks[h + 1]
  OBVIOUS
<1>4. /\ KidsInv(height) /\ root \in Allocated /\ node[root].parent = NULL
      /\ left \in Allocated /\ node[left].parent = p
  BY <1>1, <1>2, <1>3 DEF TreeInv, SplitInv, Parent
<1>5. /\ p \in Allocated /\ ~node[p].leaf /\ p \in Node
      /\ ks \in Seq(Key) /\ cs \in Seq(Node) /\ Len(cs) = Len(ks) + 1 /\ Ascending(ks)
      /\ h \in Nat /\ h + 1 <= Len(ks) /\ s \in Key /\ s > 1
      /\ \A c \in ToSet(cs) : c \in Allocated /\ node[c].parent = p
  BY <1>3, FullParent
<1>6. s \in Nat
  BY <1>5 DEF Key
<1>7. PICK lk, lc, rk, rc :
         /\ lk = SubSeq(ks, 1, h) /\ lc = SubSeq(cs, 1, h + 1)
         /\ rk = SubSeq(ks, h + 2, Len(ks)) /\ rc = SubSeq(cs, h + 2, Len(cs))
  OBVIOUS
<1>8. PICK new \in Node :
         /\ new \notin Allocated /\ new # p /\ new \in Allocated'
         /\ \A m \in Allocated' : m = new \/ m \in Allocated
         /\ split' = [left |-> p, key |-> s, right |-> new]
         /\ \A m \in Allocated : m # p =>
              /\ node'[m].leaf = node[m].leaf /\ node'[m].keys = node[m].keys
              /\ node'[m].kids = node[m].kids /\ node'[m].rows = node[m].rows
         /\ ~node'[p].leaf /\ node'[p].keys = lk /\ node'[p].kids = lc
         /\ ~node'[new].leaf /\ node'[new].keys = rk /\ node'[new].kids = rc
  BY <1>3, <1>7, HalvedNodes
<1>9. RowsInv'
  <2> SUFFICES ASSUME NEW m \in Allocated', node'[m].leaf, NEW j \in 1..Len(node'[m].keys)
               PROVE  node'[m].rows[j] = RowOf(node'[m].keys[j])
    BY DEF RowsInv, RowOf
  <2>1. m \in Allocated /\ m # p
    BY <1>8
  <2> QED  BY <1>1, <1>8, <2>1 DEF RowsInv
<1>10. ASSUME NEW q \in Key, NEW m PROVE Turned(m, q)' = IF m = p /\ s <= q THEN new ELSE m
  BY <1>1, <1>8 DEF Turned
\* Where the search goes down, seen from the old nodes.
<1>11. ASSUME NEW q \in Key
       PROVE  /\ Routed(p, q)' \in Allocated /\ Routed(new, q)' \in Allocated
              /\ ~(s <= q) => Routed(p, q)' = Turned(Routed(p, q), q)
              /\ s <= q => Routed(new, q)' = Turned(Routed(p, q), q)
              /\ node[Turned(Routed(p, q), q)].parent = p
  <2>1. PICK kid : kid = cs[ChildIndex(ks, q)]
    OBVIOUS
  <2>2. kid = Turned(Routed(p, q), q) /\ kid \in ToSet(cs)
    BY <1>1, <1>3, <2>1, GrownRoutes DEF ToSet
  <2>3. /\ lc[ChildIndex(lk, q)] \in ToSet(cs) /\ rc[ChildIndex(rk, q)] \in ToSet(cs)
        /\ q < ks[h + 1] => lc[ChildIndex(lk, q)] = kid
        /\ ~(q < ks[h + 1]) => rc[ChildIndex(rk, q)] = kid
    BY <1>5, <1>7, <2>1, HalfRoutes
  <2>4. q \in Nat /\ (s <= q <=> ~(q < ks[h + 1]))
    <3>1. q \in Nat
      BY DEF Key
    <3> QED  BY <1>3, <1>6, <3>1
  <2>5. Routed(p, q)' = lc[ChildIndex(lk, q)] /\ Routed(new, q)' = rc[ChildIndex(rk, q)]
    BY <1>8 DEF Routed
  <2> QED  BY <1>5, <2>2, <2>3, <2>4, <2>5
<1>12. ASSUME NEW q \in Key, NEW l, LinkedEnd(l, q)'
       PROVE  l \in Allocated /\ l # p /\ LinkedEnd(l, q)
  <2>1. PICK P : LinkedWay(P, l, q)' /\ l \in Allocated' /\ node'[l].leaf
    BY <1>12 DEF LinkedEnd
  <2>2. /\ P \subseteq Allocated' /\ Turned(root, q)' \in P /\ l \in P
        /\ \A m \in P : \/ m = Turned(root, q)'
                        \/ /\ node'[m].parent \in P /\ ~node'[node'[m].parent].leaf
                           /\ m = Turned(Routed(node[m].parent, q), q)'
    BY <2>1 DEF LinkedWay
  <2>3. l \in Allocated /\ l # p /\ l # new /\ node[l].leaf
    BY <1>8, <2>1
  \* A node of the way below the root is reached from a node u of the way.
  <2>4. ASSUME NEW m \in P, m # Turned(root, q)'
        PROVE  \E u \in P : \E y \in Allocated :
                 /\ ~node'[u].leaf /\ y = Routed(u, q)'
                 /\ m = IF y = p /\ s <= q THEN new ELSE y
    <3>1. PICK u : u \in P /\ ~node'[u].leaf /\ m = Turned(Routed(u, q), q)'
      <4>1. PICK u : u = node'[m].parent
        OBVIOUS
      <4>2. m = Turned(Routed(node[m].parent, q), q)'
        BY <2>2, <2>4
      <4>3. Routed(node[m].parent, q)' = Routed(u, q)'
        BY <4>1 DEF Routed
      <4>4. m = Turned(Routed(u, q), q)'
        BY <4>2, <4>3 DEF Turned
      <4> QED  BY <2>2, <2>4, <4>1, <4>4
    <3>2. PICK y : y = Routed(u, q)'
      OBVIOUS
    <3>3. m = IF y = p /\ s <= q THEN new ELSE y
      BY <1>8, <1>1, <3>1, <3>2 DEF Turned
    <3>4. y \in Allocated
      <4>1. CASE u = p \/ u = new
        BY <1>11, <3>2, <4>1
      <4>2. CASE u # p /\ u # new
        <5>1. u \in Allocated /\ ~node[u].leaf
          BY <1>8, <2>2, <3>1, <4>2
        <5>2. y = Routed(u, q)
          BY <1>8, <3>2, <4>2, <5>1 DEF Routed
        <5> QED  BY <1>1, <1>4, <5>1, <5>2, RoutedKid
      <4> QED  BY <4>1, <4>2
    <3> QED  BY <3>1, <3>2, <3>3, <3>4
  <2>5. \A m \in P : (m = new => s <= q) /\ (m = p => ~(s <= q))
    <3> SUFFICES ASSUME NEW m \in P PROVE (m = new => s <= q) /\ (m = p => ~(s <= q))
      OBVIOUS
    <3>1. CASE m = Turned(root, q)'
      <4>1. m = IF root = p /\ s <= q THEN new ELSE root
        BY <1>1, <1>8, <3>1 DEF Turned
      <4> QED  BY <1>4, <1>8, <4>1
    <3>2. CASE m # Turned(root, q)'
      BY <1>8, <2>4, <3>2
    <3> QED  BY <3>1, <3>2
  <2> DEFINE Old(m) == IF m = new THEN p ELSE m
             Q == { m \in Allocated : m = root \/ m \in P \/ (m = p /\ new \in P) }
  <2>6. ASSUME NEW m \in P
        PROVE  \/ Old(m) = root
               \/ /\ node[Old(m)].parent \in Q /\ ~node[node[Old(m)].parent].leaf
                  /\ Old(m) = Turned(Routed(node[Old(m)].parent, q), q)
    <3>1. CASE m = Turned(root, q)'
      <4>1. m = IF root = p /\ s <= q THEN new ELSE root
        BY <1>1, <1>8, <3>1 DEF Turned
      <4> QED  BY <1>4, <1>8, <4>1
    <3>2. CASE m # Turned(root, q)'
      <4>1. PICK u \in P, y \in Allocated :
              /\ ~node'[u].leaf /\ y = Routed(u, q)'
              /\ m = IF y = p /\ s <= q THEN new ELSE y
        BY <2>4, <3>2
      <4>2. Old(m) = y
        BY <1>8, <4>1
      <4>3. PICK v : v = Old(u)
        OBVIOUS
      <4>4. v \in Q
        <5>1. u = new \/ u \in Allocated
          BY <1>8, <2>2
        <5> QED  BY <1>5, <4>3, <5>1
      <4>5. node[y].parent = v /\ ~node[v].leaf /\ y = Turned(Routed(v, q), q)
        <5>1. CASE u = p \/ u = new
          <6>1. v = p
            BY <4>3, <5>1
          <6>2. y = Turned(Routed(p, q), q)
            BY <1>11, <2>5, <4>1, <5>1
          <6> QED  BY <1>5, <1>11, <6>1, <6>2
        <5>2. CASE u # p /\ u # new
          <6>1. v = u /\ u \in Allocated /\ ~node[u].leaf
            BY <1>8, <2>2, <4>1, <4>3, <5>2
          <6>2. y = Routed(u, q)
            BY <1>8, <4>1, <5>2, <6>1 DEF Routed
          <6>3. node[y].parent = u
            BY <1>1, <1>4, <6>1, <6>2, RoutedKid
          <6>4. y # left
            BY <1>4, <5>2, <6>3
          <6>5. Turned(y, q) = y
            BY <1>3, <6>4 DEF Turned
          <6> QED  BY <6>1, <6>2, <6>3, <6>5
        <5> QED  BY <5>1, <5>2
      <4> HIDE DEF Q, Old
      <4> QED  BY <4>2, <4>4, <4>5
    <3> QED  BY <3>1, <3>2
  <2>7. Turned(root, q) = root
    <3>1. root # left
      BY <1>1, <1>3, <1>4
    <3> QED  BY <1>3, <3>1 DEF Turned
  <2>8. Q \subseteq Allocated /\ root \in Q /\ l \in Q
    BY <1>4, <2>2, <2>3
  <2>9. ASSUME NEW m \in Q, m # root
         PROVE  /\ node[m].parent \in Q /\ ~node[node[m].parent].leaf
                /\ m = Turned(Routed(node[m].parent, q), q)
    <3>1. PICK n \in P : m = Old(n)
      <4>1. m \in P \/ (m = p /\ new \in P)
        BY <2>9
      <4>2. m # new
        BY <1>8, <2>8
      <4> QED  BY <4>1, <4>2
    <3> HIDE DEF Q, Old
    <3> QED  BY <2>6, <2>9, <3>1
  <2>10. LinkedWay(Q, l, q)
    <3> HIDE DEF Q, Old
    <3> QED  BY <2>7, <2>8, <2>9 DEF LinkedWay
  <2> HIDE DEF Q, Old
  <2> QED  BY <2>3, <2>10 DEF LinkedEnd
<1>13. ASSUME NEW q \in Key, NEW l, LinkedEnd(l, q)'
       PROVE  HasKey(l, q)' <=> q = inserting \/ found[q] # NULL
  <2>1. l \in Allocated /\ l # p /\ LinkedEnd(l, q)
    BY <1>12, <1>13
  <2>2. HasKey(l, q) <=> q = inserting \/ found[q] # NULL
    BY <1>1, <2>1 DEF CallInv
  <2> QED  BY <1>8, <2>1, <2>2 DEF HasKey
<1>14. found[inserting] = NULL /\ \A q \in Key : found[q] \in {NULL, RowOf(q)}
  BY <1>1 DEF CallInv
<1>15. step' = "parent" /\ split'.key > 1 /\ found'[inserting'] = NULL
  BY <1>1, <1>5, <1>8, <1>14
<1>16. \A q \in Key : found'[q] \in {NULL, RowOf(q)'}
  BY <1>1, <1>14 DEF RowOf
<1>17. \A q \in Key : \A l : LinkedEnd(l, q)' => (HasKey(l, q)' <=> q = inserting' \/ found'[q] # NULL)
  BY <1>1, <1>13
<1> QED  BY <1>9, <1>15, <1>16, <1>17 DEF CallInv

\* What lies between two keys that go down to the same child goes there too.
LEMMA RoutedBetween ==
  ASSUME NodesOK, NEW height, KidsInv(height), NEW below, KeysInv(below),
         NEW u \in Allocated, ~node[u].leaf, NEW a \in Key, NEW q \in Key, NEW b \in Key,
         a <= q, q <= b, Routed(u, a) = Routed(u, b)
  PROVE  Routed(u, q) = Routed(u, a)
<1>1. PICK ks, cs : ks = node[u].keys /\ cs = node[u].kids
  OBVIOUS
<1>2. ks \in Seq(Nat) /\ Len(ks) \in Nat /\ Len(cs) = Len(ks) + 1
      /\ \A j \in 1..Len(ks) : ks[j] \in Nat
  BY <1>1, NodeFields DEF Key
<1>3. Ascending(ks) /\ \A i, j \in 1..Len(cs) : cs[j] = cs[i] => j = i
  BY <1>1 DEF KidsInv, KeysInv
<1>4. a \in Nat /\ q \in Nat /\ b \in Nat
  BY DEF Key
<1>5. PICK i, j : i = ChildIndex(ks, a) /\ j = ChildIndex(ks, b)
  OBVIOUS
<1>6. /\ i \in 1..(Len(ks) + 1)
      /\ \A m \in 1..(i - 1) : ks[m] <= a
  BY <1>2, <1>4, <1>5, ChildIndexFits
<1>7. /\ j \in 1..(Len(ks) + 1)
      /\ j <= Len(ks) => b < ks[j]
  BY <1>2, <1>4, <1>5, ChildIndexFits
<1>8. i = j
  <2>1. cs[i] = cs[j]
    BY <1>1, <1>5 DEF Routed
  <2> QED  BY <1>2, <1>3, <1>6, <1>7, <2>1
<1>9. i > 1 => ks[i - 1] <= q
  <2>1. i > 1 => i - 1 \in 1..(i - 1) /\ i - 1 \in 1..Len(ks)
    BY <1>2, <1>6
  <2>2. i > 1 => ks[i - 1] <= a /\ ks[i - 1] \in Nat
    BY <1>2, <1>6, <2>1
  <2> QED  BY <1>4, <2>2
<1>10. i <= Len(ks) => q < ks[i]
  <2>1. i <= Len(ks) => i \in 1..Len(ks)
    BY <1>6
  <2> QED  BY <1>2, <1>4, <1>7, <1>8, <2>1
<1>11. ChildIndex(ks, q) = i
  BY <1>2, <1>3, <1>4, <1>6, <1>9, <1>10, ChildIndexIs
<1> QED  BY <1>1, <1>5, <1>11 DEF Routed

\* The same of the way to a node.
LEMMA WayBetween ==
  ASSUME NodesOK, NEW height, KidsInv(height), NEW below, KeysInv(below),
         NEW n, NEW P, NEW Q, NEW a \in Key, NEW q \in Key, NEW b \in Key,
         a <= q, q <= b, WayDown(P, root, n, a), WayDown(Q, root, n, b)
  PROVE  WayDown(P \cap Q, root, n, q)
<1>1. P \cap Q \subseteq Allocated /\ root \in P \cap Q /\ n \in P \cap Q
  BY DEF WayDown
<1>2. ASSUME NEW m \in P \cap Q, m # root
      PROVE  /\ node[m].parent \in P \cap Q /\ ~node[node[m].parent].leaf
             /\ m = Routed(node[m].parent, q)
  <2>1. PICK u : u = node[m].parent
    OBVIOUS
  <2>2. u \in P /\ ~node[u].leaf /\ m = Routed(u, a)
    BY <1>2, <2>1 DEF WayDown
  <2>3. u \in Q /\ m = Routed(u, b)
    BY <1>2, <2>1 DEF WayDown
  <2>4. u \in Allocated
    BY <2>2 DEF WayDown
  <2>5. Routed(u, q) = m
    BY <2>2, <2>3, <2>4, RoutedBetween
  <2> QED  BY <2>1, <2>2, <2>3, <2>5
<1> QED  BY <1>1, <1>2 DEF WayDown

\* Keys that have with any two of them what lies between are an interval.
LEMMA Interval ==
  ASSUME NEW L, L \subseteq Key, NEW s \in Key, s > 1,
         \A a, b \in L : \A q \in Key : a <= q /\ q <= b => q \in L
  PROVE  \E lo, hi \in Key : \A q \in Key : q \in L <=> q \in lo..hi
<1>1. MaxKey \in Nat /\ L \subseteq Nat
  BY BPTreeAssumption DEF Key
<1>2. CASE L = {}
  <2>1. s - 1 \in Key /\ \A q \in Key : q \notin s..(s - 1)
    BY <1>1 DEF Key
  <2> QED  BY <1>2, <2>1
<1>3. CASE L # {}
  <2>1. PICK lo \in L : \A q \in L : lo <= q
    BY <1>1, <1>3, LeastNatural
  <2> DEFINE R == { MaxKey - q : q \in L }
  <2>2. \A q \in L : q \in Nat /\ MaxKey - q \in Nat
    BY <1>1 DEF Key
  <2>3. R \subseteq Nat /\ R # {}
    BY <1>3, <2>2
  <2>4. PICK r \in R : \A x \in R : r <= x
    <3> HIDE DEF R
    <3> QED  BY <2>3, LeastNatural
  <2>5. PICK hi \in L : r = MaxKey - hi
    BY <2>4
  <2>6. \A q \in L : q <= hi
    <3> SUFFICES ASSUME NEW q \in L PROVE q <= hi
      OBVIOUS
    <3>1. MaxKey - q \in R
      OBVIOUS
    <3>2. r <= MaxKey - q
      BY <2>4, <3>1
    <3> QED  BY <1>1, <2>2, <2>5, <3>2
  <2>7. \A q \in Key : q \in L <=> q \in lo..hi
    <3>1. Key \subseteq Nat
      BY DEF Key
    <3>2. \A q \in Key : q \in L <=> lo <= q /\ q <= hi
      BY <2>1, <2>6
    <3>3. lo \in Nat /\ hi \in Nat
      BY <1>1
    <3> QED  BY <3>1, <3>2, <3>3
  <2> QED  BY <2>7
<1> QED  BY <1>2, <1>3

\* The split that is not linked loses what goes down to its lower half and should
\* have turned to the upper one; every other search finds what was announced.
LEMMA FailToLinkLoses ==
  ASSUME BPTreeInv, CallInv, FailToLink
  PROVE  /\ RowsInv'
         /\ \E lo, hi \in Key :
              /\ found' = [q \in Key |-> IF q \in lo..hi THEN NULL
                                        ELSE IF q = inserting THEN RowOf(q) ELSE found[q]]
              /\ \A q \in Key : q \in lo..hi <=>
                   split.key <= q /\ \E P : WayDown(P, root, split.left, q)
<1>1. /\ NodesOK /\ TreeOK /\ RowsInv /\ step = "parent" /\ step' = "ready"
      /\ UNCHANGED <<root, node>> /\ failures' = failures + 1
      /\ found' = [q \in Key |-> Search(q)']
  BY DEF BPTreeInv, CallInv, FailToLink, CallocFails, Fail, Return
<1>2. PICK top, height, below : TreeInv(top, height, below)
  BY <1>1 DEF TreeOK
<1>3. PICK left, s, k : left = split.left /\ s = split.key /\ k = inserting
  OBVIOUS
<1>4. /\ root # NULL /\ root \in Allocated /\ KidsInv(height) /\ KeysInv(below)
      /\ left \in Allocated /\ s \in Key /\ k \in Key
      /\ \A x \in below[left] : x < s
      /\ below \in [Node -> SUBSET Key]
  BY <1>1, <1>2, <1>3 DEF TreeInv, SplitInv
<1>5. /\ s > 1 /\ found[k] = NULL /\ \A q \in Key : found[q] \in {NULL, RowOf(q)}
      /\ \A q \in Key : \A n :
           LinkedEnd(n, q) => (HasKey(n, q) <=> q = k \/ found[q] # NULL)
  BY <1>1, <1>3 DEF CallInv
<1>6. WaysMeet
  BY <1>1, TreeWaysMeet
<1>7. \A q \in Key : Search(q)' = IF HasKey(FindLeaf(q), q) THEN RowOf(q) ELSE NULL
  <2>1. SearchValue
    BY <1>1, TreeSearchValue
  <2>2. ASSUME NEW q \in Key PROVE Search(q)' = Search(q)
    BY <1>1, SameSearch
  <2> QED  BY <1>4, <2>1, <2>2 DEF SearchValue
<1> DEFINE L == { q \in Key : s <= q /\ \E P : WayDown(P, root, left, q) }
<1>8. ASSUME NEW q \in Key, q \notin L
      PROVE  Search(q)' = IF q = k THEN RowOf(q) ELSE found[q]
  <2>1. PICK l, P : l = FindLeaf(q) /\ l \in Allocated /\ node[l].leaf /\ WayDown(P, root, l, q)
    BY <1>4, <1>6 DEF WaysMeet
  <2>2. ~(left \in P /\ s <= q)
    <3>1. ASSUME left \in P PROVE WayDown(P, root, left, q)
      BY <2>1, <3>1 DEF WayDown
    <3> QED  BY <1>8, <3>1
  <2>3. ASSUME NEW m \in P PROVE Turned(m, q) = m
    BY <1>3, <2>2 DEF Turned
  <2>4. LinkedWay(P, l, q)
    <3>1. P \subseteq Allocated /\ root \in P /\ l \in P
      BY <2>1 DEF WayDown
    <3>2. Turned(root, q) = root
      BY <2>3, <3>1
    <3>3. ASSUME NEW m \in P, m # root
          PROVE  /\ node[m].parent \in P /\ ~node[node[m].parent].leaf
                 /\ m = Turned(Routed(node[m].parent, q), q)
      <4>1. /\ node[m].parent \in P /\ ~node[node[m].parent].leaf
            /\ m = Routed(node[m].parent, q)
        BY <2>1, <3>3 DEF WayDown
      <4>2. Turned(m, q) = m
        BY <2>3
      <4> QED  BY <4>1, <4>2
    <3> QED  BY <3>1, <3>2, <3>3 DEF LinkedWay
  <2>5. HasKey(l, q) <=> q = k \/ found[q] # NULL
    BY <1>5, <2>1, <2>4 DEF LinkedEnd
  <2>6. found[q] \in {NULL, RowOf(q)}
    BY <1>5
  <2> QED  BY <1>7, <2>1, <2>5, <2>6
<1>9. ASSUME NEW q \in L PROVE Search(q)' = NULL
  <2>1. PICK P : WayDown(P, root, left, q)
    OBVIOUS
  <2>2. PICK l, Q : /\ l \in Allocated /\ node[l].leaf /\ below[l] \subseteq below[left]
                    /\ WayDown(Q, left, l, q)
    BY <1>1, <1>2, <1>4, WaysEnd
  <2>3. WayDown(P \cup Q, root, l, q)
    BY <2>1, <2>2 DEF WayDown
  <2>4. l = FindLeaf(q)
    BY <1>4, <1>6, <2>2, <2>3 DEF WaysMeet
  <2>5. ~HasKey(l, q)
    <3> SUFFICES ASSUME NEW j \in 1..Len(node[l].keys), node[l].keys[j] = q PROVE FALSE
      BY DEF HasKey
    <3>1. q \in below[l]
      BY <1>4, <2>2 DEF KeysInv
    <3>2. q < s /\ s <= q /\ q \in Nat /\ s \in Nat
      BY <1>4, <2>2, <3>1 DEF Key
    <3> QED  BY <3>2
  <2> QED  BY <1>7, <2>4, <2>5
<1>10. PICK lo \in Key, hi \in Key : \A q \in Key : q \in L <=> q \in lo..hi
  <2>1. ASSUME NEW a \in L, NEW b \in L, NEW q \in Key, a <= q, q <= b PROVE q \in L
    <3>1. PICK P, Q : WayDown(P, root, left, a) /\ WayDown(Q, root, left, b)
      OBVIOUS
    <3>2. WayDown(P \cap Q, root, left, q)
      BY <1>1, <1>4, <2>1, <3>1, WayBetween
    <3>3. s <= q
      <4>1. s <= a /\ s \in Nat /\ a \in Nat /\ q \in Nat
        BY <1>4 DEF Key
      <4> QED  BY <2>1, <4>1
    <3> QED  BY <3>2, <3>3
  <2>2. L \subseteq Key
    OBVIOUS
  <2> HIDE DEF L
  <2> QED  BY <1>4, <1>5, <2>1, <2>2, Interval
<1>11. \A q \in Key : q \in lo..hi <=>
         split.key <= q /\ \E P : WayDown(P, root, split.left, q)
  BY <1>3, <1>10
<1> HIDE DEF L
<1>12. \A q \in Key : Search(q)' = IF q \in lo..hi THEN NULL
                                   ELSE IF q = k THEN RowOf(q) ELSE found[q]
  BY <1>8, <1>9, <1>10
<1>13. found' = [q \in Key |-> IF q \in lo..hi THEN NULL
                               ELSE IF q = k THEN RowOf(q) ELSE found[q]]
  BY <1>1, <1>12
<1>14. RowsInv'
  BY <1>1 DEF RowsInv, Allocated, RowOf
<1> QED  BY <1>3, <1>13, <1>14, <1>11

LEMMA FailToLinkFound ==
  ASSUME BPTreeInv, CallInv, FailToLink
  PROVE  RowsInv' /\ Index!FailToInsert
<1>1. step = "parent" /\ failures' = failures + 1
  BY DEF FailToLink, CallocFails
<1>2. inserting \in Key /\ found[inserting] = NULL
  BY <1>1 DEF BPTreeInv, TreeOK, TreeInv, SplitInv, CallInv
<1>3. PICK lo, hi \in Key :
        found' = [q \in Key |-> IF q \in lo..hi THEN NULL
                               ELSE IF q = inserting THEN RowOf(q) ELSE found[q]]
  BY FailToLinkLoses
<1>4. found' = [q \in Key |-> IF q \in lo..hi THEN NULL
                             ELSE IF q = inserting THEN RowOf(inserting) ELSE found[q]]
  BY <1>3
<1> QED  BY <1>1, <1>2, <1>4, FailToLinkLoses DEF Index!FailToInsert

\* Between calls, found is what searches find by definition.
LEMMA ReturnFinds == ASSUME Return, RowsInv' PROVE CallInv'
BY DEF Return, CallInv

\* A step of a call is a step of the index or changes nothing that is found.
LEMMA InsertFound ==
  ASSUME BPTreeInv, CallInv, NEW k \in Key, Insert(k)
  PROVE  CallInv' /\ [Index!Next]_<<found, failures>>
<1>1. /\ step = "ready" /\ NodesOK /\ TreeOK /\ RowsInv
      /\ found = [q \in Key |-> Search(q)]
  BY DEF BPTreeInv, CallInv, Insert
<1>2. CASE FirstKey(k)
  <2>1. RowsInv' /\ Index!Insert(k) /\ Return
    BY <1>1, <1>2, FirstKeyFound DEF FirstKey, Accept
  <2> QED  BY <2>1, ReturnFinds DEF Index!Next
<1>3. CASE InsertIntoLeaf(k)
  <2>1. RowsInv' /\ Index!Insert(k) /\ Return
    BY <1>1, <1>3, InsertIntoLeafFound DEF InsertIntoLeaf, Accept
  <2> QED  BY <2>1, ReturnFinds DEF Index!Next
<1>4. CASE SplitLeaf(k)
  <2>1. CallInv'
    BY <1>1, <1>4, SplitLeafFound
  <2> QED  BY <1>4, <2>1 DEF SplitLeaf
<1>5. CASE RefuseDuplicate(k) \/ FailToGrow(k)
  <2>1. /\ UNCHANGED <<root, node>> /\ Return
        /\ UNCHANGED failures \/ failures' = failures + 1
    BY <1>5 DEF RefuseDuplicate, FailToGrow, CallocFails, Fail
  <2>2. step' = "ready"
    BY <2>1 DEF Return
  <2>3. RowsInv' /\ \A q \in Key : Search(q)' = Search(q)
    BY <1>1, <2>1, <2>2, SameSearch
  <2>4. UNCHANGED found
    BY <1>1, <2>1, <2>3 DEF Return
  <2> QED  BY <2>1, <2>3, <2>4, ReturnFinds DEF Index!Next, Index!FailToInsert
<1> QED  BY <1>2, <1>3, <1>4, <1>5 DEF Insert

LEMMA ParentFound ==
  ASSUME BPTreeInv, CallInv, NewRoot \/ InsertIntoInternal \/ SplitInternal \/ FailToLink
  PROVE  CallInv' /\ [Index!Next]_<<found, failures>>
<1>1. inserting \in Key
  BY DEF NewRoot, InsertIntoInternal, SplitInternal, FailToLink,
         BPTreeInv, TreeOK, TreeInv, SplitInv
<1>2. CASE NewRoot
  <2>1. RowsInv' /\ Index!Insert(inserting) /\ Return
    BY <1>2, NewRootFound DEF NewRoot, Accept
  <2> QED  BY <1>1, <2>1, ReturnFinds DEF Index!Next
<1>3. CASE InsertIntoInternal
  <2>1. RowsInv' /\ Index!Insert(inserting) /\ Return
    BY <1>3, InsertIntoInternalFound DEF InsertIntoInternal, Accept
  <2> QED  BY <1>1, <2>1, ReturnFinds DEF Index!Next
<1>4. CASE SplitInternal
  <2>1. CallInv'
    BY <1>4, SplitInternalFound
  <2> QED  BY <1>4, <2>1 DEF SplitInternal
<1>5. CASE FailToLink
  <2>1. RowsInv' /\ Index!FailToInsert /\ Return
    BY <1>5, FailToLinkFound DEF FailToLink, Fail
  <2> QED  BY <2>1, ReturnFinds DEF Index!Next
<1> QED  BY <1>2, <1>3, <1>4, <1>5

LEMMA OtherFound ==
  ASSUME BPTreeInv, CallInv, Free \/ Ended \/ UNCHANGED vars
  PROVE  CallInv' /\ [Index!Next]_<<found, failures>>
<1>1. CASE Free
  BY <1>1 DEF Free, CallInv, Index!Next, Index!Clear
<1>2. CASE Ended \/ UNCHANGED vars
  <2>1. UNCHANGED <<root, node, step, split, inserting, inserted, found, failures>>
    BY <1>2 DEF Ended, vars
  <2>2. ASSUME RowsInv PROVE RowsInv'
    BY <2>1, <2>2 DEF RowsInv, Allocated, RowOf
  <2>3. ASSUME step = "ready", NEW q \in Key PROVE Search(q)' = Search(q)
    <3>1. NodesOK /\ TreeOK /\ RowsInv /\ step' = "ready"
      BY <2>1, <2>3 DEF BPTreeInv, CallInv
    <3> QED  BY <2>1, <3>1, SameSearch
  <2>4. ASSUME NEW n, NEW q \in Key PROVE (LinkedEnd(n, q)' <=> LinkedEnd(n, q)) /\ (HasKey(n, q)' <=> HasKey(n, q))
    BY <2>1 DEF LinkedEnd, LinkedWay, Turned, Routed, HasKey, Allocated
  <2>5. step = "ready" => found' = [q \in Key |-> Search(q)']
    BY <2>1, <2>3 DEF CallInv
  <2>6. step = "parent" =>
          /\ split.key > 1 /\ found[inserting] = NULL
          /\ \A q \in Key : found[q] \in {NULL, RowOf(q)}
          /\ \A q \in Key : \A n :
               LinkedEnd(n, q)' => (HasKey(n, q)' <=> q = inserting \/ found[q] # NULL)
    BY <2>4 DEF CallInv
  <2>7. step # "freed" => RowsInv'
    BY <2>2 DEF CallInv
  <2> QED  BY <2>1, <2>5, <2>6, <2>7 DEF CallInv, RowOf
<1> QED  BY <1>1, <1>2

LEMMA InitFound == Init => CallInv /\ Index!Init
<1> SUFFICES ASSUME Init PROVE CallInv /\ Index!Init
  OBVIOUS
<1>1. RowsInv
  BY DEF Init, RowsInv, Allocated
<1>2. \A q \in Key : Search(q) = NULL
  BY DEF Init, Search
<1> QED  BY <1>1, <1>2 DEF Init, CallInv, Index!Init

LEMMA NextFound ==
  ASSUME BPTreeInv, CallInv, [Next]_vars
  PROVE  CallInv' /\ [Index!Next]_<<found, failures>>
<1>1. ASSUME NEW k \in Key, Insert(k) PROVE CallInv' /\ [Index!Next]_<<found, failures>>
  BY <1>1, InsertFound
<1>2. CASE NewRoot \/ InsertIntoInternal \/ SplitInternal \/ FailToLink
  BY <1>2, ParentFound
<1>3. CASE Free \/ Ended \/ UNCHANGED vars
  BY <1>3, OtherFound
<1> QED  BY <1>1, <1>2, <1>3 DEF Next

\* What found says holds at every step of every call.
LEMMA CallInvHolds == Spec => []CallInv
<1>1. Init => CallInv
  BY InitFound
<1>2. BPTreeInv /\ CallInv /\ [Next]_vars => CallInv'
  BY NextFound
<1> QED  BY <1>1, <1>2, TreeInvHolds, PTL DEF Spec

(***************************************************************************)
(* The tree keeps what IdIndex promises a table: an insert adds its key    *)
(* and no other, and a call that fails above a split loses the keys of one *)
(* interval and leads no search to a wrong row (bptree.c:78-99, 300-335).  *)
(***************************************************************************)
THEOREM IndexPromiseHolds == Spec => IndexPromise
<1>1. Init => Index!Init
  BY InitFound
<1>2. BPTreeInv /\ CallInv /\ [Next]_vars => [Index!Next]_<<found, failures>>
  BY NextFound
<1> QED  BY <1>1, <1>2, TreeInvHolds, CallInvHolds, PTL DEF Spec, IndexPromise, Index!Spec

-------------------------------------------------------------------------------
\* What a failure loses

\* A key this large has been inserted since the tree was made.
Passed(x) == \E j \in inserted : x <= j

SeparatorsPassed ==
  \A m \in Allocated : ~node[m].leaf =>
    \A j \in 1..Len(node[m].keys) : Passed(node[m].keys[j])

\* No separator and nothing that is found is larger than all keys inserted, and a
\* search for the new key passes the lower half of the split.
NewestInv ==
  /\ \A q \in Key : found[q] # NULL => Passed(q)
  /\ step # "freed" => SeparatorsPassed
  /\ step = "parent" =>
       /\ Passed(split.key)
       /\ \E P : WayDown(P, root, split.left, inserting)

LEMMA HighestOf ==
  ASSUME NEW top \in Nat, NEW height \in [Node -> 0..top], NEW T, T \subseteq Node, T # {}
  PROVE  \E m \in T : \A x \in T : height[x] <= height[m]
<1> DEFINE R == { top - height[m] : m \in T }
<1>1. \A m \in T : height[m] \in Nat /\ top - height[m] \in Nat
  OBVIOUS
<1>2. R \subseteq Nat /\ R # {}
  BY <1>1
<1>3. PICK r \in R : \A x \in R : r <= x
  <2> HIDE DEF R
  <2> QED  BY <1>2, LeastNatural
<1>4. PICK m \in T : r = top - height[m]
  BY <1>3
<1>5. ASSUME NEW x \in T PROVE height[x] <= height[m]
  <2>1. r <= top - height[x]
    <3>1. top - height[x] \in R
      OBVIOUS
    <3> HIDE DEF R
    <3> QED  BY <1>3, <3>1
  <2> QED  BY <1>1, <1>4, <2>1
<1> QED  BY <1>5

\* The part of a way that has with each node its parent begins at the root.
LEMMA ReachesRoot ==
  ASSUME NodesOK, NEW top \in Nat, NEW height \in [Node -> 0..top], KidsInv(height),
         NEW n, NEW k \in Key, NEW P, WayDown(P, root, n, k),
         NEW T, T \subseteq P, T # {}, \A m \in T : m # root => node[m].parent \in T
  PROVE  root \in T
<1>1. T \subseteq Node /\ T \subseteq Allocated
  BY DEF WayDown, Allocated
<1>2. PICK m \in T : \A x \in T : height[x] <= height[m]
  BY <1>1, HighestOf
<1>3. m = root
  <2> SUFFICES ASSUME m # root PROVE FALSE
    OBVIOUS
  <2>1. PICK u : u = node[m].parent
    OBVIOUS
  <2>2. u \in T /\ u \in Allocated /\ ~node[u].leaf /\ m = Routed(u, k)
    BY <1>1, <2>1 DEF WayDown
  <2>3. height[u] = height[m] + 1
    BY <2>2, RoutedKid
  <2>4. height[u] <= height[m]
    BY <1>2, <2>2
  <2>5. height[m] \in Nat
    BY <1>1
  <2> QED  BY <2>3, <2>4, <2>5
<1> QED  BY <1>3

\* A search for a key of a node goes down to that node.
LEMMA WayOfKey ==
  ASSUME NodesOK, NEW top, NEW height, NEW below, TreeInv(top, height, below),
         NEW k \in Key, NEW n, NEW P, WayDown(P, root, n, k), NEW x \in below[n]
  PROVE  x \in Key /\ \E Q : WayDown(Q, root, n, x)
<1>1. /\ top \in Nat /\ height \in [Node -> 0..top] /\ below \in [Node -> SUBSET Key]
      /\ KidsInv(height) /\ KeysInv(below)
      /\ P \subseteq Allocated /\ P \subseteq Node /\ n \in P
  BY DEF TreeInv, WayDown, Allocated
<1>2. x \in Key /\ x \in Nat
  BY <1>1 DEF Key
<1>3. PICK Q : Q = { m \in P : x \in below[m] }
  OBVIOUS
<1>4. n \in Q /\ Q \subseteq P
  BY <1>1, <1>3
<1>5. ASSUME NEW m \in Q, m # root
      PROVE  /\ node[m].parent \in Q /\ ~node[node[m].parent].leaf
             /\ m = Routed(node[m].parent, x)
  <2>1. PICK u : u = node[m].parent
    OBVIOUS
  <2>2. u \in P /\ u \in Allocated /\ ~node[u].leaf /\ m = Routed(u, k) /\ x \in below[m]
    BY <1>1, <1>3, <1>5, <2>1 DEF WayDown
  <2>3. PICK i : i = ChildIndex(node[u].keys, k)
    OBVIOUS
  <2>4. i \in 1..Len(node[u].kids) /\ node[u].kids[i] = m
    BY <1>1, <2>2, <2>3, RoutedKid DEF Routed
  <2>5. /\ x \in below[u]
        /\ i > 1 => node[u].keys[i - 1] <= x
        /\ i <= Len(node[u].keys) => x < node[u].keys[i]
    BY <1>1, <2>2, <2>4 DEF KeysInv
  <2>6. /\ node[u].keys \in Seq(Nat) /\ Ascending(node[u].keys)
        /\ i \in 1..(Len(node[u].keys) + 1)
    BY <1>1, <2>2, <2>4, NodeFields DEF KeysInv
  <2>7. ChildIndex(node[u].keys, x) = i
    BY <1>2, <2>5, <2>6, ChildIndexIs
  <2>8. m = Routed(u, x)
    BY <2>4, <2>7 DEF Routed
  <2> QED  BY <1>3, <2>1, <2>2, <2>5, <2>8
<1>6. root \in Q
  BY <1>1, <1>4, <1>5, ReachesRoot
<1>7. WayDown(Q, root, n, x)
  BY <1>1, <1>4, <1>5, <1>6 DEF WayDown
<1> QED  BY <1>2, <1>7

\* So every key of the leaf where a search ends is found.
LEMMA LeafKeysFound ==
  ASSUME NodesOK, TreeOK, RowsInv, root # NULL, NEW k \in Key, NEW x, HasKey(FindLeaf(k), x)
  PROVE  x \in Key /\ Search(x) # NULL
<1>1. PICK top, height, below : TreeInv(top, height, below)
  BY DEF TreeOK
<1>2. WaysMeet /\ SearchValue
  BY TreeWaysMeet, TreeSearchValue
<1>3. PICK n, P : n = FindLeaf(k) /\ n \in Allocated /\ node[n].leaf /\ WayDown(P, root, n, k)
  BY <1>2 DEF WaysMeet
<1>4. x \in below[n]
  BY <1>1, <1>3 DEF TreeInv, KeysInv, HasKey
<1>5. x \in Key /\ \E Q : WayDown(Q, root, n, x)
  BY <1>1, <1>3, <1>4, WayOfKey
<1>6. FindLeaf(x) = n
  BY <1>2, <1>3, <1>5 DEF WaysMeet
<1>7. HasKey(FindLeaf(x), x)
  BY <1>3, <1>6
<1> QED  BY <1>2, <1>5, <1>7 DEF SearchValue

LEMMA BelowPassed ==
  ASSUME BPTreeInv, NEW x \in Nat, NEW y \in Nat, x <= y, Passed(y)
  PROVE  Passed(x)
<1>1. PICK j \in inserted : y <= j
  BY DEF Passed
<1>2. j \in Nat
  BY <1>1 DEF BPTreeInv, TypeOK, Key
<1>3. x <= j
  BY <1>1, <1>2
<1> QED  BY <1>1, <1>3 DEF Passed

LEMMA SeparatorsKept ==
  ASSUME inserted \subseteq inserted',
         \A m \in Allocated' : ~node'[m].leaf =>
           \A j \in 1..Len(node'[m].keys) : Passed(node'[m].keys[j])
  PROVE  SeparatorsPassed'
BY DEF SeparatorsPassed, Passed

\* A call that succeeds adds its own key to what is found.
LEMMA AcceptNewest ==
  ASSUME BPTreeInv, NewestInv, NEW k \in Key, Accept(k), Index!Insert(k), SeparatorsPassed'
  PROVE  NewestInv'
<1>1. /\ inserted' = inserted \cup {k} /\ step' = "ready" /\ found' = [found EXCEPT ![k] = RowOf(k)]
      /\ found \in [Key -> Nat \cup {NULL}]
  BY DEF Accept, Return, Index!Insert, BPTreeInv, TypeOK
<1>2. ASSUME NEW q \in Key, found'[q] # NULL PROVE Passed(q)'
  <2>1. CASE q = k
    <3>1. q <= k /\ k \in inserted'
      BY <1>1, <2>1 DEF Key
    <3> QED  BY <3>1 DEF Passed
  <2>2. CASE q # k
    <3>1. Passed(q)
      BY <1>1, <1>2, <2>2 DEF NewestInv
    <3> QED  BY <1>1, <3>1 DEF Passed
  <2> QED  BY <2>1, <2>2
<1> QED  BY <1>1, <1>2 DEF NewestInv

\* A call that changes no node changes nothing that is found.
LEMMA RefusedNewest ==
  ASSUME BPTreeInv, CallInv, NewestInv, step = "ready", Fail, UNCHANGED <<root, node>>
  PROVE  NewestInv' /\ UNCHANGED found
<1>1. /\ NodesOK /\ TreeOK /\ RowsInv /\ found = [q \in Key |-> Search(q)]
      /\ step' = "ready" /\ found' = [q \in Key |-> Search(q)'] /\ inserted' = inserted
  BY DEF BPTreeInv, CallInv, Fail, Return
<1>2. \A q \in Key : Search(q)' = Search(q)
  BY <1>1, SameSearch
<1>3. found' = found
  BY <1>1, <1>2
<1>4. SeparatorsPassed'
  BY <1>1 DEF NewestInv, SeparatorsPassed, Passed, Allocated
<1> QED  BY <1>1, <1>3, <1>4 DEF NewestInv, Passed

LEMMA FirstKeyNewest ==
  ASSUME BPTreeInv, CallInv, NewestInv, step = "ready", NEW k \in Key, FirstKey(k)
  PROVE  NewestInv' /\ Index!Insert(k)
<1>1. NodesOK /\ Accept(k) /\ inserted \subseteq inserted'
  BY DEF BPTreeInv, FirstKey, Accept
<1>2. PICK n \in Node : node' = [node EXCEPT ![n] = Leaf(<<k>>, <<RowOf(k)>>, NULL, NULL)]
  BY DEF FirstKey
<1>3. node'[n].leaf /\ \A m \in Node : m # n => node'[m] = node[m]
  BY <1>1, <1>2 DEF NodesOK, Leaf
<1>4. SeparatorsPassed'
  <2>1. ASSUME NEW m \in Allocated', ~node'[m].leaf, NEW j \in 1..Len(node'[m].keys)
        PROVE  Passed(node'[m].keys[j])
    <3>1. m \in Allocated /\ node'[m] = node[m]
      BY <1>3, <2>1 DEF Allocated
    <3> QED  BY <2>1, <3>1 DEF NewestInv, SeparatorsPassed
  <2> QED  BY <1>1, <2>1, SeparatorsKept
<1>5. Index!Insert(k)
  BY FirstKeyFound
<1> QED  BY <1>1, <1>4, <1>5, AcceptNewest

LEMMA InsertIntoLeafNewest ==
  ASSUME BPTreeInv, CallInv, NewestInv, step = "ready", NEW k \in Key, InsertIntoLeaf(k)
  PROVE  NewestInv' /\ Index!Insert(k)
<1>1. /\ NodesOK /\ TreeOK /\ root # NULL /\ Accept(k) /\ inserted \subseteq inserted'
  BY DEF BPTreeInv, InsertIntoLeaf, Missing, Accept
<1>2. PICK n, keys, rows : n = FindLeaf(k) /\ keys = KeysWith(n, k) /\ rows = RowsWith(n, k)
  OBVIOUS
<1>3. n \in Allocated /\ node[n].leaf /\ n \in Node /\ node[n] \in TreeNode
  BY <1>1, <1>2, TreeWaysMeet, NodeFields DEF WaysMeet
<1>4. node' = [node EXCEPT ![n].keys = keys, ![n].rows = rows]
  BY <1>2 DEF InsertIntoLeaf
<1>5. node'[n].leaf /\ \A m \in Node : m # n => node'[m] = node[m]
  BY <1>1, <1>3, <1>4 DEF NodesOK, TreeNode
<1>6. SeparatorsPassed'
  <2>1. ASSUME NEW m \in Allocated', ~node'[m].leaf, NEW j \in 1..Len(node'[m].keys)
        PROVE  Passed(node'[m].keys[j])
    <3>1. m \in Allocated /\ node'[m] = node[m]
      BY <1>5, <2>1 DEF Allocated
    <3> QED  BY <2>1, <3>1 DEF NewestInv, SeparatorsPassed
  <2> QED  BY <1>1, <2>1, SeparatorsKept
<1>7. Index!Insert(k)
  BY InsertIntoLeafFound
<1> QED  BY <1>1, <1>6, <1>7, AcceptNewest

\* The key that goes up from a leaf is not the largest of it: the new key, when it
\* is larger than all others, stays behind it.
LEMMA SplitLeafNewest ==
  ASSUME BPTreeInv, CallInv, NewestInv, step = "ready", NEW k \in Key, SplitLeaf(k)
  PROVE  NewestInv'
<1>1. /\ NodesOK /\ TreeOK /\ RowsInv /\ found = [q \in Key |-> Search(q)]
      /\ root # NULL /\ Missing(k) /\ root' = root /\ found' = found /\ inserted' = inserted
      /\ step' = "parent" /\ inserting' = k
  BY DEF BPTreeInv, CallInv, SplitLeaf, Missing
<1>2. PICK n, keys, rows, h :
        n = FindLeaf(k) /\ keys = KeysWith(n, k) /\ rows = RowsWith(n, k) /\ h = Half(keys)
  OBVIOUS
<1>3. PICK s : s = keys[h + 1]
  OBVIOUS
<1>4. PICK new \in Node :
        /\ Full(n) /\ Fresh(new)
        /\ node' = [node EXCEPT
             ![n] = Leaf(SubSeq(keys, 1, h), SubSeq(rows, 1, h), @.parent, new),
             ![new] = Leaf(SubSeq(keys, h + 1, Len(keys)), SubSeq(rows, h + 1, Len(rows)),
                           node[n].parent, node[n].next)]
        /\ split' = [left |-> n, key |-> s, right |-> new]
  BY <1>2, <1>3 DEF SplitLeaf
<1>5. PICK P : n \in Allocated /\ node[n].leaf /\ n \in Node /\ WayDown(P, root, n, k)
  BY <1>1, <1>2, TreeWaysMeet DEF WaysMeet, Allocated
<1>6. n # new /\ new \notin Allocated
  BY <1>4, <1>5 DEF Fresh, Allocated
<1>7. /\ node'[n].leaf /\ node'[n].parent = node[n].parent /\ node'[new].leaf
      /\ \A m \in Node : m # n /\ m # new => node'[m] = node[m]
  BY <1>1, <1>4, <1>5, <1>6 DEF NodesOK, Leaf
<1>8. SeparatorsPassed'
  <2>1. ASSUME NEW m \in Allocated', ~node'[m].leaf, NEW j \in 1..Len(node'[m].keys)
        PROVE  Passed(node'[m].keys[j])
    <3>1. m \in Allocated /\ node'[m] = node[m]
      BY <1>7, <2>1 DEF Allocated
    <3> QED  BY <2>1, <3>1 DEF NewestInv, SeparatorsPassed
  <2> QED  BY <1>1, <2>1, SeparatorsKept
<1>9. WayDown(P, root, n, k)'
  <2>1. NodesOK' /\ TreeOK'
    BY SplitLeafKeepsTree
  <2>2. \A m \in P : m \in Allocated /\ m \in Node /\ m # new
    BY <1>5, <1>6 DEF WayDown, Allocated
  <2>3. \A m \in P : m \in Allocated'
    <3>1. split'.left \in Allocated'
      BY <1>1, <2>1 DEF TreeOK, TreeInv, SplitInv
    <3>2. n \in Allocated'
      BY <1>4, <3>1
    <3> QED  BY <1>7, <2>2, <3>2 DEF Allocated
  <2>4. ASSUME NEW m \in P, m # root
        PROVE  /\ node'[m].parent \in P /\ ~node'[node'[m].parent].leaf
               /\ m = Routed(node[m].parent, k)'
    <3>1. PICK u : u = node[m].parent
      OBVIOUS
    <3>2. u \in P /\ ~node[u].leaf /\ m = Routed(u, k)
      BY <1>5, <2>4, <3>1 DEF WayDown
    <3>3. node'[m].parent = u
      BY <1>7, <2>2, <3>1
    <3>4. node'[u] = node[u]
      BY <1>5, <1>7, <2>2, <3>2
    <3>5. Routed(node[m].parent, k)' = Routed(u, k)
      BY <3>3, <3>4 DEF Routed
    <3> QED  BY <3>2, <3>3, <3>4, <3>5
  <2>5. root' \in P /\ n \in P
    BY <1>1, <1>5 DEF WayDown
  <2> QED  BY <1>1, <2>3, <2>4, <2>5 DEF WayDown
<1>10. /\ keys \in Seq(Key) /\ Len(keys) = MaxKeys + 1 /\ Ascending(keys)
  BY <1>1, <1>2, <1>4, LeafWithKey DEF TreeOK, Full
<1>11. /\ h \in Nat /\ h + 1 \in 1..Len(keys) /\ h + 2 \in 1..Len(keys)
       /\ \A j \in 1..Len(keys) : keys[j] \in Nat
  <2>1. /\ h \in Nat /\ 1 <= h /\ h + 1 <= Len(keys) /\ Len(keys) \in Nat
        /\ \A j \in 1..Len(keys) : keys[j] \in Nat
    BY <1>2, <1>10, Halves
  <2>2. h = (MaxKeys + 1) \div 2 /\ MaxKeys \in Nat /\ MaxKeys >= 2
    BY <1>2, <1>10, BPTreeAssumption DEF Half
  <2>3. h + 2 <= MaxKeys + 1
    BY <2>2
  <2> QED  BY <1>10, <2>1, <2>3
<1>12. ASSUME NEW j \in 1..Len(keys), keys[j] # k PROVE Passed(keys[j])
  <2>1. HasKey(n, keys[j])
    <3>1. \A q : (\E i \in 1..Len(keys) : keys[i] = q) <=> q = k \/ HasKey(n, q)
      <4>1. NodesOK /\ TreeOK /\ RowsInv /\ Missing(k)
        BY <1>1
      <4> QED  BY <1>2, <4>1, LeafWithRow
    <3> QED  BY <1>12, <3>1
  <2>2. keys[j] \in Key /\ Search(keys[j]) # NULL
    BY <1>1, <1>2, <2>1, LeafKeysFound
  <2> QED  BY <1>1, <2>2 DEF NewestInv
<1>13. Passed(s)
  <2>1. CASE s # k
    BY <1>3, <1>11, <1>12, <2>1
  <2>2. CASE s = k
    <3>1. keys[h + 1] < keys[h + 2]
      BY <1>10, <1>11 DEF Ascending
    <3>2. s \in Nat /\ keys[h + 2] \in Nat /\ s <= keys[h + 2] /\ keys[h + 2] # k
      <4>1. PICK a, b : a = keys[h + 1] /\ b = keys[h + 2]
        OBVIOUS
      <4>2. a \in Nat /\ b \in Nat
        BY <1>11, <4>1
      <4>3. a < b /\ a = k /\ s = a
        BY <1>3, <2>2, <3>1, <4>1
      <4> QED  BY <4>1, <4>2, <4>3
    <3>3. Passed(keys[h + 2])
      BY <1>11, <1>12, <3>2
    <3> QED  BY <3>2, <3>3, BelowPassed
  <2> QED  BY <2>1, <2>2
<1>14. Passed(split.key)' /\ \E Q : WayDown(Q, root, split.left, inserting)'
  <2>1. split'.key = s /\ split'.left = n
    BY <1>4
  <2>2. WayDown(P, root, split.left, inserting)'
    BY <1>1, <1>9, <2>1 DEF WayDown
  <2>3. Passed(split.key)'
    BY <1>1, <1>13, <2>1 DEF Passed
  <2> QED  BY <2>2, <2>3
<1> QED  BY <1>1, <1>8, <1>14 DEF NewestInv, Passed

LEMMA NewRootNewest ==
  ASSUME BPTreeInv, CallInv, NewestInv, NewRoot
  PROVE  NewestInv' /\ Index!Insert(inserting)
<1>1. /\ NodesOK /\ TreeOK /\ step = "parent" /\ Accept(inserting) /\ inserted \subseteq inserted'
      /\ inserting \in Key
  BY DEF BPTreeInv, NewRoot, Accept, TreeOK, TreeInv, SplitInv
<1>2. PICK left, right, s : left = split.left /\ right = split.right /\ s = split.key
  OBVIOUS
<1>3. PICK n \in Node :
        /\ Fresh(n)
        /\ node' = [node EXCEPT ![n] = Internal(<<s>>, <<left, right>>, NULL),
                                ![left].parent = n, ![right].parent = n]
  BY <1>2 DEF NewRoot
<1>4. left \in Allocated /\ right \in Allocated /\ left # right /\ n # left /\ n # right
  BY <1>1, <1>2, <1>3 DEF TreeOK, TreeInv, SplitInv, Fresh, Allocated
<1>5. /\ left \in Node /\ right \in Node /\ node[left] \in TreeNode /\ node[right] \in TreeNode
  BY <1>1, <1>4, NodeFields
<1>6. /\ node'[n].keys = <<s>>
      /\ node'[left].leaf = node[left].leaf /\ node'[left].keys = node[left].keys
      /\ node'[right].leaf = node[right].leaf /\ node'[right].keys = node[right].keys
      /\ \A m \in Node : m # n /\ m # left /\ m # right => node'[m] = node[m]
  BY <1>1, <1>3, <1>4, <1>5 DEF NodesOK, Internal, TreeNode
<1>7. SeparatorsPassed'
  <2>1. ASSUME NEW m \in Allocated', ~node'[m].leaf, NEW j \in 1..Len(node'[m].keys)
        PROVE  Passed(node'[m].keys[j])
    <3>1. CASE m = n
      <4>1. node'[m].keys[j] = s
        BY <1>6, <2>1, <3>1
      <4> QED  BY <1>1, <1>2, <4>1 DEF NewestInv
    <3>2. CASE m # n
      <4>1. m \in Allocated /\ node'[m].leaf = node[m].leaf /\ node'[m].keys = node[m].keys
        BY <1>4, <1>6, <3>2 DEF Allocated
      <4> QED  BY <1>1, <2>1, <4>1 DEF NewestInv, SeparatorsPassed
    <3> QED  BY <3>1, <3>2
  <2> QED  BY <1>1, <2>1, SeparatorsKept
<1>8. Index!Insert(inserting)
  BY NewRootFound
<1> QED  BY <1>1, <1>7, <1>8, AcceptNewest

\* The separators of the parent with that of the split.
LEMMA ParentPassed ==
  ASSUME BPTreeInv, NewestInv, step = "parent", Parent # NULL
  PROVE  \A j \in 1..Len(ParentKeys) : Passed(ParentKeys[j])
<1>1. NodesOK /\ TreeOK
  BY DEF BPTreeInv
<1>2. PICK top, height, below : TreeInv(top, height, below)
  BY <1>1 DEF TreeOK
<1>3. PICK p, ks, i, s, keys :
        p = Parent /\ ks = node[p].keys /\ i = LeftIndex /\ s = split.key /\ keys = ParentKeys
  OBVIOUS
<1>4. p \in Allocated /\ ~node[p].leaf /\ i \in 1..Len(node[p].kids)
  BY <1>1, <1>2, <1>3, LeftPlace
<1>5. Len(ks) \in Nat /\ Len(node[p].kids) = Len(ks) + 1
  BY <1>1, <1>3, <1>4, NodeFields
<1>6. /\ Len(keys) = Len(ks) + 1
      /\ \A j \in 1..(Len(ks) + 1) :
           keys[j] = IF j < i THEN ks[j] ELSE IF j = i THEN s ELSE ks[j - 1]
  BY <1>1, <1>2, <1>3, ParentPlaces
<1>7. Passed(s) /\ \A j \in 1..Len(ks) : Passed(ks[j])
  BY <1>3, <1>4 DEF NewestInv, SeparatorsPassed
<1>8. ASSUME NEW j \in 1..Len(keys) PROVE Passed(keys[j])
  <2>1. j \in 1..(Len(ks) + 1) /\ j \in Nat /\ i \in Nat
    BY <1>4, <1>6
  <2>2. CASE j < i
    <3>1. j \in 1..Len(ks) /\ keys[j] = ks[j]
      BY <1>4, <1>5, <1>6, <2>1, <2>2
    <3> QED  BY <1>7, <3>1
  <2>3. CASE j = i
    <3>1. keys[j] = s
      BY <1>6, <2>1, <2>3
    <3> QED  BY <1>7, <3>1
  <2>4. CASE j > i
    <3>1. ~(j < i) /\ j # i /\ j - 1 \in 1..Len(ks)
      BY <1>4, <1>5, <2>1, <2>4
    <3>2. keys[j] = ks[j - 1]
      BY <1>6, <2>1, <3>1
    <3> QED  BY <1>7, <3>1, <3>2
  <2> QED  BY <2>1, <2>2, <2>3, <2>4
<1> QED  BY <1>3, <1>8

LEMMA InsertIntoInternalNewest ==
  ASSUME BPTreeInv, CallInv, NewestInv, InsertIntoInternal
  PROVE  NewestInv' /\ Index!Insert(inserting)
<1>1. /\ NodesOK /\ TreeOK /\ step = "parent" /\ Parent # NULL
      /\ Accept(inserting) /\ inserted \subseteq inserted' /\ inserting \in Key
  BY DEF BPTreeInv, InsertIntoInternal, Accept, TreeOK, TreeInv, SplitInv
<1>2. PICK right, p, ks, cs : right = split.right /\ p = Parent /\ ks = ParentKeys /\ cs = ParentKids
  OBVIOUS
<1>3. p \in Allocated /\ right \in Allocated
  BY <1>1, <1>2, LeftPlace DEF TreeOK, TreeInv, SplitInv
<1>4. /\ p \in Node /\ right \in Node /\ node[p] \in TreeNode /\ node[right] \in TreeNode
  BY <1>1, <1>3, NodeFields
<1>5. node' = [node EXCEPT ![p].keys = ks, ![p].kids = cs, ![right].parent = p]
  BY <1>2 DEF InsertIntoInternal
<1>6. /\ node'[p].keys = ks
      /\ \A m \in Node : m # p /\ m # right => node'[m] = node[m]
      /\ right # p => node'[right].leaf = node[right].leaf /\ node'[right].keys = node[right].keys
  BY <1>1, <1>4, <1>5 DEF NodesOK, TreeNode
<1>7. SeparatorsPassed'
  <2>1. ASSUME NEW m \in Allocated', ~node'[m].leaf, NEW j \in 1..Len(node'[m].keys)
        PROVE  Passed(node'[m].keys[j])
    <3>1. CASE m = p
      <4>1. \A l \in 1..Len(ks) : Passed(ks[l])
        BY <1>1, <1>2, ParentPassed
      <4> QED  BY <1>6, <3>1, <4>1
    <3>2. CASE m # p
      <4>1. m \in Allocated /\ node'[m].leaf = node[m].leaf /\ node'[m].keys = node[m].keys
        BY <1>3, <1>6, <3>2 DEF Allocated
      <4> QED  BY <1>1, <2>1, <4>1 DEF NewestInv, SeparatorsPassed
    <3> QED  BY <3>1, <3>2
  <2> QED  BY <1>1, <2>1, SeparatorsKept
<1>8. Index!Insert(inserting)
  BY InsertIntoInternalFound
<1> QED  BY <1>1, <1>7, <1>8, AcceptNewest

\* The way to the lower half passes its parent.
LEMMA SplitInternalNewest ==
  ASSUME BPTreeInv, CallInv, NewestInv, SplitInternal
  PROVE  NewestInv'
<1>1. /\ NodesOK /\ TreeOK /\ step = "parent" /\ Parent # NULL
      /\ UNCHANGED <<root, step, inserting, inserted, found>>
  BY DEF BPTreeInv, SplitInternal
<1>2. PICK top, height, below : TreeInv(top, height, below)
  BY <1>1 DEF TreeOK
<1>3. PICK left, p, ks, cs, h, s, k :
        /\ left = split.left /\ p = Parent /\ ks = ParentKeys /\ cs = ParentKids
        /\ h = Half(ks) /\ s = ks[h + 1] /\ k = inserting
  OBVIOUS
<1>4. /\ KidsInv(height) /\ top \in Nat /\ height \in [Node -> 0..top]
      /\ root \in Allocated /\ node[root].parent = NULL
      /\ left \in Allocated /\ node[left].parent = p /\ k \in Key
  BY <1>1, <1>2, <1>3 DEF TreeInv, SplitInv, Parent
<1>5. /\ p \in Allocated /\ ~node[p].leaf /\ p \in Node
      /\ ks \in Seq(Key) /\ Len(ks) \in Nat /\ h \in Nat /\ h + 1 <= Len(ks)
      /\ \A c \in ToSet(cs) : node[c].parent = p
  BY <1>3, FullParent
<1>6. PICK lk, rk : lk = SubSeq(ks, 1, h) /\ rk = SubSeq(ks, h + 2, Len(ks))
  OBVIOUS
<1>7. PICK new \in Node :
         /\ new \notin Allocated /\ new # p /\ new \in Allocated'
         /\ \A m \in Allocated' : m = new \/ m \in Allocated
         /\ \A m \in Allocated : m \in Allocated'
         /\ split' = [left |-> p, key |-> s, right |-> new]
         /\ \A m \in Allocated : m # p =>
              /\ node'[m].leaf = node[m].leaf /\ node'[m].keys = node[m].keys
              /\ node'[m].kids = node[m].kids
         /\ \A m \in Allocated : m \notin ToSet(cs) => node'[m].parent = node[m].parent
         /\ ~node'[p].leaf /\ node'[p].keys = lk
         /\ ~node'[new].leaf /\ node'[new].keys = rk
  BY <1>3, <1>6, HalvedNodes
<1>8. \A j \in 1..Len(ks) : Passed(ks[j])
  BY <1>1, <1>3, ParentPassed
<1>9. \A j \in 1..Len(lk) : Passed(lk[j])
  <2>1. h \in 0..Len(ks)
    BY <1>5
  <2>2. Len(lk) = h /\ \A j \in 1..h : lk[j] = ks[j]
    BY <1>5, <1>6, <2>1, FrontPart
  <2>3. \A j \in 1..h : j \in 1..Len(ks)
    BY <1>5
  <2> QED  BY <1>8, <2>2, <2>3
<1>10. \A j \in 1..Len(rk) : Passed(rk[j])
  <2>1. PICK i, l : i = h + 2 /\ l = Len(ks) - i + 1
    OBVIOUS
  <2>2. i \in 1..(Len(ks) + 1) /\ rk = SubSeq(ks, i, Len(ks))
    BY <1>5, <1>6, <2>1
  <2>3. Len(rk) = l /\ \A j \in 1..l : rk[j] = ks[i + j - 1]
    BY <1>5, <2>1, <2>2, BackPart
  <2>4. \A j \in 1..l : i + j - 1 \in 1..Len(ks)
    BY <1>5, <2>1
  <2> QED  BY <1>8, <2>3, <2>4
<1>11. SeparatorsPassed'
  <2>1. ASSUME NEW m \in Allocated', ~node'[m].leaf, NEW j \in 1..Len(node'[m].keys)
        PROVE  Passed(node'[m].keys[j])
    <3>1. CASE m = p
      BY <1>7, <1>9, <3>1
    <3>2. CASE m = new
      BY <1>7, <1>10, <3>2
    <3>3. CASE m # p /\ m # new
      <4>1. m \in Allocated /\ node'[m].leaf = node[m].leaf /\ node'[m].keys = node[m].keys
        BY <1>7, <3>3
      <4> QED  BY <1>1, <2>1, <4>1 DEF NewestInv, SeparatorsPassed
    <3> QED  BY <3>1, <3>2, <3>3
  <2> QED  BY <1>1, <2>1, SeparatorsKept
<1>12. PICK P : WayDown(P, root, left, k)
  BY <1>1, <1>3 DEF NewestInv
<1>13. P \subseteq Allocated /\ P \subseteq Node /\ p \in P
  <2>1. left # root
    BY <1>1, <1>3, <1>4
  <2> QED  BY <1>4, <1>12, <2>1 DEF WayDown, Allocated
<1>14. PICK Q : Q = { m \in P : height[m] >= height[p] }
  OBVIOUS
\* Above the parent nothing changes.
<1>15. ASSUME NEW m \in Q, m # root
       PROVE  /\ node[m].parent \in Q /\ node[m].parent # p /\ node[m].parent \in Allocated
              /\ ~node[node[m].parent].leaf
              /\ m = Routed(node[m].parent, k) /\ m \in Allocated
  <2>1. PICK u : u = node[m].parent
    OBVIOUS
  <2>2. m \in P /\ height[m] >= height[p]
    BY <1>14, <1>15
  <2>3. u \in P /\ u \in Allocated /\ ~node[u].leaf /\ m = Routed(u, k)
    BY <1>12, <1>15, <2>1, <2>2 DEF WayDown
  <2>4. height[u] = height[m] + 1
    BY <1>1, <1>4, <2>3, RoutedKid
  <2>5. height[m] \in Nat /\ height[p] \in Nat
    BY <1>4, <1>5, <1>13, <2>2
  <2>6. height[u] >= height[p] /\ u # p
    BY <2>2, <2>4, <2>5
  <2> QED  BY <1>13, <1>14, <2>1, <2>2, <2>3, <2>6
<1>16. p \in Q /\ Q \subseteq P
  <2>1. height[p] >= height[p]
    BY <1>4, <1>5
  <2> QED  BY <1>13, <1>14, <2>1
<1>17. root \in Q
  BY <1>1, <1>4, <1>12, <1>15, <1>16, ReachesRoot
<1>18. \A m \in Q : m \in Allocated'
  BY <1>7, <1>13, <1>16
<1>19. ASSUME NEW m \in Q, m # root
       PROVE  /\ node'[m].parent \in Q /\ ~node'[node'[m].parent].leaf
              /\ m = Routed(node[m].parent, k)'
  <2>1. PICK u : u = node[m].parent
    OBVIOUS
  <2>2. u \in Q /\ u # p /\ u \in Allocated /\ ~node[u].leaf /\ m = Routed(u, k) /\ m \in Allocated
    BY <1>15, <1>19, <2>1
  <2>3. node'[m].parent = u
    <3>1. m \notin ToSet(cs)
      BY <1>5, <2>1, <2>2
    <3> QED  BY <1>7, <2>1, <2>2, <3>1
  <2>4. /\ node'[u].leaf = node[u].leaf /\ node'[u].keys = node[u].keys
        /\ node'[u].kids = node[u].kids
    BY <1>7, <2>2
  <2>5. Routed(node[m].parent, k)' = Routed(u, k)
    BY <2>3, <2>4 DEF Routed
  <2> QED  BY <2>2, <2>3, <2>4, <2>5
<1>20. WayDown(Q, root, p, k)'
  BY <1>1, <1>16, <1>17, <1>18, <1>19 DEF WayDown
<1>21. Passed(split.key)' /\ \E R : WayDown(R, root, split.left, inserting)'
  <2>1. split'.key = s /\ split'.left = p
    BY <1>7
  <2>2. WayDown(Q, root, split.left, inserting)'
    BY <1>1, <1>3, <1>20, <2>1 DEF WayDown
  <2>3. Passed(s)
    <3>1. h + 1 \in 1..Len(ks)
      BY <1>5
    <3> QED  BY <1>3, <1>8, <3>1
  <2>4. Passed(split.key)'
    BY <1>1, <2>1, <2>3 DEF Passed
  <2> QED  BY <2>2, <2>4
<1> QED  BY <1>1, <1>11, <1>21 DEF NewestInv, Passed

\* FailureLosesNewest of one step.
LosesNewest ==
  (\A j \in inserted : inserting # NULL /\ j < inserting) =>
    /\ \A j, k \in Key : j < k /\ found[j] # NULL /\ found'[j] = NULL => found'[k] = NULL
    /\ \A k \in Key : found[k] = NULL /\ found'[k] # NULL => k \in inserted'

LEMMA AcceptLoses ==
  ASSUME BPTreeInv, NEW k \in Key, Accept(k), Index!Insert(k)
  PROVE  LosesNewest
<1>1. /\ k \in inserted' /\ found' = [found EXCEPT ![k] = RowOf(k)] /\ found[k] = NULL
      /\ found \in [Key -> Nat \cup {NULL}]
  BY DEF Accept, Index!Insert, BPTreeInv, TypeOK
<1>2. \A j \in Key : j # k => found'[j] = found[j]
  BY <1>1
<1> QED  BY <1>1, <1>2 DEF LosesNewest

LEMMA SameLoses == UNCHANGED found => LosesNewest
BY DEF LosesNewest

\* A new key larger than all others goes down to the lower half of the split and
\* should have turned: it is lost, and with it what was found behind it.
LEMMA FailToLinkNewest ==
  ASSUME BPTreeInv, CallInv, NewestInv, FailToLink
  PROVE  NewestInv' /\ LosesNewest
<1>1. /\ NodesOK /\ TreeOK /\ step = "parent" /\ step' = "ready"
      /\ UNCHANGED <<root, node, inserted>>
  BY DEF BPTreeInv, FailToLink, Fail, Return
<1>2. PICK s, k : s = split.key /\ k = inserting
  OBVIOUS
<1>3. s \in Key /\ k \in Key /\ s \in Nat /\ k \in Nat
  <2>1. s \in Key /\ k \in Key
    BY <1>1, <1>2 DEF TreeOK, TreeInv, SplitInv
  <2> QED  BY <2>1 DEF Key
<1>4. PICK lo, hi \in Key :
        /\ found' = [q \in Key |-> IF q \in lo..hi THEN NULL
                                  ELSE IF q = k THEN RowOf(q) ELSE found[q]]
        /\ \A q \in Key : q \in lo..hi <=>
             s <= q /\ \E P : WayDown(P, root, split.left, q)
  BY <1>2, FailToLinkLoses
<1>5. /\ Passed(s) /\ \E P : WayDown(P, root, split.left, k)
      /\ \A q \in Key : found[q] # NULL => Passed(q)
  BY <1>1, <1>2 DEF NewestInv
<1>6. ASSUME ~Passed(k) PROVE k \in lo..hi
  <2>1. s <= k
    <3> SUFFICES ASSUME ~(s <= k) PROVE FALSE
      OBVIOUS
    <3>1. k <= s
      BY <1>3
    <3> QED  BY <1>3, <1>5, <1>6, <3>1, BelowPassed
  <2> QED  BY <1>3, <1>4, <1>5, <2>1
<1>7. \A q \in Key : found'[q] # NULL => Passed(q)
  <2>1. ASSUME NEW q \in Key, found'[q] # NULL PROVE Passed(q)
    <3>1. q \notin lo..hi /\ (q = k \/ found[q] # NULL)
      BY <1>4, <2>1
    <3> QED  BY <1>5, <1>6, <3>1
  <2> QED  BY <2>1
<1>8. NewestInv'
  <2>1. SeparatorsPassed'
    BY <1>1 DEF NewestInv, SeparatorsPassed, Passed, Allocated
  <2> QED  BY <1>1, <1>7, <2>1 DEF NewestInv, Passed
<1>9. ASSUME \A j \in inserted : inserting # NULL /\ j < inserting
      PROVE  /\ \A j, q \in Key : j < q /\ found[j] # NULL /\ found'[j] = NULL => found'[q] = NULL
             /\ \A q \in Key : found[q] = NULL /\ found'[q] # NULL => q \in inserted'
  <2>1. \A x \in Nat : Passed(x) => x < k
    <3> SUFFICES ASSUME NEW x \in Nat, Passed(x) PROVE x < k
      OBVIOUS
    <3>1. PICK j \in inserted : x <= j
      BY DEF Passed
    <3>2. j < k /\ j \in Nat
      BY <1>2, <1>9, <3>1 DEF BPTreeInv, TypeOK, Key
    <3> QED  BY <1>3, <3>1, <3>2
  <2>2. k \in lo..hi
    <3>1. ~Passed(k)
      BY <1>3, <2>1
    <3> QED  BY <1>6, <3>1
  <2>3. ASSUME NEW j \in Key, NEW q \in Key, j < q, found[j] # NULL, found'[j] = NULL
        PROVE  found'[q] = NULL
    <3>1. CASE q \in lo..hi
      BY <1>4, <3>1
    <3>2. CASE q \notin lo..hi
      <4>1. j \in Nat /\ q \in Nat /\ lo \in Nat /\ hi \in Nat
        BY DEF Key
      <4>2. j \in lo..hi
        <5>1. CASE j = k
          BY <2>2, <5>1
        <5>2. CASE j # k
          BY <1>4, <2>3, <5>2
        <5> QED  BY <5>1, <5>2
      <4>3. q > hi
        BY <2>3, <3>2, <4>1, <4>2
      <4>4. k < q
        BY <1>3, <2>2, <4>1, <4>3
      <4>5. q # k /\ ~(q < k)
        BY <1>3, <4>1, <4>4
      <4>6. found[q] = NULL
        BY <1>5, <2>1, <4>1, <4>5
      <4> QED  BY <1>4, <3>2, <4>5, <4>6
    <3> QED  BY <3>1, <3>2
  <2>4. ASSUME NEW q \in Key, found[q] = NULL, found'[q] # NULL PROVE q \in inserted'
    <3>1. q \notin lo..hi /\ q = k
      BY <1>4, <2>4
    <3> QED  BY <2>2, <3>1
  <2> QED  BY <2>3, <2>4
<1> QED  BY <1>8, <1>9 DEF LosesNewest

LEMMA InsertNewest ==
  ASSUME BPTreeInv, CallInv, NewestInv, NEW k \in Key, Insert(k)
  PROVE  NewestInv' /\ LosesNewest
<1>1. step = "ready"
  BY DEF Insert
<1>2. CASE FirstKey(k)
  <2>1. NewestInv' /\ Index!Insert(k) /\ Accept(k)
    BY <1>1, <1>2, FirstKeyNewest DEF FirstKey
  <2> QED  BY <2>1, AcceptLoses
<1>3. CASE InsertIntoLeaf(k)
  <2>1. NewestInv' /\ Index!Insert(k) /\ Accept(k)
    BY <1>1, <1>3, InsertIntoLeafNewest DEF InsertIntoLeaf
  <2> QED  BY <2>1, AcceptLoses
<1>4. CASE SplitLeaf(k)
  <2>1. NewestInv' /\ UNCHANGED found
    BY <1>1, <1>4, SplitLeafNewest DEF SplitLeaf
  <2> QED  BY <2>1, SameLoses
<1>5. CASE RefuseDuplicate(k) \/ FailToGrow(k)
  <2>1. Fail /\ UNCHANGED <<root, node>>
    BY <1>5 DEF RefuseDuplicate, FailToGrow
  <2>2. NewestInv' /\ UNCHANGED found
    BY <1>1, <2>1, RefusedNewest
  <2> QED  BY <2>2, SameLoses
<1> QED  BY <1>2, <1>3, <1>4, <1>5 DEF Insert

LEMMA ParentNewest ==
  ASSUME BPTreeInv, CallInv, NewestInv, NewRoot \/ InsertIntoInternal \/ SplitInternal \/ FailToLink
  PROVE  NewestInv' /\ LosesNewest
<1>1. inserting \in Key
  BY DEF NewRoot, InsertIntoInternal, SplitInternal, FailToLink,
         BPTreeInv, TreeOK, TreeInv, SplitInv
<1>2. CASE NewRoot
  <2>1. NewestInv' /\ Index!Insert(inserting) /\ Accept(inserting)
    BY <1>2, NewRootNewest DEF NewRoot
  <2> QED  BY <1>1, <2>1, AcceptLoses
<1>3. CASE InsertIntoInternal
  <2>1. NewestInv' /\ Index!Insert(inserting) /\ Accept(inserting)
    BY <1>3, InsertIntoInternalNewest DEF InsertIntoInternal
  <2> QED  BY <1>1, <2>1, AcceptLoses
<1>4. CASE SplitInternal
  <2>1. NewestInv' /\ UNCHANGED found
    BY <1>4, SplitInternalNewest DEF SplitInternal
  <2> QED  BY <2>1, SameLoses
<1>5. CASE FailToLink
  BY <1>5, FailToLinkNewest
<1> QED  BY <1>2, <1>3, <1>4, <1>5

LEMMA OtherNewest ==
  ASSUME NewestInv, Free \/ Ended \/ UNCHANGED vars
  PROVE  NewestInv' /\ LosesNewest
<1>1. CASE Free
  BY <1>1 DEF Free, NewestInv, LosesNewest
<1>2. CASE Ended \/ UNCHANGED vars
  <2>1. UNCHANGED <<root, node, step, split, inserting, inserted, found, failures>>
    BY <1>2 DEF Ended, vars
  <2>2. SeparatorsPassed => SeparatorsPassed'
    BY <2>1 DEF SeparatorsPassed, Passed, Allocated
  <2>3. \A P : WayDown(P, root, split.left, inserting) => WayDown(P, root, split.left, inserting)'
    BY <2>1 DEF WayDown, Routed, Allocated
  <2>4. NewestInv'
    BY <2>1, <2>2, <2>3 DEF NewestInv, Passed
  <2> QED  BY <2>1, <2>4, SameLoses
<1> QED  BY <1>1, <1>2

(***************************************************************************)
(* Inserting a key above all others, as table_insert_row does, a call that *)
(* fails adds nothing and loses the newest keys only (table_runtime.c:     *)
(* 475-479, bptree.c:165-221).                                             *)
(***************************************************************************)
THEOREM FailureLosesNewestHolds == Spec => FailureLosesNewest
<1>1. Init => NewestInv
  BY DEF Init, NewestInv, SeparatorsPassed, Allocated
<1>2. BPTreeInv /\ CallInv /\ NewestInv /\ [Next]_vars => NewestInv' /\ LosesNewest
  <2> SUFFICES ASSUME BPTreeInv, CallInv, NewestInv, [Next]_vars PROVE NewestInv' /\ LosesNewest
    OBVIOUS
  <2>1. ASSUME NEW k \in Key, Insert(k) PROVE NewestInv' /\ LosesNewest
    BY <2>1, InsertNewest
  <2> QED  BY <2>1, ParentNewest, OtherNewest DEF Next
<1>3. LosesNewest =>
        [(\A j \in inserted : inserting # NULL /\ j < inserting) =>
           /\ \A j, k \in Key : j < k /\ found[j] # NULL /\ found'[j] = NULL => found'[k] = NULL
           /\ \A k \in Key : found[k] = NULL /\ found'[k] # NULL => k \in inserted']_vars
  BY DEF LosesNewest
<1> QED  BY <1>1, <1>2, <1>3, TreeInvHolds, CallInvHolds, PTL DEF Spec, FailureLosesNewest
===============================================================================
