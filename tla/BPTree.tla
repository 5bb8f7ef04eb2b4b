-------------------------------- MODULE BPTree --------------------------------
(***************************************************************************)
(* bptree.c: the B+ tree from ids to row slots.  A table calls it under    *)
(* its lock, so one call runs at a time; inside bptree_insert the tree is  *)
(* changed level by level, and any level may fail to allocate its node.    *)
(*                                                                         *)
(* Keys, children and row indices are sequences; a step of the model is    *)
(* one function of bptree.c, the mutual recursion of bptree_split_internal *)
(* and bptree_insert_into_parent being a loop over the step "parent".      *)
(***************************************************************************)
EXTENDS Naturals, SequencesExt

CONSTANTS
  MaxKeys,       \* BPTREE_MAX_KEYS
  MaxKey,        \* bound: keys are 1..MaxKey
  MaxNode,       \* bound: nodes are 1..MaxNode
  Shuffled,      \* keys up to this one come in any order, then ascending
  MaxFailures,   \* bound: the times calloc returns NULL
  NULL

ASSUME BPTreeAssumption ==
  /\ MaxKeys \in Nat \ {0, 1}
  /\ MaxKey \in Nat
  /\ MaxNode \in Nat
  /\ Shuffled \in Nat
  /\ MaxFailures \in Nat
  /\ NULL \notin Nat

Key == 1..MaxKey

Node == 1..MaxNode

\* The row slot stored with a key.
RowOf(k) == k - 1

VARIABLES
  root,
  node,      \* node[n]: the BPTreeNode n, NULL while it is not allocated
  step,      \* ready between calls, parent while a split goes up
  split,     \* the arguments of bptree_insert_into_parent
  inserting, \* the key of the call in progress
  inserted,  \* the keys bptree_insert accepted
  found,     \* found[k]: what a search for k returned when the last call ended
  failures   \* the times calloc has returned NULL

vars == <<root, node, step, split, inserting, inserted, found, failures>>

\* The nodes calloc has handed out.
Allocated == { n \in Node : node[n] # NULL }

TreeNode ==
  [leaf : BOOLEAN, keys : Seq(Key), kids : Seq(Node), rows : Seq(Nat),
   parent : Node \cup {NULL}, next : Node \cup {NULL}]

ASSUME NoNode == NULL \notin TreeNode

TypeOK ==
  /\ root \in Node \cup {NULL}
  /\ \A n \in Node : node[n] = NULL \/
       /\ node[n] \in TreeNode
       /\ Len(node[n].keys) <= MaxKeys
       /\ IF node[n].leaf THEN Len(node[n].rows) = Len(node[n].keys)
                          ELSE Len(node[n].kids) = Len(node[n].keys) + 1
  /\ step \in {"ready", "parent", "freed"}
  /\ split \in [left : Node, key : Key, right : Node] \cup {NULL}
  /\ inserting \in Key \cup {NULL}
  /\ inserted \subseteq Key
  /\ found \in [Key -> Nat \cup {NULL}]
  /\ failures \in 0..MaxFailures

Init ==
  /\ root = NULL
  /\ node = [n \in Node |-> NULL]
  /\ step = "ready"
  /\ split = NULL
  /\ inserting = NULL
  /\ inserted = {}
  /\ found = [k \in Key |-> NULL]
  /\ failures = 0

-------------------------------------------------------------------------------
\* Mutant: a key equal to a separator is looked for left of it.
ChildIndexLeft(keys, k) ==
  LET i == SelectInSeq(keys, LAMBDA x : k <= x)
  IN IF i = 0 THEN Len(keys) + 1 ELSE i

\* The first position of a sorted sequence whose key is greater than k.
ChildIndex(keys, k) ==
  LET i == SelectInSeq(keys, LAMBDA x : k < x)
  IN IF i = 0 THEN Len(keys) + 1 ELSE i

\* Mutant: keys stay in the order in which they come.
InsertIndexLast(keys, k) == Len(keys) + 1

\* The position of k in a sorted sequence of other keys.
InsertIndex(keys, k) ==
  LET i == SelectInSeq(keys, LAMBDA x : ~(x < k))
  IN IF i = 0 THEN Len(keys) + 1 ELSE i

\* bptree_find_leaf
FindLeaf(k) ==
  LET down[n \in Allocated] ==
        IF node[n].leaf THEN n ELSE down[node[n].kids[ChildIndex(node[n].keys, k)]]
  IN down[root]

\* bptree_search
Search(k) ==
  IF root = NULL THEN NULL
  ELSE LET leaf == node[FindLeaf(k)]
           i == SelectInSeq(leaf.keys, LAMBDA x : x = k)
       IN IF i = 0 THEN NULL ELSE leaf.rows[i]

\* calloc hands out a node that is not in use.
Fresh(n) == node[n] = NULL /\ \A m \in Node : node[m] = NULL => n <= m

CallocFails == failures < MaxFailures /\ failures' = failures + 1

Leaf(keys, rows, parent, next) ==
  [leaf |-> TRUE, keys |-> keys, kids |-> <<>>, rows |-> rows,
   parent |-> parent, next |-> next]

Internal(keys, kids, parent) ==
  [leaf |-> FALSE, keys |-> keys, kids |-> kids, rows |-> <<>>,
   parent |-> parent, next |-> NULL]

\* Mutant: the children that move keep the parent they had.
AdoptNone(nodes, kids, p) == nodes

\* The nodes, once the children kids are told that their parent is p.
Adopt(nodes, kids, p) ==
  [n \in Node |-> IF n \in ToSet(kids) THEN [nodes[n] EXCEPT !.parent = p] ELSE nodes[n]]

\* Mutant: a node is full one key late.
FullLate(n) == Len(node[n].keys) > MaxKeys

Full(n) == Len(node[n].keys) = MaxKeys

Half(s) == Len(s) \div 2

-------------------------------------------------------------------------------
\* A call ends; the tree may be searched again.
Return ==
  /\ step' = "ready"
  /\ split' = NULL
  /\ inserting' = NULL
  /\ found' = [k \in Key |-> Search(k)']

\* bptree_insert returns SUCCESS, FAILURE.
Accept(k) == inserted' = inserted \cup {k} /\ Return

Fail == UNCHANGED inserted /\ Return

\* table_insert_row inserts next_id, one more than the inserts that succeeded;
\* the tree by itself takes keys in any order, and so do the first of them here.
Offered(k) == k > Shuffled => k = Cardinality(inserted) + 1

FirstKey(k) ==
  /\ root = NULL
  /\ \E n \in Node :
       /\ Fresh(n)
       /\ node' = [node EXCEPT ![n] = Leaf(<<k>>, <<RowOf(k)>>, NULL, NULL)]
       /\ root' = n
  /\ UNCHANGED failures
  /\ Accept(k)

RefuseDuplicate(k) ==
  /\ Search(k) # NULL
  /\ UNCHANGED <<root, node, failures>>
  /\ Fail

\* The leaf for a new key, and its keys and rows with the new one.
Missing(k) == root # NULL /\ Search(k) = NULL

KeysWith(n, k) == InsertAt(node[n].keys, InsertIndex(node[n].keys, k), k)

RowsWith(n, k) == InsertAt(node[n].rows, InsertIndex(node[n].keys, k), RowOf(k))

\* bptree_insert_into_leaf
InsertIntoLeaf(k) ==
  /\ Missing(k)
  /\ LET n == FindLeaf(k)
     IN /\ ~Full(n)
        /\ node' = [node EXCEPT ![n].keys = KeysWith(n, k), ![n].rows = RowsWith(n, k)]
  /\ UNCHANGED <<root, failures>>
  /\ Accept(k)

\* bptree_split_leaf, up to its call of bptree_insert_into_parent
SplitLeaf(k) ==
  /\ Missing(k)
  /\ LET n == FindLeaf(k)
         keys == KeysWith(n, k)
         rows == RowsWith(n, k)
         h == Half(keys)
     IN /\ Full(n)
        /\ \E new \in Node :
             /\ Fresh(new)
             /\ node' = [node EXCEPT
                  ![n] = Leaf(SubSeq(keys, 1, h), SubSeq(rows, 1, h), @.parent, new),
                  ![new] = Leaf(SubSeq(keys, h + 1, Len(keys)), SubSeq(rows, h + 1, Len(rows)),
                                node[n].parent, node[n].next)]
             /\ split' = [left |-> n, key |-> keys[h + 1], right |-> new]
  /\ step' = "parent"
  /\ inserting' = k
  /\ UNCHANGED <<root, inserted, found, failures>>

\* calloc fails for the root leaf or for the new leaf, before any change.
FailToGrow(k) ==
  /\ CallocFails
  /\ root # NULL => Missing(k) /\ Full(FindLeaf(k))
  /\ UNCHANGED <<root, node>>
  /\ Fail

Insert(k) ==
  /\ step = "ready"
  /\ Offered(k)
  /\ FirstKey(k) \/ RefuseDuplicate(k) \/ InsertIntoLeaf(k) \/ SplitLeaf(k) \/ FailToGrow(k)

-------------------------------------------------------------------------------
\* bptree_insert_into_parent(left, key, right)
Parent == node[split.left].parent

\* bptree_find_child_index
LeftIndex == SelectInSeq(node[Parent].kids, LAMBDA c : c = split.left)

\* The keys and the children of the parent with those of the split.
ParentKeys == InsertAt(node[Parent].keys, LeftIndex, split.key)

ParentKids == InsertAt(node[Parent].kids, LeftIndex + 1, split.right)

NewRoot ==
  /\ step = "parent"
  /\ Parent = NULL
  /\ \E n \in Node :
       /\ Fresh(n)
       /\ node' = [node EXCEPT
            ![n] = Internal(<<split.key>>, <<split.left, split.right>>, NULL),
            ![split.left].parent = n,
            ![split.right].parent = n]
       /\ root' = n
  /\ UNCHANGED failures
  /\ Accept(inserting)

\* bptree_insert_into_internal
InsertIntoInternal ==
  /\ step = "parent"
  /\ Parent # NULL
  /\ ~Full(Parent)
  /\ node' = [node EXCEPT ![Parent].keys = ParentKeys,
                          ![Parent].kids = ParentKids,
                          ![split.right].parent = Parent]
  /\ UNCHANGED <<root, failures>>
  /\ Accept(inserting)

\* bptree_split_internal: the middle key goes up, the children right of it
\* move to the new node, and every child is told its parent.
SplitInternal ==
  /\ step = "parent"
  /\ Parent # NULL
  /\ Full(Parent)
  /\ LET p == Parent
         h == Half(ParentKeys)
         left == SubSeq(ParentKids, 1, h + 1)
         right == SubSeq(ParentKids, h + 2, Len(ParentKids))
     IN \E new \in Node :
          /\ Fresh(new)
          /\ node' = Adopt(Adopt(
               [node EXCEPT
                  ![p] = Internal(SubSeq(ParentKeys, 1, h), left, @.parent),
                  ![new] = Internal(SubSeq(ParentKeys, h + 2, Len(ParentKeys)), right,
                                    node[p].parent)],
               left, p), right, new)
          /\ split' = [left |-> p, key |-> ParentKeys[h + 1], right |-> new]
  /\ UNCHANGED <<root, step, inserting, inserted, found, failures>>

\* calloc fails above a node that is already split.
FailToLink ==
  /\ step = "parent"
  /\ CallocFails
  /\ Parent # NULL => Full(Parent)
  /\ UNCHANGED <<root, node>>
  /\ Fail

-------------------------------------------------------------------------------
\* The nodes of the tree by level, and all of them.
Levels ==
  LET below(S) == UNION { ToSet(node[n].kids) : n \in S }
      level[d \in 0..MaxNode] ==
        IF d = 0 THEN IF root = NULL THEN {} ELSE {root} ELSE below(level[d - 1])
  IN level

Reachable == UNION { Levels[d] : d \in 0..MaxNode }

\* bptree_free, when the table is freed
Free ==
  /\ step = "ready"
  /\ node' = [n \in Node |-> IF n \in Reachable THEN NULL ELSE node[n]]
  /\ root' = NULL
  /\ step' = "freed"
  /\ inserted' = {}
  /\ found' = [k \in Key |-> NULL]
  /\ UNCHANGED <<split, inserting, failures>>

Ended == step = "freed" /\ UNCHANGED vars

Next ==
  \/ \E k \in Key : Insert(k)
  \/ NewRoot \/ InsertIntoInternal \/ SplitInternal \/ FailToLink
  \/ Free
  \/ Ended

Spec == Init /\ [][Next]_vars

-------------------------------------------------------------------------------
\* Properties

\* The keys in the subtree of n.
KeysBelow(n) ==
  LET keys[m \in Allocated] ==
        IF node[m].leaf THEN ToSet(node[m].keys)
        ELSE UNION { keys[node[m].kids[i]] : i \in 1..Len(node[m].kids) }
  IN keys[n]

Sorted(s) == \A i \in 1..(Len(s) - 1) : s[i] < s[i + 1]

(***************************************************************************)
(* Between two calls, even after failed ones, the nodes reachable from the *)
(* root form a search tree: keys ascend, the separators bound the keys of  *)
(* the children, every child points to its parent and all leaves are       *)
(* equally deep (bptree.c:125-298).                                        *)
(***************************************************************************)
SearchTree ==
  step = "ready" =>
    /\ \A n \in Reachable : Sorted(node[n].keys)
    /\ \A n \in Reachable : \A i \in 1..Len(node[n].kids) :
         /\ node[node[n].kids[i]].parent = n
         /\ \A k \in KeysBelow(node[n].kids[i]) :
              /\ i > 1 => node[n].keys[i - 1] <= k
              /\ i <= Len(node[n].keys) => k < node[n].keys[i]
    /\ root # NULL => node[root].parent = NULL
    /\ \A d \in 0..MaxNode : \A n, m \in Levels[d] : node[n].leaf = node[m].leaf

(***************************************************************************)
(* While a split goes up, the split node is still where its parent points, *)
(* also after bptree_split_internal has moved it: bptree_find_child_index  *)
(* never fails (bptree.c:152-155).                                         *)
(***************************************************************************)
SplitNodeIsChild ==
  step = "parent" => Parent = NULL \/ LeftIndex # 0

(***************************************************************************)
(* Every insert makes exactly its key findable, with its row; a failed one *)
(* leads no search to a wrong row and loses at most the keys of one        *)
(* subtree (bptree.c:78-99, 300-335).                                      *)
(***************************************************************************)
Index == INSTANCE IdIndex

IndexPromise == Index!Spec

(***************************************************************************)
(* Inserting a key above all others, as table_insert_row does, a call that *)
(* fails adds nothing and loses the newest keys only, whatever the tree    *)
(* went through before: what IndexAfterFailure of TableRuntime assumes     *)
(* (table_runtime.c:475-479, bptree.c:165-221).  A key in between may be   *)
(* found although its insert failed.                                       *)
(***************************************************************************)
FailureLosesNewest ==
  [][(\A j \in inserted : inserting # NULL /\ j < inserting) =>
       /\ \A j, k \in Key : j < k /\ found[j] # NULL /\ found'[j] = NULL => found'[k] = NULL
       /\ \A k \in Key : found[k] = NULL /\ found'[k] # NULL => k \in inserted']_vars

(***************************************************************************)
(* tests/test_bptree.c: all inserted keys should remain searchable.        *)
(***************************************************************************)
InsertedKeysStaySearchable ==
  step = "ready" => \A k \in inserted : Search(k) = RowOf(k)
===============================================================================
