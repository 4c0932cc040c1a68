----------------------------- MODULE BPlusTree ------------------------------
(***************************************************************************)
(* BPlusTree.c: the tree that every table, schema and the catalog is kept  *)
(* in.  The heap of nodes is modelled with all its pointers: children,     *)
(* father, and next and last of the leaves.  The arrays key and child are  *)
(* sequences of length key_num, so positions count from 1.  A record is    *)
(* <<key, version>>.                                                       *)
(*                                                                         *)
(* What the arrays hold behind key_num is dead, with one exception: the    *)
(* code compares with key[0] of a leaf before it looks at key_num.  That   *)
(* slot is NULL in a new tree, and a freed key in a tree that was emptied. *)
(***************************************************************************)
EXTENDS Integers, Sequences, SequencesExt, FiniteSets

CONSTANTS
  Keys,             (* what callers index by; comp_fn orders them as numbers *)
  Versions,         (* the records a caller may give for each key            *)
  MaxChildNumber    (* MAX_CHILD_NUMBER                                      *)

ASSUME TreeConstants ==
  /\ Keys \subseteq Int
  /\ Keys \subseteq DOMAIN Versions
  /\ MaxChildNumber \in Nat /\ MaxChildNumber >= 4 /\ MaxChildNumber % 2 = 0

NULL == 0
NoRecord == <<>>
Mid == MaxChildNumber \div 2

VARIABLES
  tree,      (* [Root, node]: the root, and the nodes that are allocated       *)
  key0,      (* key[0] of an empty root: "null" or "freed"                     *)
  result     (* of the last call: "inserted", "refused" or "done", or "aborted"
                when the process is gone                                       *)

vars == <<tree, key0, result>>

NewNode(isLeaf, key, child, father) ==
  [isLeaf |-> isLeaf, key |-> key, child |-> child,
   father |-> father, next |-> NULL, last |-> NULL]

(* calloc: an address that is not in use. *)
Fresh(t) == CHOOSE n \in 1..Cardinality(DOMAIN t.node) + 1 : n \notin DOMAIN t.node

(* BPlusTree_init *)
EmptyTree == [Root |-> 1, node |-> [n \in {1} |-> NewNode(TRUE, <<>>, <<>>, NULL)]]

NoTree == [Root |-> NULL, node |-> <<>>]

(* The children of node n that are nodes. *)
Subnodes(t, n) == IF t.node[n].isLeaf THEN {} ELSE Range(t.node[n].child)

(* The nodes in s get father f. *)
Adopt(t, s, f) ==
  [t EXCEPT !.node = [n \in DOMAIN @ |-> IF n \in s THEN [@[n] EXCEPT !.father = f] ELSE @[n]]]

-----------------------------------------------------------------------------
(* Wrong Binary_Search: the last position whose key is smaller than key. *)
LastSmaller(node, key) ==
  CHOOSE i \in 1..Len(node.key) + 1 :
    /\ \A j \in 2..i : j <= Len(node.key) /\ node.key[j] < key
    /\ i < Len(node.key) => node.key[i + 1] >= key

(* Binary_Search: the last position whose key is not greater than key, or  *)
(* the first position.                                                     *)
Binary_Search(node, key) ==
  LET k == node.key
      search[lr \in (1..Len(k)) \X (1..Len(k) + 1)] ==
        LET l   == lr[1]
            r   == lr[2]
            mid == (l + r) \div 2
        IN  IF l >= r - 1 THEN l
            ELSE IF key < k[mid] THEN search[<<l, mid>>] ELSE search[<<mid, r>>]
  IN  IF k = <<>> THEN 1
      ELSE IF key < k[1] THEN 1
      ELSE IF k[Len(k)] <= key THEN Len(k)
      ELSE search[<<1, Len(k) + 1>>]

(* The nodes that Find passes on its way from the root; it ends at a leaf. *)
Way(t, key) ==
  LET from[n \in DOMAIN t.node] ==
        IF t.node[n].isLeaf THEN {n}
        ELSE {n} \cup from[t.node[n].child[Binary_Search(t.node[n], key)]]
  IN  from[t.Root]

Find(t, key) == CHOOSE n \in Way(t, key) : t.node[n].isLeaf

(* What Find does on its way when modify is set: a key below all others    *)
(* becomes the first key of every inner node on the left edge.             *)
Lower(t, key) ==
  LET way == Way(t, key)
  IN  [t EXCEPT !.node = [n \in DOMAIN @ |->
         IF n \in way /\ ~@[n].isLeaf /\ key < @[n].key[1]
           THEN [@[n] EXCEPT !.key[1] = key] ELSE @[n]]]

(* How many levels there are above the leaves below each node. *)
Levels(t) ==
  LET level[n \in DOMAIN t.node] ==
        IF t.node[n].isLeaf THEN 0 ELSE 1 + level[t.node[n].child[1]]
  IN  level

Height(t) == Levels(t)[t.Root]

-----------------------------------------------------------------------------
(* Insert, the part that links leaf new into the list of leaves: behind    *)
(* leaf prev, and before succ if there is one.                             *)
LinkBetween(t, prev, new, succ) ==
  LET t1 == [t EXCEPT !.node[prev].next = new,
                      !.node[new].next = succ,
                      !.node[new].last = prev]
  IN  IF succ = NULL THEN t1 ELSE [t1 EXCEPT !.node[succ].last = new]

(* The new leaf is child number ins of its father. *)
LinkLeaf(t, father, ins, new) ==
  IF ins = 1
    THEN [t EXCEPT !.node[new].next = t.node[father].child[2]]
    ELSE LET prev == t.node[father].child[ins - 1]
         IN  LinkBetween(t, prev, new, t.node[prev].next)

(* Where key belongs in a node that does not have it. *)
Place(node, key) ==
  IF node.key = <<>> THEN 1
  ELSE IF key < node.key[1] THEN 1 ELSE Binary_Search(node, key) + 1

(* key and value are put in at position i. *)
PutAt(t, n, i, key, value) ==
  [t EXCEPT !.node[n].key = InsertAt(@, i, key), !.node[n].child = InsertAt(@, i, value)]

(* Insert, up to where Split may be called; full says that it will be. *)
Enter(t, cur, key, value) ==
  LET c   == t.node[cur]
      ins == Place(c, key)
      t1  == PutAt(t, cur, ins, key, value)
      t2  == IF ~c.isLeaf /\ t.node[c.child[1]].isLeaf
               THEN LinkLeaf(t1, cur, ins, value) ELSE t1
  IN  [tree |-> t2, cur |-> cur, full |-> Len(c.key) + 1 = MaxChildNumber]

(* The upper half of node cur moves to node temp. *)
Halve(t, cur, temp) ==
  LET c    == t.node[cur]
      half == NewNode(c.isLeaf, SubSeq(c.key, Mid + 1, MaxChildNumber),
                      SubSeq(c.child, Mid + 1, MaxChildNumber), c.father)
      cut  == [c EXCEPT !.key = SubSeq(@, 1, Mid), !.child = SubSeq(@, 1, Mid)]
      t1   == [t EXCEPT !.node = [n \in DOMAIN @ \cup {temp} |->
                 IF n = temp THEN half ELSE IF n = cur THEN cut ELSE @[n]]]
  IN  Adopt(t1, Subnodes(t1, temp), temp)

(* The root has been halved: a new root is put above the halves. *)
PutRoot(t, cur, temp, root) ==
  LET top == NewNode(FALSE, <<t.node[cur].key[1], t.node[temp].key[1]>>, <<cur, temp>>, NULL)
      t1  == [Root |-> root,
              node |-> [n \in DOMAIN t.node \cup {root} |->
                          IF n = root THEN top ELSE t.node[n]]]
      t2  == Adopt(t1, {cur, temp}, root)
  IN  IF t.node[cur].isLeaf THEN [t2 EXCEPT !.node[cur].next = temp, !.node[temp].last = cur]
      ELSE t2

(* Node cur is full. *)
Split(t, cur) ==
  LET temp == Fresh(t)
      t1   == Halve(t, cur, temp)
  IN  IF cur = t.Root
        THEN [tree |-> PutRoot(t1, cur, temp, Fresh(t1)), cur |-> cur, full |-> FALSE]
        ELSE Enter(t1, t.node[cur].father, t1.node[temp].key[1], temp)

(* Insert and Split call each other, once for each level at most. *)
Insert(t, cur, key, value) ==
  LET after[i \in 0 .. Height(t) + 1] ==
        IF i = 0 THEN Enter(t, cur, key, value)
        ELSE LET s == after[i - 1] IN IF s.full THEN Split(s.tree, s.cur) ELSE s
  IN  after[Height(t) + 1].tree

-----------------------------------------------------------------------------
(* Resort: two neighbours share their entries evenly, Left first. *)
Resort(t, Left, Right) ==
  LET key   == t.node[Left].key \o t.node[Right].key
      child == t.node[Left].child \o t.node[Right].child
      half  == Len(key) \div 2
      t1    == [t EXCEPT !.node[Left].key    = SubSeq(key, 1, half),
                         !.node[Left].child  = SubSeq(child, 1, half),
                         !.node[Right].key   = SubSeq(key, half + 1, Len(key)),
                         !.node[Right].child = SubSeq(child, half + 1, Len(key))]
  IN  Adopt(Adopt(t1, Subnodes(t1, Left), Left), Subnodes(t1, Right), Right)

(* Wrong Absorb: the entries replace those of node to. *)
AbsorbOver(t, to, from) ==
  Adopt([t EXCEPT !.node[to].key = t.node[from].key,
                  !.node[to].child = t.node[from].child],
        Subnodes(t, from), to)

(* The entries of node from go behind those of node to. *)
Absorb(t, to, from) ==
  Adopt([t EXCEPT !.node[to].key = @ \o t.node[from].key,
                  !.node[to].child = @ \o t.node[from].child],
        Subnodes(t, from), to)

(* Delete, the part that takes a leaf out of the list of leaves. *)
UnlinkLeaf(t, leaf) ==
  LET prev == t.node[leaf].last
      succ == t.node[leaf].next
      t1   == IF prev = NULL THEN t ELSE [t EXCEPT !.node[prev].next = succ]
  IN  IF succ = NULL THEN t1 ELSE [t1 EXCEPT !.node[succ].last = prev]

(* Delete, the part that tells the ancestors of cur that the smallest key  *)
(* below them is not key any more: at these positions they have key.       *)
Outdated(t, cur, key) ==
  LET above[n \in DOMAIN t.node] ==
        LET father == t.node[n].father
        IN  IF n = t.Root THEN {}
            ELSE IF n = t.node[father].child[1] THEN {<<father, 1>>} \cup above[father]
            ELSE {<<father, Binary_Search(t.node[father], key)>>}
  IN  above[cur]

(* Wrong RaiseAncestors: only the father learns of it. *)
RaiseFather(t, cur, key) ==
  LET father == t.node[cur].father
  IN  [t EXCEPT !.node[father].key[Binary_Search(t.node[father], key)] = t.node[cur].key[1]]

(* The keys of node n afterwards. *)
RaisedArray(outdated, n, ks, k) ==
  [i \in DOMAIN ks |-> IF <<n, i>> \in outdated THEN k ELSE ks[i]]

RaiseAncestors(t, cur, key) ==
  LET outdated == Outdated(t, cur, key)
      k == t.node[cur].key[1]
  IN  [t EXCEPT !.node = [n \in DOMAIN t.node |->
         [t.node[n] EXCEPT !.key = RaisedArray(outdated, n, @, k)]]]

(* The entry at position i is taken out. *)
CutAt(t, n, i) == [t EXCEPT !.node[n].key = RemoveAt(@, i), !.node[n].child = RemoveAt(@, i)]

(* Node n is freed. *)
Freed(t, n) == [t EXCEPT !.node = [m \in DOMAIN @ \ {n} |-> @[m]]]

(* Delete, up to where Redistribute may be called; short says that it will *)
(* be.                                                                     *)
TakeOut(t, cur, key) ==
  LET c   == t.node[cur]
      del == Binary_Search(c, key)
      t1  == CutAt(t, cur, del)
      t2  == IF ~c.isLeaf /\ t.node[c.child[1]].isLeaf
               THEN UnlinkLeaf(t1, c.child[del]) ELSE t1
      t3  == IF del = 1 /\ cur # t.Root THEN RaiseAncestors(t2, cur, key) ELSE t2
      t4  == IF c.isLeaf THEN t3 ELSE Freed(t3, c.child[del])   \* free_fn
  IN  [tree |-> t4, cur |-> cur, short |-> (Len(c.key) - 1) * 2 < MaxChildNumber]

(* A root with a single child gives way to it. *)
Collapse(t) ==
  LET root == t.node[t.Root]
  IN  IF Len(root.key) = 1 /\ ~root.isLeaf
        THEN [Root |-> root.child[1],
              node |-> [n \in DOMAIN t.node \ {t.Root} |-> t.node[n]]]
        ELSE t

(* Entries go from one neighbour to the other; k is where the father has   *)
(* the first key of the right one.                                         *)
Borrow(t, Father, Left, Right, k) ==
  LET t1 == Resort(t, Left, Right)
  IN  [t1 EXCEPT !.node[Father].key[k] = t1.node[Right].key[1]]

(* Node cur has too few entries: it takes some from a neighbour that can   *)
(* spare them, or merges with one.                                         *)
Redistribute(t, cur) ==
  LET Father == t.node[cur].father
      f      == t.node[Father]
      my     == Binary_Search(f, t.node[cur].key[1])
      hasR   == my + 1 <= Len(f.key)
      hasL   == my - 1 >= 1
      succ   == f.child[my + 1]
      prev   == f.child[my - 1]
      Spare(n) == (Len(t.node[n].key) - 1) * 2 >= MaxChildNumber
      Returned(u) == [tree |-> u, cur |-> cur, short |-> FALSE]
  IN  IF cur = t.Root THEN Returned(Collapse(t))
      ELSE IF hasR /\ Spare(succ) THEN Returned(Borrow(t, Father, cur, succ, my + 1))
      ELSE IF hasL /\ Spare(prev) THEN Returned(Borrow(t, Father, prev, cur, my))
      ELSE IF hasR THEN TakeOut(Absorb(t, cur, succ), Father, t.node[succ].key[1])
      ELSE TakeOut(Absorb(t, prev, cur), Father, t.node[cur].key[1])

(* Delete and Redistribute call each other, once for each level at most. *)
Delete(t, cur, key) ==
  LET after[i \in 0 .. Height(t) + 1] ==
        IF i = 0 THEN TakeOut(t, cur, key)
        ELSE LET s == after[i - 1] IN IF s.short THEN Redistribute(s.tree, s.cur) ELSE s
  IN  after[Height(t) + 1].tree

-----------------------------------------------------------------------------
(* BPlusTree_Query_Key, BPlusTree_Query_Range and the cursor. *)
Query_Key(t, key) ==
  LET leaf == t.node[Find(t, key)]
  IN  IF key \in Range(leaf.key)
        THEN leaf.child[CHOOSE i \in DOMAIN leaf.key : leaf.key[i] = key] ELSE NoRecord

(* The entries of a leaf from position i on, and of the leaves behind it,  *)
(* up to key r.                                                            *)
RangeFrom(t, first, i, r) ==
  LET from[at \in {n \in DOMAIN t.node : t.node[n].isLeaf} \X (1 .. MaxChildNumber + 1)] ==
        LET n == t.node[at[1]]
            k == at[2]
        IN  IF k > Len(n.key) THEN IF n.next = NULL THEN <<>> ELSE from[<<n.next, 1>>]
            ELSE IF n.key[k] > r THEN <<>>
            ELSE <<n.child[k]>> \o from[<<at[1], k + 1>>]
  IN  from[<<first, i>>]

Query_Range(t, l, r) ==
  LET leaf == Find(t, l)
      n    == t.node[leaf]
      from == {i \in DOMAIN n.key : l <= n.key[i]}
  IN  RangeFrom(t, leaf, IF from = {} THEN Len(n.key) + 1
                         ELSE CHOOSE i \in from : \A j \in from : i <= j, r)

Leftmost(t) ==
  LET from[n \in DOMAIN t.node] ==
        IF t.node[n].isLeaf THEN n ELSE from[t.node[n].child[1]]
  IN  from[t.Root]

(* Wrong NextRecord: the last record of a leaf is skipped. *)
NextRecordSkipsLast(t, c) ==
  IF c.bnode = NULL THEN
    IF t.node[Leftmost(t)].key = <<>> THEN c ELSE [bnode |-> Leftmost(t), index |-> 1]
  ELSE IF c.index + 1 < Len(t.node[c.bnode].key) THEN [c EXCEPT !.index = @ + 1]
  ELSE [bnode |-> t.node[c.bnode].next, index |-> 1]

(* BPlusTree_get_next_record: the position of the next record.  Behind the *)
(* last record the cursor is back where it began.                          *)
NextRecord(t, c) ==
  IF c.bnode = NULL THEN
    IF t.node[Leftmost(t)].key = <<>> THEN c ELSE [bnode |-> Leftmost(t), index |-> 1]
  ELSE IF c.index + 1 <= Len(t.node[c.bnode].key) THEN [c EXCEPT !.index = @ + 1]
  ELSE [bnode |-> t.node[c.bnode].next, index |-> 1]

-----------------------------------------------------------------------------
Init ==
  /\ tree = EmptyTree
  /\ key0 = "null"
  /\ result = "done"

IsEmpty(t) == t.node[t.Root].key = <<>>

(* The key at the position that Binary_Search gives in the leaf is key.    *)
Found(key) ==
  LET leaf == tree.node[Find(tree, key)]
  IN  leaf.key # <<>> /\ leaf.key[Binary_Search(leaf, key)] = key

(* Its key is the freed one: whether that compares equal is up to what is  *)
(* in the freed memory.                                                    *)
FreedKeyRead == IsEmpty(tree) /\ key0 = "freed"

Alive == result # "aborted" /\ tree.Root # NULL

BPlusTree_Insert(key, value) ==
  /\ Alive
  /\ ~Found(key)
  /\ tree' = Insert(Lower(tree, key), Find(tree, key), key, value)
  /\ result' = "inserted"
  /\ UNCHANGED key0

BPlusTree_InsertRefused(key) ==
  /\ Alive
  /\ Found(key) \/ FreedKeyRead
  /\ result' = "refused"
  /\ UNCHANGED <<tree, key0>>

BPlusTree_Modify(key, value) ==
  /\ Alive
  /\ LET leaf == Find(tree, key)
         i    == Binary_Search(tree.node[leaf], key)
     IN  tree' = IF Found(key) THEN [tree EXCEPT !.node[leaf].child[i] = value] ELSE tree
  /\ result' = "done"
  /\ UNCHANGED key0

BPlusTree_Delete(key) ==
  /\ Alive
  /\ tree' = IF Found(key) THEN Delete(tree, Find(tree, key), key) ELSE tree
  /\ key0' = IF Found(key) /\ IsEmpty(tree') THEN "freed" ELSE key0
  /\ result' = "done"

(* The freed key compares equal: record and key are freed a second time. *)
FreedTwice ==
  /\ Alive
  /\ FreedKeyRead
  /\ result' = "aborted"
  /\ UNCHANGED <<tree, key0>>

(* Destroy: the keys it frees, in this order. *)
Frees(t) ==
  LET below[n \in DOMAIN t.node] ==
        LET c == t.node[n]
        IN  (IF c.isLeaf THEN c.key ELSE FlattenSeq([i \in DOMAIN c.child |-> below[c.child[i]]]))
              \o (IF c.key = <<>> THEN <<>> ELSE <<Head(c.key)>>)
  IN  below[t.Root]

BPlusTree_Destroy ==
  /\ Alive
  /\ IF FreedKeyRead \/ ~IsInjective(Frees(tree))
       THEN result' = "aborted" /\ UNCHANGED <<tree, key0>>
       ELSE result' = "done" /\ tree' = NoTree /\ UNCHANGED key0

BPlusTree_init ==
  /\ tree.Root = NULL
  /\ tree' = EmptyTree
  /\ UNCHANGED <<key0, result>>

Next ==
  \/ \E key \in Keys :
       \/ \E v \in Versions[key] : \/ BPlusTree_Insert(key, <<key, v>>)
                                   \/ BPlusTree_Modify(key, <<key, v>>)
       \/ BPlusTree_InsertRefused(key)
       \/ BPlusTree_Delete(key)
  \/ FreedTwice
  \/ BPlusTree_Destroy
  \/ BPlusTree_init

Spec == Init /\ [][Next]_vars

-----------------------------------------------------------------------------
(* The nodes hold as many children as keys and point to nodes.             *)
TypeOK ==
  /\ tree.Root \in DOMAIN tree.node \cup {NULL}
  /\ \A n \in DOMAIN tree.node :
       LET c == tree.node[n]
       IN  /\ c.key \in Seq(Keys)
           /\ Len(c.child) = Len(c.key)
           /\ {c.next, c.last} \subseteq DOMAIN tree.node \cup {NULL}
           /\ Subnodes(tree, n) \subseteq DOMAIN tree.node
           /\ c.isLeaf => \A r \in Range(c.child) : r[1] \in Keys /\ r[2] \in Versions[r[1]]
  /\ key0 \in {"null", "freed"}
  /\ result \in {"inserted", "refused", "done", "aborted"}

Built == tree.Root # NULL
Inner == {n \in DOMAIN tree.node : ~tree.node[n].isLeaf}
Leaves == DOMAIN tree.node \ Inner

(* The tree is a tree after every split, borrowing and merging, over all   *)
(* levels: a node's father is the node it is a child of, no node is lost   *)
(* or used after it was freed, all leaves below a node are equally far     *)
(* from it, and every node but the root is at least half full.             *)
Balanced ==
  Built =>
    /\ \A n \in Inner : \A m \in Subnodes(tree, n) : m # tree.Root /\ tree.node[m].father = n
    /\ \A n \in DOMAIN tree.node \ {tree.Root} :
         /\ tree.node[n].father \in Inner
         /\ \E i \in DOMAIN tree.node[tree.node[n].father].child :
              \A j \in DOMAIN tree.node[tree.node[n].father].child :
                (tree.node[tree.node[n].father].child[j] = n) <=> (j = i)
    /\ \A n \in Inner : \A m \in Subnodes(tree, n) : Levels(tree)[n] = Levels(tree)[m] + 1
    /\ \A n \in DOMAIN tree.node :
         Len(tree.node[n].key) \in (IF n # tree.Root THEN Mid ELSE IF n \in Inner THEN 2 ELSE 0)
                                   ..MaxChildNumber - 1

(* The keys in the leaves below each node. *)
KeysBelow ==
  LET below[n \in DOMAIN tree.node] ==
        IF tree.node[n].isLeaf THEN Range(tree.node[n].key)
        ELSE UNION {below[m] : m \in Subnodes(tree, n)}
  IN  below

(* A key in an inner node is the smallest key below it, and so the memory  *)
(* of a record's key that is still in the tree: were an ancestor missed    *)
(* when the smallest key of a leaf is deleted or undercut, it would point  *)
(* to freed memory and searches would take the wrong branch.               *)
KeysAreSmallest ==
  Built => LET below == KeysBelow
           IN  \A n \in Inner : \A i \in DOMAIN tree.node[n].key :
                 LET c == tree.node[n].child[i]
                 IN  /\ tree.node[n].key[i] \in below[c]
                     /\ \A k \in below[c] :
                          /\ tree.node[n].key[i] <= k
                          /\ i < Len(tree.node[n].key) => k < tree.node[n].key[i + 1]

(* Leaf n is the next one in the order of the keys. *)
Follows(m, n) ==
  /\ m # n
  /\ tree.node[m].key[1] < tree.node[n].key[1]
  /\ ~\E l \in Leaves : /\ tree.node[m].key[1] < tree.node[l].key[1]
                        /\ tree.node[l].key[1] < tree.node[n].key[1]

(* next and last chain the leaves in the order of their keys: scans and    *)
(* ranges walk this chain and never look at the inner nodes.               *)
LeavesLinked ==
  Built =>
    \A m \in Leaves :
      /\ {tree.node[m].next, tree.node[m].last} \subseteq Leaves \cup {NULL}
      /\ \A n \in Leaves : /\ ((tree.node[m].next = n) <=> Follows(m, n))
                            /\ ((tree.node[n].last = m) <=> Follows(m, n))

(* After every call, however many levels a split, a borrowing or a merge   *)
(* went through: the three together, on nodes of the right type.           *)
ShapeSound == TypeOK /\ Balanced /\ KeysAreSmallest /\ LeavesLinked

(* What is in the leaves, as a set and as a map. *)
Entries == UNION {Range(tree.node[n].child) : n \in Leaves}

Contents ==
  [k \in {e[1] : e \in Entries} |-> CHOOSE e \in Entries : e[1] = k]

(* A query finds the record of every key in the tree and of no other: the  *)
(* keys on every level lead to the one leaf the record is in.              *)
QueriesFind ==
  Built => \A k \in Keys :
    Query_Key(tree, k) = IF k \in DOMAIN Contents THEN Contents[k] ELSE NoRecord

(* How many records have a smaller key. *)
Before(key) == Cardinality({e \in Entries : e[1] < key})

(* The records of the tree in the order of their keys. *)
InOrder ==
  [i \in 1..Cardinality(Entries) |-> CHOOSE e \in Entries : Before(e[1]) = i - 1]

(* What a scan with the cursor gets: one call for every record, and one    *)
(* more.                                                                   *)
Start == [bnode |-> NULL, index |-> 1]

Scan ==
  LET calls == Cardinality(Entries) + 1
      at[i \in 0..calls] == IF i = 0 THEN Start ELSE NextRecord(tree, at[i - 1])
  IN  [i \in 1..calls |-> IF at[i].bnode = NULL THEN NoRecord
                           ELSE tree.node[at[i].bnode].child[at[i].index]]

(* A scan visits the records of the tree, each once and in the order of    *)
(* their keys, and ends behind the last one; a query for a range visits    *)
(* those of the range: whatever splits and merges the chain of leaves has  *)
(* been through.                                                           *)
ScansInOrder ==
  Built =>
    LET all == InOrder
    IN  /\ Scan = Append(all, NoRecord)
        /\ \A l, r \in Keys :
             Query_Range(tree, l, r) = SubSeq(all, Before(l) + 1, Before(r + 1))

Map == INSTANCE OrderedMap
         WITH Key <- Keys, Record <- [k \in Keys |-> {k} \X Versions[k]],
              records <- Contents, outcome <- result

(* The tree implements the map, as long as no call compares its key with   *)
(* the freed key of an emptied tree and nobody destroys the tree.          *)
StepsOfMap ==
  /\ Map!MapInit
  /\ [][ \/ Map!MapNext
         \/ FreedKeyRead /\ result' \in {"refused", "aborted"}
         \/ BPlusTree_Destroy ]_<<Contents, result>>

=============================================================================
