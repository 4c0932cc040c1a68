------------------------------- MODULE AvlTree -------------------------------
(***************************************************************************)
(* The AVL tree library (src/Tree/avl.c): a balanced tree threaded through *)
(* nodes the caller owns.  A node in the tree has links to its children    *)
(* and its parent and the difference of the heights of its subtrees; the   *)
(* tree has its root, its first and last node and its height.              *)
(*                                                                         *)
(* The library writes every case twice, once for each direction.  Here a   *)
(* direction is a parameter, "left" or "right", which is also the name of  *)
(* the link: the case of the other direction is the mirror image.          *)
(***************************************************************************)
EXTENDS Integers, Sequences, FiniteSets

CONSTANTS
  Node,    \* the nodes the callers own
  KeyOf,   \* KeyOf[x]: what the comparison of the tree's client orders x by
  MaxGaps  \* bound: how many keys below the greatest one in the tree may be left out

NULL == 0

ASSUME AvlAssumption ==
  Node \subseteq Nat \ {NULL} /\ KeyOf \in [Node -> Nat] /\ MaxGaps \in Nat

VARIABLES
  tree,     \* the tree, with the nodes linked into it
  answers,  \* auxiliary: what avltree_lookup answers for each key that it finds
  outcome   \* how the last call ended: "inserted", "refused" or "done"

vars == <<tree, answers, outcome>>

-----------------------------------------------------------------------------
(* Nodes and links. *)

Opposite(side) == IF side = "left" THEN "right" ELSE "left"
Sign(side) == IF side = "left" THEN -1 ELSE 1

Parent(t, x) == t.node[x].parent
SetParent(t, p, x) == IF x = NULL THEN t ELSE [t EXCEPT !.node[x].parent = p]
SetChild(t, c, p, side) == [t EXCEPT !.node[p][side] = c]
SetBalance(t, b, x) == [t EXCEPT !.node[x].balance = b]
SetBalances(t, b, x, c, y) == SetBalance(SetBalance(t, b, x), c, y)
AddBalance(t, d, x) == [t EXCEPT !.node[x].balance = @ + d]

SideOf(t, x) == IF Parent(t, x) # NULL /\ t.node[Parent(t, x)].left = x
                THEN "left" ELSE "right"

\* y takes the place of x below the parent of x.
Adopt(t, x, y) == IF Parent(t, x) = NULL THEN [t EXCEPT !.root = y]
                  ELSE SetChild(t, y, Parent(t, x), SideOf(t, x))

\* The last node on the way from x to one side.
RECURSIVE Outermost(_, _, _)
Outermost(t, x, side) == IF t.node[x][side] = NULL THEN x
                         ELSE Outermost(t, t.node[x][side], side)

\* The nearest node above x that x does not lie on the given side of.
RECURSIVE Ascend(_, _, _)
Ascend(t, x, side) ==
  IF Parent(t, x) # NULL /\ t.node[Parent(t, x)][side] = x
  THEN Ascend(t, Parent(t, x), side) ELSE Parent(t, x)

\* The neighbour of x in key order: avltree_next to the right, avltree_prev to
\* the left.
Neighbour(t, x, side) ==
  IF t.node[x][side] # NULL THEN Outermost(t, t.node[x][side], Opposite(side))
  ELSE Ascend(t, x, side)

-----------------------------------------------------------------------------
(* Lookups: the node of a key, or where it would be linked.  `unbalanced` is
   the last node on the way whose subtrees differ in height. *)

RECURSIVE Descend(_, _, _, _)
Descend(t, k, x, at) ==
  IF x = NULL THEN at
  ELSE IF KeyOf[x] = k THEN [at EXCEPT !.found = x]
  ELSE LET side == IF KeyOf[x] > k THEN "left" ELSE "right"
           unbalanced == IF t.node[x].balance # 0 THEN x ELSE at.unbalanced
       IN Descend(t, k, t.node[x][side],
                  [found |-> NULL, parent |-> x, unbalanced |-> unbalanced, side |-> side])

DoLookup(t, k) ==
  Descend(t, k, t.root,
          [found |-> NULL, parent |-> NULL, unbalanced |-> t.root, side |-> "right"])

\* avltree_lookup asks for the node only.
RECURSIVE Find(_, _, _)
Find(t, k, x) == IF x = NULL \/ KeyOf[x] = k THEN x
                 ELSE Find(t, k, IF KeyOf[x] > k THEN t.node[x].left ELSE t.node[x].right)

Lookup(t, k) == Find(t, k, t.root)

-----------------------------------------------------------------------------
(* Rotations. *)

\* x goes down to the given side, its child of the other side takes its place
\* and hands it its own child of that side.
RotateUp(t, x, side, y) ==
  LET inner == t.node[y][side]
  IN SetChild(SetParent(SetChild(SetParent(SetParent(Adopt(t, x, y), Parent(t, x), y),
                                           y, x),
                                 inner, x, Opposite(side)),
                        x, inner),
              x, y, side)

Rotate(t, x, side) == RotateUp(t, x, side, t.node[x][Opposite(side)])

\* The child of x on the heavy side leans the same way: one rotation.
Single(t, x, heavy) ==
  Rotate(SetBalances(t, 0, x, 0, t.node[x][heavy]), x, Opposite(heavy))

\* It leans the other way: its own inner child comes up by two rotations, and
\* what that child leaned to decides the balances.
DoubleBalances(t, x, heavy, y, lean) ==
  CASE lean = Sign(heavy)  -> SetBalances(t, -Sign(heavy), x, 0, y)
    [] lean = 0            -> SetBalances(t, 0, x, 0, y)
    [] lean = -Sign(heavy) -> SetBalances(t, 0, x, Sign(heavy), y)

DoubleAt(t, x, heavy, y, inner) ==
  Rotate(Rotate(SetBalance(DoubleBalances(t, x, heavy, y, t.node[inner].balance), 0, inner),
                y, heavy),
         x, Opposite(heavy))

Double(t, x, heavy) ==
  DoubleAt(t, x, heavy, t.node[x][heavy], t.node[t.node[x][heavy]][Opposite(heavy)])

-----------------------------------------------------------------------------
(* avltree_insert *)

\* The balances on the way from x up to the node `top` account for the new leaf.
RECURSIVE Tilt(_, _, _)
Tilt(t, x, top) ==
  LET p == Parent(t, x)
  IN IF p = top THEN AddBalance(t, Sign(SideOf(t, x)), p)
     ELSE Tilt(AddBalance(t, Sign(SideOf(t, x)), p), p, top)

Rebalance(t, x) ==
  CASE t.node[x].balance \in {-1, 1} -> [t EXCEPT !.height = @ + 1]
    [] t.node[x].balance = 0 -> t
    [] t.node[x].balance \in {-2, 2} ->
         LET heavy == IF t.node[x].balance = 2 THEN "right" ELSE "left"
         IN IF t.node[t.node[x][heavy]].balance = Sign(heavy) THEN Single(t, x, heavy)
            ELSE Double(t, x, heavy)

\* The node x, initialised and linked at the place `at`.
Linked(t, x, at) ==
  [t EXCEPT !.node = [y \in DOMAIN t.node \cup {x} |->
                        IF y = x THEN [left |-> NULL, right |-> NULL,
                                       parent |-> at.parent, balance |-> 0]
                        ELSE IF y = at.parent THEN [t.node[y] EXCEPT ![at.side] = x]
                        ELSE t.node[y]],
            !.first = IF at.side = "left" /\ at.parent = t.first THEN x ELSE @,
            !.last = IF at.side = "right" /\ at.parent = t.last THEN x ELSE @]

LinkedFirst(t, x) ==
  [root |-> x, first |-> x, last |-> x, height |-> t.height + 1,
   node |-> [y \in {x} |-> [left |-> NULL, right |-> NULL, parent |-> NULL, balance |-> 0]]]

Inserted(t, x, at) ==
  IF at.parent = NULL THEN LinkedFirst(t, x)
  ELSE Rebalance(Tilt(Linked(t, x, at), x, at.unbalanced), at.unbalanced)

-----------------------------------------------------------------------------
(* avltree_remove *)

\* From x upwards, whose subtree on the given side has lost a level.
RECURSIVE Retrace(_, _, _)

\* As if the height were unchanged after every rotation.
StopsAfterRotation(t, x, side, up, upside) ==
  CASE t.node[x].balance = 0 -> Retrace(t, up, upside)
    [] t.node[x].balance = -Sign(side) -> t
    [] OTHER ->
         LET y == t.node[x][Opposite(side)]
         IN IF t.node[y].balance = 0
            THEN Rotate(SetBalances(t, -Sign(side), x, Sign(side), y), x, side)
            ELSE IF t.node[y].balance = Sign(side) THEN Double(t, x, Opposite(side))
            ELSE Single(t, x, Opposite(side))

Retraced(t, x, side, up, upside) ==
  CASE t.node[x].balance = 0 -> Retrace(t, up, upside)
    [] t.node[x].balance = -Sign(side) -> t
    [] OTHER ->
         LET y == t.node[x][Opposite(side)]
         IN IF t.node[y].balance = 0
            THEN Rotate(SetBalances(t, -Sign(side), x, Sign(side), y), x, side)
            ELSE Retrace(IF t.node[y].balance = Sign(side) THEN Double(t, x, Opposite(side))
                         ELSE Single(t, x, Opposite(side)),
                         up, upside)
Retrace(t, x, side) ==
  IF x = NULL THEN [t EXCEPT !.height = @ - 1]
  ELSE Retraced(AddBalance(t, -Sign(side), x), x, side, Parent(t, x), SideOf(t, x))

Forget(t, x) == [t EXCEPT !.node = [y \in DOMAIN t.node \ {x} |-> t.node[y]]]

\* A node with at most one child gives its place to that child.
UnlinkEdge(t, x, child) ==
  Retrace(Forget(SetParent(Adopt(t, x, child), Parent(t, x), child), x),
          Parent(t, x), SideOf(t, x))

\* A node with two gives its place and balance to its successor y: its right
\* child, or a node further down, which first leaves its right child behind.
UnlinkAbove(t, x, y) ==
  Retrace(Forget(SetParent([Adopt(t, x, y) EXCEPT
                              !.node[y].left = t.node[x].left,
                              !.node[y].parent = Parent(t, x),
                              !.node[y].balance = t.node[x].balance],
                           y, t.node[x].left), x),
          y, "right")

\* As if the successor never had a child.
UnlinkWithoutOrphan(t, x, y) ==
  LET from == Parent(t, y)
  IN Retrace(Forget(SetChild(SetParent(SetParent(
                 [Adopt(t, x, y) EXCEPT !.node[y] = t.node[x]],
               y, t.node[x].left), y, t.node[x].right), NULL, from, "left"), x),
             from, "left")

UnlinkFarAbove(t, x, y) ==
  LET orphan == t.node[y].right
      from   == Parent(t, y)
  IN Retrace(Forget(SetParent(SetChild(SetParent(SetParent(
                 [Adopt(t, x, y) EXCEPT !.node[y] = t.node[x]],
               y, t.node[x].left), y, t.node[x].right), orphan, from, "left"),
               from, orphan), x),
             from, "left")

Unlink(t, x) ==
  CASE t.node[x].left = NULL  -> UnlinkEdge(t, x, t.node[x].right)
    [] t.node[x].left # NULL /\ t.node[x].right = NULL -> UnlinkEdge(t, x, t.node[x].left)
    [] OTHER -> LET next == Outermost(t, t.node[x].right, "left")
                IN IF next = t.node[x].right THEN UnlinkAbove(t, x, next)
                   ELSE UnlinkFarAbove(t, x, next)

\* First and last move on before anything is unlinked.
MoveEnds(t, x) ==
  [t EXCEPT !.first = IF x = @ THEN Neighbour(t, x, "right") ELSE @,
            !.last = IF x = @ THEN Neighbour(t, x, "left") ELSE @]

Removed(t, x) == Unlink(MoveEnds(t, x), x)

-----------------------------------------------------------------------------
(* avltree_replace *)

Replaced(t, old, new) ==
  LET u == SetParent(SetParent(Adopt(t, old, new), new, t.node[old].left),
                     new, t.node[old].right)
  IN [Forget(u, old) EXCEPT
        !.node = [y \in DOMAIN @ \cup {new} |-> IF y = new THEN t.node[old] ELSE u.node[y]],
        !.first = IF @ = old THEN new ELSE @,
        !.last = IF @ = old THEN new ELSE @]

-----------------------------------------------------------------------------
(* The calls.  A caller does not give the tree a node that is already in it,
   nor takes out one that is not, and replaces a node by one of the same key. *)

Answers(t) == [k \in {KeyOf[x] : x \in DOMAIN t.node} |-> Lookup(t, k)]

BecomesTree(t) == tree' = t /\ answers' = Answers(tree')

AvltreeInit ==
  /\ tree = [root |-> NULL, first |-> NULL, last |-> NULL, height |-> -1, node |-> << >>]
  /\ answers = Answers(tree)
  /\ outcome = "done"

InTree == DOMAIN tree.node

AvltreeInsert(x) ==
  /\ DoLookup(tree, KeyOf[x]).found = NULL
  /\ BecomesTree(Inserted(tree, x, DoLookup(tree, KeyOf[x])))
  /\ outcome' = "inserted"

AvltreeRefuse(x) ==
  /\ DoLookup(tree, KeyOf[x]).found # NULL
  /\ outcome' = "refused"
  /\ UNCHANGED <<tree, answers>>

AvltreeRemove(x) ==
  /\ BecomesTree(Removed(tree, x))
  /\ outcome' = "done"

AvltreeReplace(old, new) ==
  /\ KeyOf[old] = KeyOf[new]
  /\ BecomesTree(Replaced(tree, old, new))
  /\ outcome' = "done"

\* The keys left out below the greatest one.  Only the order of the keys matters
\* to the tree, so a tree of few gaps stands for those of more.
Gaps(nodes) == {k \in {KeyOf[x] : x \in Node} :
                  /\ \A x \in nodes : KeyOf[x] # k
                  /\ \E x \in nodes : k < KeyOf[x]}

Next ==
  \/ \E x \in Node \ InTree :
       Cardinality(Gaps(InTree \cup {x})) <= MaxGaps /\ (AvltreeInsert(x) \/ AvltreeRefuse(x))
  \/ \E x \in InTree : Cardinality(Gaps(InTree \ {x})) <= MaxGaps /\ AvltreeRemove(x)
  \/ \E old \in InTree, new \in Node \ InTree : AvltreeReplace(old, new)

Spec == AvltreeInit /\ [][Next]_vars

-----------------------------------------------------------------------------
(* Properties. *)

RECURSIVE HeightBelow(_, _)
HeightBelow(t, x) ==
  IF x = NULL THEN -1
  ELSE LET l == HeightBelow(t, t.node[x].left)
           r == HeightBelow(t, t.node[x].right)
       IN 1 + IF l > r THEN l ELSE r

\* Through every order of insertions, removals and replacements the balance a
\* node records is the difference of the heights of its subtrees and at most
\* one, each child names its parent, and the tree knows its height: the rotations
\* of avltree_insert and the chains of them in avltree_remove are all accounted
\* for (src/Tree/avl.c:310, 455).
BalancesAreHeights ==
  /\ tree.height = HeightBelow(tree, tree.root)
  /\ \A x \in InTree :
       LET n == tree.node[x]
       IN /\ n.balance = HeightBelow(tree, n.right) - HeightBelow(tree, n.left)
          /\ n.balance \in -1 .. 1
          /\ n.parent = NULL <=> x = tree.root
          /\ \A c \in {n.left, n.right} \ {NULL} : Parent(tree, c) = x

\* The nodes from x on to one side, in the order the iterator meets them.
RECURSIVE Walk(_, _, _)
Walk(t, x, side) == IF x = NULL THEN << >> ELSE <<x>> \o Walk(t, Neighbour(t, x, side), side)

Precedes(side, x, y) == IF side = "right" THEN KeyOf[x] < KeyOf[y] ELSE KeyOf[x] > KeyOf[y]

\* The iterators meet every node of the tree once and in key order, from the
\* first node up and from the last one down; and the loop of ITERATE_AVL_TREE
\* (src/Tree/libtree.h), which takes the next node before its body runs, meets
\* the same nodes after x when the body removes x.
WalksInOrder ==
  /\ {tree.first, tree.last} \subseteq IF InTree = {} THEN {NULL} ELSE InTree
  /\ \A side \in {"left", "right"} :
       LET w == Walk(tree, IF side = "right" THEN tree.first ELSE tree.last, side)
       IN /\ Len(w) = Cardinality(InTree)
          /\ \A i \in 1 .. Len(w) - 1 : Precedes(side, w[i], w[i + 1])
  /\ \A x \in InTree :
       LET next == Neighbour(tree, x, "right")
       IN Walk(Removed(tree, x), next, "right") = Walk(tree, next, "right")

\* Both, after every call: the shape that the rotations keep and the order that
\* the iterators and the links to the first and last node rely on.
TreeSound == BalancesAreHeights /\ WalksInOrder

\* What a client is promised: a map from keys to nodes, as lookups see it.
Map == INSTANCE OrderedMap WITH
  Key <- {KeyOf[x] : x \in Node},
  Record <- [k \in {KeyOf[x] : x \in Node} |-> {x \in Node : KeyOf[x] = k}],
  records <- answers, outcome <- outcome

\* Every call is one step of that map: the node inserted is found afterwards and
\* no other answer changes, an insert is refused exactly when its key is there,
\* the node removed is the only one that goes, and a replaced node is found in the
\* other's place, however the tree turned on the way.
CallsAreMapSteps == Map!MapSpec
=============================================================================
