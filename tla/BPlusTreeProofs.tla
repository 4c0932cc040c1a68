-------------------------- MODULE BPlusTreeProofs ---------------------------
(***************************************************************************)
(* Proofs about BPlusTree, third part: the theorems.  For any keys, any    *)
(* records and any even limit on the entries of a node, the tree stays a   *)
(* tree whose leaves are chained in the order of the keys, queries and     *)
(* ranges find what is in the tree and nothing else, a scan meets every    *)
(* record once and in order, and the calls are steps of a map.             *)
(***************************************************************************)
EXTENDS BPlusTreeCalls

-----------------------------------------------------------------------------
(* A record is replaced in its leaf. *)
WithChild(t, n, i, r) == [t EXCEPT !.node[n].child[i] = r]
ChildChanged(c2, cs, i, r) == c2 = [cs EXCEPT ![i] = r]

(* One element of a sequence of children is replaced. *)
LEMMA ChildChangedIs ==
  ASSUME NEW cs, cs \in Seq(Cell), NEW i, i \in 1..Len(cs), NEW r, r \in Cell,
         NEW c2, ChildChanged(c2, cs, i, r)
  PROVE  c2 \in Seq(Cell) /\ ReplacedAt(c2, cs, i, r)
<1>1. c2 = [cs EXCEPT ![i] = r]
  BY DEF ChildChanged
<1>2. c2 \in Seq(Cell) /\ Len(c2) = Len(cs)
  BY <1>1
<1>3. \A j \in 1..Len(cs) : c2[j] = IF j = i THEN r ELSE cs[j]
  BY <1>1
<1> QED BY <1>2, <1>3 DEF ReplacedAt

(* The tree with such a child in one node. *)
Childed(t, t2, c, gc) ==
  /\ IsTree(t2)
  /\ t2.Root = t.Root /\ DOMAIN t2.node = DOMAIN t.node
  /\ Has(t2.node[c], t.node[c].isLeaf, t.node[c].key, gc,
         t.node[c].father, t.node[c].next, t.node[c].last)
  /\ \A n \in DOMAIN t.node : n # c => t2.node[n] = t.node[n]

(* What that does to the tree. *)
LEMMA WithChildIs ==
  ASSUME NEW t, IsTree(t), NEW c, c \in DOMAIN t.node, NEW cs, cs = t.node[c].child,
         NEW i, i \in 1..Len(cs), NEW r, r \in Cell, NEW gc, ChildChanged(gc, cs, i, r),
         NEW t2, t2 = WithChild(t, c, i, r)
  PROVE  Childed(t, t2, c, gc)
<1>1. PICK D : D = DOMAIN t.node
  OBVIOUS
<1>2. t \in [Root : Nat, node : [D -> Node]] /\ D \subseteq Nat \ {0} /\ IsFiniteSet(D) /\ c \in D
  BY <1>1 DEF IsTree
<1>3. PICK nd \in Node : nd = t.node[c]
  BY <1>2
<1>4. PICK f \in [D -> Node] : f = t.node
  BY <1>2
<1>5. cs = nd.child /\ gc = [cs EXCEPT ![i] = r]
  BY <1>3 DEF ChildChanged
<1>6. gc \in Seq(Cell)
  BY <1>3, <1>5, NodeHas, ChildChangedIs
<1> DEFINE nd2 == [nd EXCEPT !.child = gc]
           f2 == [f EXCEPT ![c] = nd2]
<1>7. nd2 \in Node
  BY <1>6 DEF Node
<1>8. t2 = [t EXCEPT !.node = f2]
  BY <1>2, <1>3, <1>4, <1>5 DEF WithChild
<1>9. f2 \in [D -> Node]
  BY <1>7
<1> HIDE DEF f2
<1>10. t2.Root = t.Root /\ t2.node = f2
  BY <1>2, <1>8
<1>11. t2 \in [Root : Nat, node : [D -> Node]]
  BY <1>2, <1>8, <1>9
<1>12. DOMAIN t2.node = D
  BY <1>9, <1>10
<1>13. IsTree(t2)
  BY <1>2, <1>11, <1>12 DEF IsTree
<1>14. Has(t2.node[c], nd.isLeaf, nd.key, gc, nd.father, nd.next, nd.last)
  <2>1. t2.node[c] = nd2
    BY <1>2, <1>10 DEF f2
  <2>2. /\ nd2.isLeaf = nd.isLeaf /\ nd2.key = nd.key /\ nd2.child = gc
        /\ nd2.father = nd.father /\ nd2.next = nd.next /\ nd2.last = nd.last
    BY DEF Node
  <2> HIDE DEF nd2
  <2> QED BY <2>1, <2>2 DEF Has
<1>15. ASSUME NEW n \in D, n # c
       PROVE  t2.node[n] = t.node[n]
  BY <1>4, <1>10, <1>15 DEF f2
<1> QED BY <1>1, <1>3, <1>10, <1>12, <1>13, <1>14, <1>15 DEF Childed

(* The arrays of a leaf with another record for one of its keys. *)
LEMMA ReplaceStores ==
  ASSUME NEW isLeaf, NEW ks, NEW cs, NEW F, Holds(isLeaf, ks, cs, F),
         NEW x \in Keys, NEW i, KeyAt(x, ks, i), NEW r, r \in {x} \X Versions[x],
         NEW c2, ChildChanged(c2, cs, i, r)
  PROVE  Holds(isLeaf, ks, c2, Plus(F, x, r))
<1>1. /\ Arrays(Cell, ks, cs) /\ Fits(isLeaf, ks, cs) /\ Kids(ks, cs) = F
      /\ i \in 1..Len(ks) /\ ks[i] = x
  BY DEF Holds, KeyAt
<1>2. r \in Cell
  BY DEF Cell, Record
<1>3. cs \in Seq(Cell) /\ Len(cs) = Len(ks)
  BY <1>1 DEF Arrays
<1>4. c2 \in Seq(Cell) /\ ReplacedAt(c2, cs, i, r)
  BY <1>1, <1>2, <1>3, ChildChangedIs
<1>5. Arrays(Cell, ks, c2)
  BY <1>1, <1>2, <1>4, ReplaceKid
<1>6. Kids(ks, c2) = Plus(Kids(ks, cs), ks[i], r)
  BY <1>1, <1>2, <1>4, ReplaceKid
<1>7. Kids(ks, c2) = Plus(F, x, r)
  BY <1>1, <1>6
<1>8. Fits(isLeaf, ks, c2)
  BY <1>1, <1>3, <1>4 DEF Fits, ReplacedAt
<1> QED BY <1>5, <1>7, <1>8 DEF Holds

(* Modify leaves the tree sound, with the new record in the place of the   *)
(* old one.                                                                *)
LEMMA ModifySound ==
  ASSUME NEW t, NEW w, Sound(t, w), AllSized(t), NEW x \in Keys, NEW r, r \in {x} \X Versions[x],
         NEW l, Leaf(w, l), x \in w.area[l], NEW i, KeyAt(x, t.node[l].key, i),
         NEW t2, t2 = WithChild(t, l, i, r)
  PROVE  \E w2 : Sound(t2, w2) /\ PutHeld(w, w2, x, r) /\ AllSized(t2)
<1>1. l \in DOMAIN t.node /\ t.node[l].isLeaf /\ w.level[l] = 0
  BY LeafIs
<1>2. /\ IsTree(t) /\ Shape(w) /\ Linked(w)
      /\ w.nodes = DOMAIN t.node /\ w.root = t.Root
  BY SoundFrame
<1>3. PICK nd : nd = t.node[l]
  OBVIOUS
<1>4. PICK c2 : c2 = [nd.child EXCEPT ![i] = r]
  OBVIOUS
<1>5. ChildChanged(c2, nd.child, i, r)
  BY <1>4 DEF ChildChanged
<1>6. Holds(nd.isLeaf, nd.key, nd.child, w.kids[l])
  BY <1>1, <1>3, SoundHolds
<1>7. Holds(nd.isLeaf, nd.key, c2, Plus(w.kids[l], x, r))
  BY <1>3, <1>5, <1>6, ReplaceStores
<1>8. Childed(t, t2, l, c2)
  <2>1. r \in Cell
    BY DEF Cell, Record
  <2>2. i \in 1..Len(nd.child)
    BY <1>1, <1>3, SoundNode DEF KeyAt
  <2> QED BY <1>1, <1>2, <1>3, <1>5, <2>1, <2>2, WithChildIs
<1>9. /\ IsTree(t2)
      /\ t2.Root = t.Root /\ DOMAIN t2.node = DOMAIN t.node
      /\ Has(t2.node[l], nd.isLeaf, nd.key, c2, nd.father, nd.next, nd.last)
      /\ \A n \in DOMAIN t.node : n # l => t2.node[n] = t.node[n]
  BY <1>3, <1>8 DEF Childed
<1>10. PICK n2 : n2 = t2.node[l]
  OBVIOUS
<1>11. /\ n2.isLeaf /\ n2.key = nd.key /\ n2.child = c2
       /\ n2.father = nd.father /\ n2.next = nd.next /\ n2.last = nd.last
  BY <1>1, <1>3, <1>9, <1>10 DEF Has
<1>12. Stores(n2) /\ Kids(n2.key, n2.child) = Plus(w.kids[l], x, r)
  <2>1. Holds(n2.isLeaf, n2.key, n2.child, Plus(w.kids[l], x, r))
    BY <1>1, <1>3, <1>7, <1>9, <1>10 DEF Has
  <2> QED BY <1>11, <2>1, HoldsStores
<1>13. PICK w2 : w2 = View(t2, w.level, w.area)
  OBVIOUS
<1>14. /\ w2.nodes = DOMAIN t2.node /\ w2.root = t2.Root
       /\ w2.level = w.level /\ w2.area = w.area
       /\ \A n \in DOMAIN t2.node : /\ w2.kids[n] = Kids(t2.node[n].key, t2.node[n].child)
                                    /\ w2.father[n] = t2.node[n].father
                                    /\ w2.next[n] = t2.node[n].next
                                    /\ w2.last[n] = t2.node[n].last
  BY <1>13, ViewIs
<1>15. ASSUME NEW n, n \in DOMAIN t.node
       PROVE  /\ Stores(t2.node[n])
              /\ t2.node[n].isLeaf <=> w.level[n] = 0
              /\ w2.father[n] = w.father[n] /\ w2.next[n] = w.next[n] /\ w2.last[n] = w.last[n]
              /\ n # l => w2.kids[n] = w.kids[n]
  <2>1. /\ w.kids[n] = Kids(t.node[n].key, t.node[n].child)
        /\ w.father[n] = t.node[n].father
        /\ w.next[n] = t.node[n].next
        /\ w.last[n] = t.node[n].last
        /\ t.node[n].isLeaf <=> w.level[n] = 0
        /\ Stores(t.node[n])
    BY <1>15, SoundSees, SoundFits
  <2>2. CASE n = l
    BY <1>1, <1>3, <1>9, <1>10, <1>11, <1>12, <1>14, <2>1, <2>2
  <2>3. CASE n # l
    <3>1. t2.node[n] = t.node[n]
      BY <1>9, <1>15, <2>3
    <3> QED BY <1>9, <1>14, <1>15, <2>1, <2>3, <3>1
  <2> QED BY <2>2, <2>3
<1>16. w2.nodes = w.nodes /\ w2.root = w.root /\ w2.kids[l] = Plus(w.kids[l], x, r)
  BY <1>1, <1>2, <1>9, <1>10, <1>12, <1>14
<1>17. SameTree(w, w2)
  BY <1>2, <1>14, <1>15, <1>16 DEF SameTree
<1>18. LeafView(w, w2, l)
  BY <1>2, <1>14, <1>15, <1>17 DEF LeafView
<1>19. Shape(w2)
  <2>1. x \in DOMAIN w.kids[l]
    <3>1. i \in 1..Len(nd.key) /\ nd.key[i] = x
      BY <1>3 DEF KeyAt
    <3> QED BY <1>1, <1>3, <3>1, NodeKids
  <2>2. DOMAIN w2.kids[l] = DOMAIN w.kids[l]
    BY <1>16, <2>1 DEF Plus
  <2>3. DOMAIN w.kids[l] \subseteq w.area[l]
    BY <1>1, <1>2 DEF Shape
  <2> QED BY <1>1, <1>2, <1>18, <2>2, <2>3, LeafShape
<1>20. Linked(w2)
  <2>1. SameLinks(w, w2)
    BY <1>2, <1>15 DEF SameLinks
  <2> QED BY <1>2, <1>14, <1>17, <2>1, SameAreasLinked
<1>21. Sound(t2, w2)
  <2>1. \A n \in DOMAIN t2.node : Stores(t2.node[n])
    BY <1>9, <1>15
  <2>2. \A n \in DOMAIN t2.node : t2.node[n].isLeaf <=> w.level[n] = 0
    BY <1>9, <1>15
  <2> QED BY <1>9, <1>13, <1>19, <1>20, <2>1, <2>2, SoundFrom
<1>22. PutHeld(w, w2, x, r)
  <2>1. \A n \in w.nodes : w.level[n] = 0 /\ n # l => w2.kids[n] = w.kids[n]
    BY <1>2, <1>15
  <2>2. x \in Int
    BY TreeConstants
  <2> QED BY <1>2, <1>14, <1>16, <2>1, <2>2, PlusHeld
<1>23. AllSized(t2)
  <2>1. ASSUME NEW n \in DOMAIN t2.node
        PROVE  SizedAt(t2, n)
    <3>1. SameSize(t, t2, n)
      <4>1. CASE n = l
        BY <1>1, <1>3, <1>9, <1>10, <1>11, <4>1 DEF SameSize, Has
      <4>2. CASE n # l
        BY <1>9, <2>1, <4>2 DEF SameSize
      <4> QED BY <4>1, <4>2
    <3>2. SizedAt(t, n)
      BY <1>9, <2>1 DEF AllSized
    <3> QED BY <3>1, <3>2, SameSized
  <2> QED BY <2>1 DEF AllSized
<1> QED BY <1>21, <1>22, <1>23

-----------------------------------------------------------------------------
(* The records of a tree as a map.                                         *)
EntriesOf(t) ==
  UNION {Range(t.node[n].child) : n \in DOMAIN t.node \ {m \in DOMAIN t.node : ~t.node[m].isLeaf}}
ContentsOf(t) ==
  [k \in {e[1] : e \in EntriesOf(t)} |-> CHOOSE e \in EntriesOf(t) : e[1] = k]

(* These are the entries and contents of the module. *)
LEMMA ContentsIs == Contents = ContentsOf(tree)
BY DEF Contents, ContentsOf, Entries, EntriesOf, Leaves, Inner

(* What is in a leaf of the tree is held there in its view. *)
LEMMA EntryHeld ==
  ASSUME NEW t, NEW w, Sound(t, w), NEW e, e \in EntriesOf(t)
  PROVE  HeldBy(w, e[1], e)
<1>1. PICK n : n \in DOMAIN t.node /\ t.node[n].isLeaf /\ e \in Range(t.node[n].child)
  BY DEF EntriesOf
<1>2. PICK nd : nd = t.node[n]
  OBVIOUS
<1>3. nd.child \in Seq(Cell) /\ Len(nd.child) = Len(nd.key) /\ n \in w.nodes /\ w.level[n] = 0
  BY <1>1, <1>2, SoundNode
<1>4. PICK i \in 1..Len(nd.key) : nd.child[i] = e
  BY <1>1, <1>2, <1>3, RangeIs
<1>5. Fits(nd.isLeaf, nd.key, nd.child)
  BY <1>1, <1>2, SoundFits
<1>6. nd.child[i] \in {nd.key[i]} \X Versions[nd.key[i]]
  BY <1>1, <1>2, <1>4, <1>5 DEF Fits
<1>7. e[1] = nd.key[i]
  BY <1>4, <1>6
<1>8. nd.key[i] \in DOMAIN w.kids[n] /\ w.kids[n][nd.key[i]] = nd.child[i]
  <2>1. Pairs(w.kids[n], nd.key, nd.child)
    BY <1>1, <1>2, NodePairs
  <2> QED BY <1>4, <2>1 DEF Pairs
<1> QED BY <1>3, <1>4, <1>7, <1>8 DEF HeldBy

(* What is held in the view is in a leaf of the tree. *)
LEMMA HeldEntry ==
  ASSUME NEW t, NEW w, Sound(t, w), NEW k, NEW r, HeldBy(w, k, r)
  PROVE  r \in EntriesOf(t) /\ r[1] = k /\ k \in Keys
<1>1. PICK n : n \in w.nodes /\ w.level[n] = 0 /\ k \in DOMAIN w.kids[n] /\ w.kids[n][k] = r
  BY DEF HeldBy
<1>2. n \in DOMAIN t.node /\ t.node[n].isLeaf
  BY <1>1, SoundFrame, SoundSees
<1>3. PICK nd : nd = t.node[n]
  OBVIOUS
<1>4. /\ nd.key \in Seq(Keys) /\ nd.child \in Seq(Cell) /\ Len(nd.child) = Len(nd.key)
  BY <1>2, <1>3, SoundNode
<1>5. Pairs(w.kids[n], nd.key, nd.child)
  BY <1>2, <1>3, NodePairs
<1>6. PICK i \in 1..Len(nd.key) : nd.key[i] = k
  BY <1>1, <1>5 DEF Pairs
<1>7. nd.child[i] = r
  BY <1>1, <1>5, <1>6 DEF Pairs
<1>8. Fits(nd.isLeaf, nd.key, nd.child)
  BY <1>2, <1>3, SoundFits
<1>9. nd.child[i] \in {nd.key[i]} \X Versions[nd.key[i]]
  BY <1>2, <1>3, <1>6, <1>8 DEF Fits
<1>10. r[1] = k
  BY <1>6, <1>7, <1>9
<1>11. k \in Keys
  BY <1>4, <1>6
<1>12. r \in Range(nd.child)
  BY <1>4, <1>6, <1>7, RangeIs
<1>13. r \in EntriesOf(t)
  BY <1>2, <1>3, <1>12 DEF EntriesOf
<1> QED BY <1>10, <1>11, <1>13

(* A key has one record. *)
LEMMA HeldOnce ==
  ASSUME NEW w, Shape(w), NEW k, NEW r, HeldBy(w, k, r), NEW q, HeldBy(w, k, q)
  PROVE  r = q
<1>1. PICK m \in w.nodes : w.level[m] = 0 /\ k \in DOMAIN w.kids[m] /\ w.kids[m][k] = r
  BY DEF HeldBy
<1>2. PICK n \in w.nodes : w.level[n] = 0 /\ k \in DOMAIN w.kids[n] /\ w.kids[n][k] = q
  BY DEF HeldBy
<1>3. m = n
  BY <1>1, <1>2, HeldInOne DEF Leaf
<1> QED BY <1>1, <1>2, <1>3

(* m maps the keys in the leaves to their records. *)
MapOf(w, m) ==
  /\ m = [k \in DOMAIN m |-> m[k]]
  /\ \A k : k \in DOMAIN m <=> \E r : HeldBy(w, k, r)
  /\ \A k, r : HeldBy(w, k, r) => m[k] = r

(* The contents are such a map. *)
LEMMA ContentsAre ==
  ASSUME NEW t, NEW w, Sound(t, w), NEW m, m = ContentsOf(t)
  PROVE  MapOf(w, m)
<1>1. PICK E : E = EntriesOf(t)
  OBVIOUS
<1>2. m = [k \in {e[1] : e \in E} |-> CHOOSE e \in E : e[1] = k]
  BY <1>1 DEF ContentsOf
<1>3. Shape(w)
  BY SoundFrame
<1>4. \A e \in E : HeldBy(w, e[1], e)
  BY <1>1, EntryHeld
<1>5. \A k, r : HeldBy(w, k, r) => r \in E /\ r[1] = k
  BY <1>1, HeldEntry
<1>6. m = [k \in DOMAIN m |-> m[k]]
  BY <1>2
<1>7. ASSUME NEW k
      PROVE  k \in DOMAIN m <=> \E r : HeldBy(w, k, r)
  BY <1>2, <1>4, <1>5
<1>8. ASSUME NEW k, NEW r, HeldBy(w, k, r)
      PROVE  m[k] = r
  <2>1. r \in E /\ r[1] = k
    BY <1>5, <1>8
  <2>2. m[k] = CHOOSE e \in E : e[1] = k
    BY <1>2, <2>1
  <2>3. m[k] \in E /\ m[k][1] = k
    BY <2>1, <2>2
  <2>4. HeldBy(w, k, m[k])
    BY <1>4, <2>3
  <2> QED BY <1>3, <1>8, <2>4, HeldOnce
<1> QED BY <1>6, <1>7, <1>8 DEF MapOf

(* The maps before and after a step. *)
IsPut(m2, m, x, r) == m2 = [j \in DOMAIN m \cup {x} |-> IF j = x THEN r ELSE m[j]]
IsTaken(m2, m, x) == m2 = [j \in DOMAIN m \ {x} |-> m[j]]

(* A record more makes one key more. *)
LEMMA MapPut ==
  ASSUME NEW w, NEW w2, NEW x, NEW r, PutHeld(w, w2, x, r), NEW m, MapOf(w, m), NEW m2, MapOf(w2, m2)
  PROVE  IsPut(m2, m, x, r)
<1>1. \A k, q : HeldBy(w2, k, q) <=> IF k = x THEN q = r ELSE HeldBy(w, k, q)
  BY DEF PutHeld
<1>2. \A k : k \in DOMAIN m <=> \E q : HeldBy(w, k, q)
  BY DEF MapOf
<1>3. \A k : k \in DOMAIN m2 <=> \E q : HeldBy(w2, k, q)
  BY DEF MapOf
<1>4. DOMAIN m2 = DOMAIN m \cup {x}
  BY <1>1, <1>2, <1>3
<1>5. ASSUME NEW j \in DOMAIN m \cup {x}
      PROVE  m2[j] = IF j = x THEN r ELSE m[j]
  <2>1. CASE j = x
    BY <1>1, <2>1 DEF MapOf
  <2>2. CASE j # x
    <3>1. PICK q : HeldBy(w, j, q)
      BY <1>2, <2>2
    <3>2. HeldBy(w2, j, q)
      BY <1>1, <2>2, <3>1
    <3> QED BY <2>2, <3>1, <3>2 DEF MapOf
  <2> QED BY <2>1, <2>2
<1>6. m2 = [j \in DOMAIN m2 |-> m2[j]]
  BY DEF MapOf
<1> QED BY <1>4, <1>5, <1>6 DEF IsPut

(* A record less makes one key less. *)
LEMMA MapTaken ==
  ASSUME NEW w, NEW w2, NEW x, TakenHeld(w, w2, x), NEW m, MapOf(w, m), NEW m2, MapOf(w2, m2)
  PROVE  IsTaken(m2, m, x)
<1>1. \A k, q : HeldBy(w2, k, q) <=> k # x /\ HeldBy(w, k, q)
  BY DEF TakenHeld
<1>2. \A k : k \in DOMAIN m <=> \E q : HeldBy(w, k, q)
  BY DEF MapOf
<1>3. \A k : k \in DOMAIN m2 <=> \E q : HeldBy(w2, k, q)
  BY DEF MapOf
<1>4. DOMAIN m2 = DOMAIN m \ {x}
  BY <1>1, <1>2, <1>3
<1>5. ASSUME NEW j \in DOMAIN m \ {x}
      PROVE  m2[j] = m[j]
  <2>1. PICK q : HeldBy(w, j, q)
    BY <1>2
  <2>2. HeldBy(w2, j, q)
    BY <1>1, <2>1
  <2> QED BY <2>1, <2>2 DEF MapOf
<1>6. m2 = [j \in DOMAIN m2 |-> m2[j]]
  BY DEF MapOf
<1> QED BY <1>4, <1>5, <1>6 DEF IsTaken

(* The key is not there: nothing is taken. *)
LEMMA MapWithout ==
  ASSUME NEW w, NEW m, MapOf(w, m), NEW x, x \notin DOMAIN m
  PROVE  IsTaken(m, m, x)
<1>1. m = [j \in DOMAIN m |-> m[j]] /\ DOMAIN m \ {x} = DOMAIN m
  BY DEF MapOf
<1> QED BY <1>1 DEF IsTaken

-----------------------------------------------------------------------------
(* The invariant: a tree that is there has a sound view, and its nodes are *)
(* as full as they should be.                                              *)
TreeInv ==
  /\ tree.Root = NULL => tree = NoTree
  /\ Built => \E w : Sound(tree, w) /\ AllSized(tree)
  /\ key0 \in {"null", "freed"}
  /\ result \in {"inserted", "refused", "done", "aborted"}

(* A new tree is one leaf, without keys. *)
LEMMA EmptyIs ==
  ASSUME NEW t, t = EmptyTree
  PROVE  /\ IsTree(t) /\ t.Root = 1 /\ DOMAIN t.node = {1}
         /\ Has(t.node[1], TRUE, <<>>, <<>>, 0, 0, 0)
<1>1. PICK nd : nd = NewNode(TRUE, <<>>, <<>>, NULL)
  OBVIOUS
<1>2. Has(nd, TRUE, <<>>, <<>>, 0, 0, 0) /\ nd \in Node
  <2>1. <<>> \in Seq(Keys) /\ <<>> \in Seq(Cell)
    OBVIOUS
  <2> QED BY <1>1, <2>1 DEF NewNode, NULL, Has, Node
<1>3. t = [Root |-> 1, node |-> [n \in {1} |-> nd]]
  BY <1>1 DEF EmptyTree
<1>4. t.Root = 1 /\ DOMAIN t.node = {1} /\ t.node[1] = nd
  BY <1>3
<1>5. IsFiniteSet({1})
  BY FS_Singleton
<1>6. t \in [Root : Nat, node : [{1} -> Node]]
  BY <1>2, <1>3
<1>7. IsTree(t)
  BY <1>4, <1>5, <1>6 DEF IsTree
<1> QED BY <1>2, <1>4, <1>7

(* It is sound and holds nothing. *)
LEMMA EmptySound ==
  ASSUME NEW t, t = EmptyTree
  PROVE  \E w : Sound(t, w) /\ AllSized(t) /\ \A k, r : ~HeldBy(w, k, r)
<1>1. /\ IsTree(t) /\ t.Root = 1 /\ DOMAIN t.node = {1}
      /\ Has(t.node[1], TRUE, <<>>, <<>>, 0, 0, 0)
  BY EmptyIs
<1>2. PICK nd : nd = t.node[1]
  OBVIOUS
<1>3. nd.isLeaf /\ nd.key = <<>> /\ nd.child = <<>> /\ nd.father = 0 /\ nd.next = 0 /\ nd.last = 0
  BY <1>1, <1>2 DEF Has
<1>4. PICK lv, ar : lv = [n \in {1} |-> 0] /\ ar = [n \in {1} |-> Int]
  OBVIOUS
<1>5. PICK w : w = View(t, lv, ar)
  OBVIOUS
<1>6. /\ w.nodes = {1} /\ w.root = 1 /\ w.level = lv /\ w.area = ar
      /\ w.kids[1] = Kids(nd.key, nd.child)
      /\ w.father[1] = 0 /\ w.next[1] = 0 /\ w.last[1] = 0
  BY <1>1, <1>2, <1>3, <1>5, ViewIs
<1>7. Stores(nd) /\ DOMAIN w.kids[1] = {}
  <2>1. Arrays(Cell, <<>>, <<>>)
    BY DEF Arrays, Ascending
  <2>2. Len(nd.key) = 0
    BY <1>3
  <2>3. Stores(nd)
    BY <1>3, <2>1, <2>2 DEF Stores
  <2>4. Pairs(Kids(nd.key, nd.child), nd.key, nd.child)
    BY <1>3, <2>1, KidsArePairs
  <2>5. DOMAIN w.kids[1] = {}
    <3>1. PICK F, ks, cs : F = w.kids[1] /\ ks = nd.key /\ cs = nd.child
      OBVIOUS
    <3>2. Pairs(F, ks, cs) /\ Len(ks) = 0
      BY <1>6, <2>2, <2>4, <3>1
    <3>3. \A k \in DOMAIN F : \E i \in 1..Len(ks) : ks[i] = k
      BY <3>2 DEF Pairs
    <3>4. \A k : k \notin DOMAIN F
      BY <3>2, <3>3
    <3> QED BY <3>1, <3>4
  <2> QED BY <2>3, <2>5
<1>8. Shape(w)
  <2>1. w.level \in [w.nodes -> Nat] /\ w.area \in [w.nodes -> SUBSET Int]
    BY <1>4, <1>6
  <2>2. w.level[1] = 0 /\ w.area[1] = Int
    BY <1>4, <1>6
  <2> QED BY <1>6, <1>7, <2>1, <2>2 DEF Shape
<1>9. Linked(w)
  <2>1. \A n \in w.nodes : n = 1
    BY <1>6
  <2>2. \A m, n \in w.nodes : ~Adjacent(w, m, n) /\ w.next[m] # n /\ w.last[n] # m
    BY <1>6, <2>1 DEF Adjacent
  <2>3. w.level[1] = 0
    BY <1>4, <1>6
  <2>4. \A m \in w.nodes : OnChain(w, m)
    BY <1>6, <2>1 DEF OnChain, NULL
  <2> QED BY <1>6, <2>1, <2>2, <2>3, <2>4 DEF Linked, NULL
<1>10. Sound(t, w)
  <2>1. \A n \in DOMAIN t.node : Stores(t.node[n])
    BY <1>1, <1>2, <1>7
  <2>2. \A n \in DOMAIN t.node : t.node[n].isLeaf <=> lv[n] = 0
    BY <1>1, <1>2, <1>3, <1>4
  <2> QED BY <1>1, <1>5, <1>8, <1>9, <2>1, <2>2, SoundFrom
<1>11. AllSized(t)
  <2>1. SizedAt(t, 1)
    <3>1. Len(t.node[1].key) = 0 /\ Room(t, 1) = 0
      BY <1>1, <1>2, <1>3 DEF Room
    <3> QED BY <3>1, TreeConstants DEF SizedAt
  <2> QED BY <1>1, <2>1 DEF AllSized
<1>12. \A k, r : ~HeldBy(w, k, r)
  BY <1>6, <1>7 DEF HeldBy
<1> QED BY <1>10, <1>11, <1>12

(* Found says whether a key is in the tree, and where. *)
LEMMA FoundIs ==
  ASSUME NEW w, Sound(tree, w), NEW x \in Keys, NEW l, l = Find(tree, x), NEW i, i = Binary_Search(tree.node[l], x)
  PROVE  /\ Leaf(w, l) /\ x \in w.area[l]
         /\ Found(x) <=> x \in DOMAIN w.kids[l]
         /\ Found(x) => KeyAt(x, tree.node[l].key, i)
<1>1. x \in Int
  BY TreeConstants
<1>2. Leaf(w, l) /\ x \in w.area[l]
  BY <1>1, FindIs
<1>3. l \in DOMAIN tree.node
  BY <1>2, LeafIs
<1>4. PICK nd : nd = tree.node[l]
  OBVIOUS
<1>5. nd.key \in Seq(Keys) /\ Len(nd.key) \in Nat
  BY <1>3, <1>4, SoundNode
<1>6. Pairs(w.kids[l], nd.key, nd.child)
  BY <1>3, <1>4, NodePairs
<1>7. Found(x) <=> nd.key # <<>> /\ nd.key[i] = x
  BY <1>4 DEF Found
<1>8. nd.key # <<>> <=> Len(nd.key) # 0
  BY <1>5
<1>9. Len(nd.key) # 0 => i \in 1..Len(nd.key) /\ \A j \in 1..Len(nd.key) : nd.key[j] = x => i = j
  <2>1. i = Binary_Search(nd, x)
    BY <1>4
  <2>2. ASSUME Len(nd.key) # 0
        PROVE  i \in 1..Len(nd.key)
    BY <1>1, <1>3, <1>4, <2>1, <2>2, NodeSearched
  <2>3. ASSUME Len(nd.key) # 0
        PROVE  \A j \in 1..Len(nd.key) : nd.key[j] = x => i = j
    <3>1. ASSUME NEW j \in 1..Len(nd.key), nd.key[j] = x
          PROVE  i = j
      <4>1. PICK k : k = j
        OBVIOUS
      <4>2. KeyAt(x, tree.node[l].key, k) /\ Len(tree.node[l].key) # 0
        BY <1>4, <2>3, <3>1, <4>1 DEF KeyAt
      <4>3. Binary_Search(tree.node[l], x) = k
        BY <1>1, <1>3, <4>2, SearchedAt
      <4> QED BY <4>1, <4>3
    <3> QED BY <3>1
  <2> QED BY <2>2, <2>3
<1>10. Found(x) => KeyAt(x, nd.key, i)
  BY <1>7, <1>8, <1>9 DEF KeyAt
<1>11. Found(x) => x \in DOMAIN w.kids[l]
  BY <1>6, <1>10 DEF Pairs, KeyAt
<1>12. x \in DOMAIN w.kids[l] => Found(x)
  <2>1. ASSUME x \in DOMAIN w.kids[l]
        PROVE  Found(x)
    <3>1. PICK j \in 1..Len(nd.key) : nd.key[j] = x
      BY <1>6, <2>1 DEF Pairs
    <3>2. Len(nd.key) # 0
      BY <1>5, <3>1
    <3> QED BY <1>7, <1>8, <1>9, <3>1, <3>2
  <2> QED BY <2>1
<1> QED BY <1>2, <1>4, <1>10, <1>11, <1>12

(* What a call did to the records. *)
LEMMA InsertStep ==
  ASSUME NEW w, Sound(tree, w), AllSized(tree), NEW x \in Keys, NEW r, r \in {x} \X Versions[x],
         BPlusTree_Insert(x, r)
  PROVE  x \notin DOMAIN w.kids[Find(tree, x)] /\ \E w2 : Sound(tree', w2) /\ PutHeld(w, w2, x, r) /\ AllSized(tree')
<1>1. PICK l, i : l = Find(tree, x) /\ i = Binary_Search(tree.node[Find(tree, x)], x)
  OBVIOUS
<1>2. ~Found(x) /\ tree' = Insert(Lower(tree, x), l, x, r)
  BY <1>1 DEF BPlusTree_Insert
<1>3. x \notin DOMAIN w.kids[l]
  BY <1>1, <1>2, FoundIs
<1>4. PICK t, t2 : t = tree /\ t2 = tree'
  OBVIOUS
<1>5. \E w2 : Sound(t2, w2) /\ PutHeld(w, w2, x, r) /\ AllSized(t2)
  BY <1>1, <1>2, <1>3, <1>4, InsertSound
<1> QED BY <1>1, <1>3, <1>4, <1>5

(* What Modify did to them. *)
LEMMA ModifyStep ==
  ASSUME NEW w, Sound(tree, w), AllSized(tree), NEW x \in Keys, NEW r, r \in {x} \X Versions[x],
         BPlusTree_Modify(x, r), Found(x)
  PROVE  x \in DOMAIN w.kids[Find(tree, x)] /\ \E w2 : Sound(tree', w2) /\ PutHeld(w, w2, x, r) /\ AllSized(tree')
<1>1. PICK l : l = Find(tree, x)
  OBVIOUS
<1>2. PICK i : i = Binary_Search(tree.node[l], x)
  OBVIOUS
<1>3. tree' = WithChild(tree, l, i, r)
  BY <1>1, <1>2 DEF BPlusTree_Modify, WithChild
<1>4. Leaf(w, l) /\ x \in w.area[l] /\ x \in DOMAIN w.kids[l] /\ KeyAt(x, tree.node[l].key, i)
  BY <1>1, <1>2, FoundIs
<1>5. PICK t, t2 : t = tree /\ t2 = tree'
  OBVIOUS
<1>6. \E w2 : Sound(t2, w2) /\ PutHeld(w, w2, x, r) /\ AllSized(t2)
  BY <1>3, <1>4, <1>5, ModifySound
<1> QED BY <1>1, <1>4, <1>5, <1>6

(* What Delete did to them. *)
LEMMA DeleteStep ==
  ASSUME NEW w, Sound(tree, w), AllSized(tree), NEW x \in Keys, BPlusTree_Delete(x), Found(x)
  PROVE  \E w2 : Sound(tree', w2) /\ TakenHeld(w, w2, x) /\ AllSized(tree')
<1>1. PICK l : l = Find(tree, x)
  OBVIOUS
<1>2. PICK i : i = Binary_Search(tree.node[l], x)
  OBVIOUS
<1>3. tree' = Delete(tree, l, x)
  BY <1>1 DEF BPlusTree_Delete
<1>4. Leaf(w, l) /\ x \in DOMAIN w.kids[l]
  BY <1>1, <1>2, FoundIs
<1>5. PICK t, t2 : t = tree /\ t2 = tree'
  OBVIOUS
<1>6. x \in Int
  BY TreeConstants
<1>7. \E w2 : Sound(t2, w2) /\ TakenHeld(w, w2, x) /\ AllSized(t2)
  BY <1>3, <1>4, <1>5, <1>6, DeleteSound
<1> QED BY <1>5, <1>7

(* A tree with a view has a root. *)
LEMMA SoundBuilt ==
  ASSUME NEW t, NEW w, Sound(t, w)
  PROVE  t.Root # NULL
<1>1. t.Root \in DOMAIN t.node /\ DOMAIN t.node \subseteq Nat \ {0}
  BY SoundFrame DEF IsTree
<1> QED BY <1>1 DEF NULL

-----------------------------------------------------------------------------
(* The invariant holds from the beginning. *)
LEMMA TreeInvInit == Init => TreeInv
<1> SUFFICES ASSUME Init
             PROVE  TreeInv
  OBVIOUS
<1>1. tree = EmptyTree /\ key0 = "null" /\ result = "done"
  BY DEF Init
<1>2. tree.Root # NULL
  BY <1>1 DEF EmptyTree, NULL
<1>3. \E w : Sound(tree, w) /\ AllSized(tree)
  BY <1>1, EmptySound
<1> QED BY <1>1, <1>2, <1>3 DEF TreeInv

(* A step that leaves a sound tree leaves the invariant. *)
LEMMA TreeInvFrom ==
  ASSUME NEW w2, Sound(tree', w2), AllSized(tree'), key0' \in {"null", "freed"},
         result' \in {"inserted", "refused", "done", "aborted"}
  PROVE  TreeInv'
<1>1. tree'.Root # NULL
  BY SoundBuilt
<1>2. TreeInv' <=> /\ tree'.Root = NULL => tree' = NoTree
                   /\ tree'.Root # NULL => \E w : Sound(tree', w) /\ AllSized(tree')
                   /\ key0' \in {"null", "freed"}
                   /\ result' \in {"inserted", "refused", "done", "aborted"}
  BY DEF TreeInv, Built
<1> QED BY <1>1, <1>2

(* A step that leaves the tree alone leaves it, too. *)
LEMMA TreeInvSame ==
  ASSUME TreeInv, UNCHANGED tree, key0' \in {"null", "freed"},
         result' \in {"inserted", "refused", "done", "aborted"}
  PROVE  TreeInv'
<1>1. TreeInv' <=> /\ tree'.Root = NULL => tree' = NoTree
                   /\ tree'.Root # NULL => \E w : Sound(tree', w) /\ AllSized(tree')
                   /\ key0' \in {"null", "freed"}
                   /\ result' \in {"inserted", "refused", "done", "aborted"}
  BY DEF TreeInv, Built
<1>2. /\ tree.Root = NULL => tree = NoTree
      /\ tree.Root # NULL => \E w : Sound(tree, w) /\ AllSized(tree)
  BY DEF TreeInv, Built
<1> QED BY <1>1, <1>2

(* Every step keeps it. *)
LEMMA TreeInvNext == TreeInv /\ [Next]_vars => TreeInv'
<1> SUFFICES ASSUME TreeInv, [Next]_vars
             PROVE  TreeInv'
  OBVIOUS
<1>1. key0 \in {"null", "freed"} /\ result \in {"inserted", "refused", "done", "aborted"}
  BY DEF TreeInv
<1>2. tree.Root # NULL => \E w : Sound(tree, w) /\ AllSized(tree)
  BY DEF TreeInv, Built
<1>3. ASSUME NEW x \in Keys, NEW v \in Versions[x], BPlusTree_Insert(x, <<x, v>>)
      PROVE  TreeInv'
  <2>1. PICK w : Sound(tree, w) /\ AllSized(tree)
    BY <1>2, <1>3 DEF BPlusTree_Insert, Alive
  <2>2. PICK r : r = <<x, v>>
    OBVIOUS
  <2>3. r \in {x} \X Versions[x] /\ BPlusTree_Insert(x, r)
    BY <1>3, <2>2
  <2>4. \E w2 : Sound(tree', w2) /\ PutHeld(w, w2, x, r) /\ AllSized(tree')
    BY <2>1, <2>3, InsertStep
  <2>5. key0' = key0 /\ result' = "inserted"
    BY <1>3 DEF BPlusTree_Insert
  <2> QED BY <1>1, <2>4, <2>5, TreeInvFrom
<1>4. ASSUME NEW x \in Keys, NEW v \in Versions[x], BPlusTree_Modify(x, <<x, v>>)
      PROVE  TreeInv'
  <2>1. PICK w : Sound(tree, w) /\ AllSized(tree)
    BY <1>2, <1>4 DEF BPlusTree_Modify, Alive
  <2>2. PICK r : r = <<x, v>>
    OBVIOUS
  <2>3. r \in {x} \X Versions[x] /\ BPlusTree_Modify(x, r)
    BY <1>4, <2>2
  <2>4. key0' = key0 /\ result' = "done"
    BY <1>4 DEF BPlusTree_Modify
  <2>5. CASE Found(x)
    <3>1. \E w2 : Sound(tree', w2) /\ PutHeld(w, w2, x, r) /\ AllSized(tree')
      BY <2>1, <2>3, <2>5, ModifyStep
    <3> QED BY <1>1, <2>4, <3>1, TreeInvFrom
  <2>6. CASE ~Found(x)
    <3>1. UNCHANGED tree
      BY <2>3, <2>6 DEF BPlusTree_Modify
    <3> QED BY <1>1, <2>4, <3>1, TreeInvSame
  <2> QED BY <2>5, <2>6
<1>5. ASSUME NEW x \in Keys, BPlusTree_InsertRefused(x)
      PROVE  TreeInv'
  <2>1. UNCHANGED tree /\ key0' = key0 /\ result' = "refused"
    BY <1>5 DEF BPlusTree_InsertRefused
  <2> QED BY <1>1, <2>1, TreeInvSame
<1>6. ASSUME NEW x \in Keys, BPlusTree_Delete(x)
      PROVE  TreeInv'
  <2>1. PICK w : Sound(tree, w) /\ AllSized(tree)
    BY <1>2, <1>6 DEF BPlusTree_Delete, Alive
  <2>2. key0' \in {"null", "freed"} /\ result' = "done"
    <3>1. /\ key0' = IF Found(x) /\ IsEmpty(tree') THEN "freed" ELSE key0
          /\ result' = "done"
      BY <1>6 DEF BPlusTree_Delete
    <3> QED BY <1>1, <3>1
  <2>3. CASE Found(x)
    <3>1. \E w2 : Sound(tree', w2) /\ TakenHeld(w, w2, x) /\ AllSized(tree')
      BY <1>6, <2>1, <2>3, DeleteStep
    <3> QED BY <2>2, <3>1, TreeInvFrom
  <2>4. CASE ~Found(x)
    <3>1. UNCHANGED tree
      BY <1>6, <2>4 DEF BPlusTree_Delete
    <3> QED BY <2>2, <3>1, TreeInvSame
  <2> QED BY <2>3, <2>4
<1>7. ASSUME FreedTwice
      PROVE  TreeInv'
  <2>1. UNCHANGED tree /\ key0' = key0 /\ result' = "aborted"
    BY <1>7 DEF FreedTwice
  <2> QED BY <1>1, <2>1, TreeInvSame
<1>8. ASSUME BPlusTree_Destroy
      PROVE  TreeInv'
  <2>1. CASE result' = "aborted" /\ UNCHANGED <<tree, key0>>
    BY <1>1, <2>1, TreeInvSame
  <2>2. CASE result' = "done" /\ tree' = NoTree /\ UNCHANGED key0
    <3>1. tree'.Root = NULL
      BY <2>2 DEF NoTree
    <3> QED BY <1>1, <2>2, <3>1 DEF TreeInv, Built
  <2> QED BY <1>8, <2>1, <2>2 DEF BPlusTree_Destroy
<1>9. ASSUME BPlusTree_init
      PROVE  TreeInv'
  <2>1. tree' = EmptyTree /\ key0' = key0 /\ result' = result
    BY <1>9 DEF BPlusTree_init
  <2>2. \E w : Sound(tree', w) /\ AllSized(tree')
    BY <2>1, EmptySound
  <2> QED BY <1>1, <2>1, <2>2, TreeInvFrom
<1>10. ASSUME UNCHANGED vars
       PROVE  TreeInv'
  <2>1. UNCHANGED tree /\ key0' = key0 /\ result' = result
    BY <1>10 DEF vars
  <2> QED BY <1>1, <2>1, TreeInvSame
<1> QED BY <1>3, <1>4, <1>5, <1>6, <1>7, <1>8, <1>9, <1>10 DEF Next

(* After every sequence of calls the tree has a view in which every node   *)
(* but the root hangs below another, the keys of a node lead to its        *)
(* children and the leaves are chained, and every node is as full as it    *)
(* should be.                                                              *)
THEOREM TreeInvHolds == Spec => []TreeInv
BY TreeInvInit, TreeInvNext, PTL DEF Spec

-----------------------------------------------------------------------------
(* A key is found when it has a record. *)
LEMMA FoundInMap ==
  ASSUME NEW w, Sound(tree, w), NEW m, MapOf(w, m), NEW x \in Keys
  PROVE  Found(x) <=> x \in DOMAIN m
<1>1. PICK l : l = Find(tree, x)
  OBVIOUS
<1>2. PICK i : i = Binary_Search(tree.node[l], x)
  OBVIOUS
<1>3. Leaf(w, l) /\ x \in w.area[l] /\ (Found(x) <=> x \in DOMAIN w.kids[l])
  BY <1>1, <1>2, FoundIs
<1>4. x \in DOMAIN w.kids[l] => x \in DOMAIN m
  <2>1. ASSUME x \in DOMAIN w.kids[l]
        PROVE  x \in DOMAIN m
    <3>1. HeldBy(w, x, w.kids[l][x])
      BY <1>3, <2>1 DEF HeldBy, Leaf
    <3> QED BY <3>1 DEF MapOf
  <2> QED BY <2>1
<1>5. x \in DOMAIN m => x \in DOMAIN w.kids[l]
  <2>1. ASSUME x \in DOMAIN m
        PROVE  x \in DOMAIN w.kids[l]
    <3>1. PICK r : HeldBy(w, x, r)
      BY <2>1 DEF MapOf
    <3>2. PICK n \in w.nodes : w.level[n] = 0 /\ x \in DOMAIN w.kids[n]
      BY <3>1 DEF HeldBy
    <3>3. Shape(w)
      BY SoundFrame
    <3>4. x \in w.area[n] /\ x \in Int
      BY <3>2, <3>3, TreeConstants DEF Shape
    <3>5. n = l
      BY <1>3, <3>2, <3>3, <3>4, SameLevelApart DEF Leaf
    <3> QED BY <3>2, <3>5
  <2> QED BY <2>1
<1> QED BY <1>3, <1>4, <1>5

(* What Query_Key gives. *)
LEMMA QueryIs ==
  ASSUME NEW w, Sound(tree, w), NEW m, MapOf(w, m), NEW x \in Keys
  PROVE  Query_Key(tree, x) = IF x \in DOMAIN m THEN m[x] ELSE NoRecord
<1>1. PICK l : l = Find(tree, x)
  OBVIOUS
<1>2. PICK i : i = Binary_Search(tree.node[l], x)
  OBVIOUS
<1>3. Leaf(w, l) /\ (Found(x) <=> x \in DOMAIN w.kids[l])
  BY <1>1, <1>2, FoundIs
<1>4. x \in DOMAIN m <=> x \in DOMAIN w.kids[l]
  BY <1>3, FoundInMap
<1>5. PICK nd : nd = tree.node[l]
  OBVIOUS
<1>6. w.kids[l] = Kids(nd.key, nd.child)
  <2>1. l \in DOMAIN tree.node
    BY <1>3, LeafIs
  <2> QED BY <1>5, <2>1, SoundSees
<1>7. /\ DOMAIN w.kids[l] = Range(nd.key)
      /\ x \in Range(nd.key) => w.kids[l][x] = nd.child[CHOOSE j \in DOMAIN nd.key : nd.key[j] = x]
  BY <1>6 DEF Kids
<1>8. Query_Key(tree, x) = IF x \in DOMAIN w.kids[l] THEN w.kids[l][x] ELSE NoRecord
  BY <1>1, <1>5, <1>7 DEF Query_Key
<1>9. x \in DOMAIN w.kids[l] => m[x] = w.kids[l][x]
  <2>1. ASSUME x \in DOMAIN w.kids[l]
        PROVE  m[x] = w.kids[l][x]
    <3>1. HeldBy(w, x, w.kids[l][x])
      BY <1>3, <2>1 DEF HeldBy, Leaf
    <3> QED BY <3>1 DEF MapOf
  <2> QED BY <2>1
<1> QED BY <1>4, <1>8, <1>9

(* So queries find what is in the tree. *)
LEMMA QueriesFindFollows == TreeInv => QueriesFind
<1> SUFFICES ASSUME TreeInv, Built, NEW x \in Keys
             PROVE  Query_Key(tree, x) = IF x \in DOMAIN Contents THEN Contents[x] ELSE NoRecord
  BY DEF QueriesFind
<1>1. PICK w : Sound(tree, w)
  BY DEF TreeInv
<1>2. PICK m : m = Contents
  OBVIOUS
<1>3. MapOf(w, m)
  BY <1>1, <1>2, ContentsIs, ContentsAre
<1> QED BY <1>1, <1>2, <1>3, QueryIs

(* A query finds the record of every key in the tree and of no other.      *)
THEOREM QueriesFindHolds == Spec => []QueriesFind
BY TreeInvHolds, QueriesFindFollows, PTL

-----------------------------------------------------------------------------
(* The tree implements the map.                                            *)
(* The contents after a step are those of the new tree. *)
LEMMA ContentsNext == Contents' = ContentsOf(tree')
BY DEF Contents, ContentsOf, Entries, EntriesOf, Leaves, Inner

(* A tree without records. *)
LEMMA NoContents ==
  ASSUME NEW t, t = EmptyTree \/ t = NoTree
  PROVE  ContentsOf(t) = [k \in {} |-> 0]
<1>1. EntriesOf(t) = {}
  <2>1. CASE t = EmptyTree
    <3>1. PICK w : Sound(t, w) /\ \A k, r : ~HeldBy(w, k, r)
      BY <2>1, EmptySound
    <3> QED BY <3>1, EntryHeld
  <2>2. CASE t = NoTree
    <3>1. t.node = <<>>
      BY <2>2 DEF NoTree
    <3>2. DOMAIN t.node = {}
      BY <3>1
    <3> QED BY <3>2 DEF EntriesOf
  <2> QED BY <2>1, <2>2
<1>2. {e[1] : e \in EntriesOf(t)} = {}
  BY <1>1
<1> QED BY <1>2 DEF ContentsOf

(* A tree that is just made is the empty map. *)
LEMMA MapInitFollows == Init => Map!MapInit
<1> SUFFICES ASSUME Init
             PROVE  Map!MapInit
  OBVIOUS
<1>1. tree = EmptyTree /\ result = "done"
  BY DEF Init
<1>2. Contents = [k \in {} |-> 0]
  BY <1>1, ContentsIs, NoContents
<1> QED BY <1>1, <1>2 DEF Map!MapInit

(* A step of the tree is one of the map, or one of the two that the map    *)
(* does not have.                                                          *)
TreeStep ==
  \/ Map!MapNext
  \/ FreedKeyRead /\ result' \in {"refused", "aborted"}
  \/ BPlusTree_Destroy

(* The records that may be given for a key. *)
LEMMA RecordsFor ==
  ASSUME NEW x \in Keys, NEW r, r \in {x} \X Versions[x]
  PROVE  r \in [k \in Keys |-> {k} \X Versions[k]][x]
OBVIOUS

(* A record is put in: before and after are the contents. *)
LEMMA PutContents ==
  ASSUME NEW w, Sound(tree, w), NEW w2, Sound(tree', w2), NEW x \in Keys, NEW r, PutHeld(w, w2, x, r)
  PROVE  IsPut(Contents', Contents, x, r)
<1>1. PICK m, m2 : m = Contents /\ m2 = Contents'
  OBVIOUS
<1>2. MapOf(w, m)
  BY <1>1, ContentsIs, ContentsAre
<1>3. MapOf(w2, m2)
  BY <1>1, ContentsNext, ContentsAre
<1>4. IsPut(m2, m, x, r)
  BY <1>2, <1>3, MapPut
<1> QED BY <1>1, <1>4

(* A record is taken from the contents. *)
LEMMA TakenContents ==
  ASSUME NEW w, Sound(tree, w), NEW w2, Sound(tree', w2), NEW x \in Keys, TakenHeld(w, w2, x)
  PROVE  IsTaken(Contents', Contents, x)
<1>1. PICK m, m2 : m = Contents /\ m2 = Contents'
  OBVIOUS
<1>2. MapOf(w, m)
  BY <1>1, ContentsIs, ContentsAre
<1>3. MapOf(w2, m2)
  BY <1>1, ContentsNext, ContentsAre
<1>4. IsTaken(m2, m, x)
  BY <1>2, <1>3, MapTaken
<1> QED BY <1>1, <1>4

(* Where the tree stays the contents stay. *)
LEMMA SameContents ==
  ASSUME UNCHANGED tree
  PROVE  Contents' = Contents
BY ContentsIs, ContentsNext

(* What is found has a record in the contents. *)
LEMMA FoundInContents ==
  ASSUME NEW w, Sound(tree, w), NEW x \in Keys
  PROVE  /\ Found(x) <=> x \in DOMAIN Contents
         /\ x \notin DOMAIN Contents => IsTaken(Contents, Contents, x)
<1>1. PICK m : m = Contents
  OBVIOUS
<1>2. MapOf(w, m)
  BY <1>1, ContentsIs, ContentsAre
<1>3. Found(x) <=> x \in DOMAIN m
  BY <1>2, FoundInMap
<1>4. x \notin DOMAIN m => IsTaken(m, m, x)
  BY <1>2, MapWithout
<1> QED BY <1>1, <1>3, <1>4

(* So every step is one of the map, or one of the exceptions. *)
LEMMA TreeStepFollows ==
  ASSUME TreeInv, [Next]_vars
  PROVE  [TreeStep]_<<Contents, result>>
<1>1. tree.Root # NULL => \E w : Sound(tree, w) /\ AllSized(tree)
  BY DEF TreeInv, Built
<1>2. ASSUME NEW x \in Keys, NEW v \in Versions[x], BPlusTree_Insert(x, <<x, v>>)
      PROVE  TreeStep
  <2>1. PICK w : Sound(tree, w) /\ AllSized(tree)
    BY <1>1, <1>2 DEF BPlusTree_Insert, Alive
  <2>2. PICK r : r = <<x, v>>
    OBVIOUS
  <2>3. r \in {x} \X Versions[x] /\ BPlusTree_Insert(x, r)
    BY <1>2, <2>2
  <2>4. PICK w2 : Sound(tree', w2) /\ PutHeld(w, w2, x, r)
    BY <2>1, <2>3, InsertStep
  <2>5. ~Found(x) /\ result' = "inserted"
    BY <1>2 DEF BPlusTree_Insert
  <2>6. x \notin DOMAIN Contents
    BY <2>1, <2>5, FoundInContents
  <2>7. IsPut(Contents', Contents, x, r)
    BY <2>1, <2>4, PutContents
  <2>8. Map!MapInsert(x, r)
    BY <2>5, <2>6, <2>7 DEF Map!MapInsert, Map!Put, IsPut
  <2>9. r \in [k \in Keys |-> {k} \X Versions[k]][x]
    BY <2>3, RecordsFor
  <2>10. Map!MapNext
    BY <2>8, <2>9 DEF Map!MapNext
  <2> QED BY <2>10 DEF TreeStep
<1>3. ASSUME NEW x \in Keys, NEW v \in Versions[x], BPlusTree_Modify(x, <<x, v>>)
      PROVE  TreeStep
  <2>1. PICK w : Sound(tree, w) /\ AllSized(tree)
    BY <1>1, <1>3 DEF BPlusTree_Modify, Alive
  <2>2. PICK r : r = <<x, v>>
    OBVIOUS
  <2>3. r \in {x} \X Versions[x] /\ BPlusTree_Modify(x, r)
    BY <1>3, <2>2
  <2>4. result' = "done"
    BY <1>3 DEF BPlusTree_Modify
  <2>5. CASE Found(x)
    <3>1. PICK w2 : Sound(tree', w2) /\ PutHeld(w, w2, x, r)
      BY <2>1, <2>3, <2>5, ModifyStep
    <3>2. x \in DOMAIN Contents
      BY <2>1, <2>5, FoundInContents
    <3>3. IsPut(Contents', Contents, x, r)
      BY <2>1, <3>1, PutContents
    <3>4. Map!MapModify(x, r)
      BY <2>4, <3>2, <3>3 DEF Map!MapModify, Map!Put, IsPut
    <3>5. r \in [k \in Keys |-> {k} \X Versions[k]][x]
      BY <2>3, RecordsFor
    <3>6. Map!MapNext
      BY <3>4, <3>5 DEF Map!MapNext
    <3> QED BY <3>6 DEF TreeStep
  <2>6. CASE ~Found(x)
    <3>1. UNCHANGED tree
      BY <2>3, <2>6 DEF BPlusTree_Modify
    <3>2. IsTaken(Contents', Contents, x)
      BY <2>1, <2>6, <3>1, SameContents, FoundInContents
    <3>3. Map!MapDelete(x)
      BY <2>4, <3>2 DEF Map!MapDelete, Map!Without, IsTaken
    <3>4. Map!MapNext
      BY <3>3 DEF Map!MapNext
    <3> QED BY <3>4 DEF TreeStep
  <2> QED BY <2>5, <2>6
<1>4. ASSUME NEW x \in Keys, BPlusTree_InsertRefused(x)
      PROVE  TreeStep
  <2>1. /\ Found(x) \/ FreedKeyRead
        /\ UNCHANGED tree /\ result' = "refused" /\ tree.Root # NULL
    BY <1>4 DEF BPlusTree_InsertRefused, Alive
  <2>2. CASE Found(x)
    <3>1. PICK w : Sound(tree, w)
      BY <1>1, <2>1
    <3>2. x \in DOMAIN Contents
      BY <2>2, <3>1, FoundInContents
    <3>3. Map!MapRefuse(x)
      BY <2>1, <3>2, SameContents DEF Map!MapRefuse
    <3>4. Map!MapNext
      BY <3>3 DEF Map!MapNext
    <3> QED BY <3>4 DEF TreeStep
  <2>3. CASE FreedKeyRead
    BY <2>1, <2>3 DEF TreeStep
  <2> QED BY <2>1, <2>2, <2>3
<1>5. ASSUME NEW x \in Keys, BPlusTree_Delete(x)
      PROVE  TreeStep
  <2>1. PICK w : Sound(tree, w) /\ AllSized(tree)
    BY <1>1, <1>5 DEF BPlusTree_Delete, Alive
  <2>2. result' = "done"
    BY <1>5 DEF BPlusTree_Delete
  <2>3. IsTaken(Contents', Contents, x)
    <3>1. CASE Found(x)
      <4>1. PICK w2 : Sound(tree', w2) /\ TakenHeld(w, w2, x)
        BY <1>5, <2>1, <3>1, DeleteStep
      <4> QED BY <2>1, <4>1, TakenContents
    <3>2. CASE ~Found(x)
      <4>1. UNCHANGED tree
        BY <1>5, <3>2 DEF BPlusTree_Delete
      <4> QED BY <2>1, <3>2, <4>1, SameContents, FoundInContents
    <3> QED BY <3>1, <3>2
  <2>4. Map!MapDelete(x)
    BY <2>2, <2>3 DEF Map!MapDelete, Map!Without, IsTaken
  <2>5. Map!MapNext
    BY <2>4 DEF Map!MapNext
  <2> QED BY <2>5 DEF TreeStep
<1>6. ASSUME FreedTwice
      PROVE  TreeStep
  BY <1>6 DEF FreedTwice, TreeStep
<1>7. ASSUME BPlusTree_Destroy
      PROVE  TreeStep
  BY <1>7 DEF TreeStep
<1>8. ASSUME BPlusTree_init
      PROVE  UNCHANGED <<Contents, result>>
  <2>1. tree.Root = NULL /\ tree' = EmptyTree /\ result' = result
    BY <1>8 DEF BPlusTree_init
  <2>2. tree = NoTree
    BY <2>1 DEF TreeInv
  <2> QED BY <2>1, <2>2, ContentsIs, ContentsNext, NoContents
<1>9. ASSUME UNCHANGED vars
      PROVE  UNCHANGED <<Contents, result>>
  BY <1>9, SameContents DEF vars
<1> QED BY <1>2, <1>3, <1>4, <1>5, <1>6, <1>7, <1>8, <1>9 DEF Next

(* Every call of the tree is one of the map, as long as none compares with *)
(* the freed key of an emptied tree and nobody destroys the tree.          *)
THEOREM StepsOfMapHolds == Spec => StepsOfMap
<1>1. TreeInv /\ [Next]_vars =>
        [ \/ Map!MapNext
          \/ FreedKeyRead /\ result' \in {"refused", "aborted"}
          \/ BPlusTree_Destroy ]_<<Contents, result>>
  BY TreeStepFollows DEF TreeStep
<1> QED BY <1>1, MapInitFollows, TreeInvHolds, PTL DEF Spec, StepsOfMap

-----------------------------------------------------------------------------
(* The invariant says what ShapeSound says: the types.                     *)
LEMMA EmptyShape ==
  ASSUME tree = NoTree
  PROVE  tree.Root = 0 /\ DOMAIN tree.node = {}
BY DEF NoTree, NULL

(* A field of a node that points to a node or nowhere. *)
LEMMA LinkIn ==
  ASSUME NEW t, NEW w, Sound(t, w), NEW n, n \in DOMAIN t.node, NEW nd, nd = t.node[n]
  PROVE  nd.next \in DOMAIN t.node \cup {NULL} /\ nd.last \in DOMAIN t.node \cup {NULL}
<1>1. CASE nd.isLeaf
  BY <1>1, NodeNext
<1>2. CASE ~nd.isLeaf
  <2>1. n \in w.nodes /\ w.level[n] # 0 /\ w.next[n] = nd.next /\ w.last[n] = nd.last
    BY <1>2 DEF Sound, Sees, SeesNode
  <2> QED BY <2>1 DEF Sound, Linked
<1> QED BY <1>1, <1>2

(* The children of an inner node. *)
LEMMA SubnodeAt ==
  ASSUME NEW t, NEW w, Sound(t, w), NEW n, n \in DOMAIN t.node, NEW nd, nd = t.node[n],
         NEW m, m \in Subnodes(t, n)
  PROVE  ~nd.isLeaf /\ \E i \in 1..Len(nd.key) : m = nd.child[i]
<1>1. nd.child \in Seq(Cell) /\ Len(nd.child) = Len(nd.key)
  BY SoundNode
<1>2. ChildFrom(nd, 1, Len(nd.key), m)
  BY <1>1, SubnodesAre
<1> QED BY <1>2 DEF ChildFrom

(* A record in a leaf belongs to its key. *)
LEMMA LeafRecords ==
  ASSUME NEW t, NEW w, Sound(t, w), NEW n, n \in DOMAIN t.node, NEW nd, nd = t.node[n], nd.isLeaf,
         NEW r, r \in Range(nd.child)
  PROVE  r[1] \in Keys /\ r[2] \in Versions[r[1]]
<1>1. nd.key \in Seq(Keys) /\ nd.child \in Seq(Cell) /\ Len(nd.child) = Len(nd.key)
  BY SoundNode
<1>2. PICK cs \in Seq(Cell) : cs = nd.child
  BY <1>1
<1>3. r \in Range(cs) <=> \E i \in 1..Len(cs) : cs[i] = r
  BY RangeIs
<1>4. PICK i \in 1..Len(nd.key) : nd.child[i] = r
  BY <1>1, <1>2, <1>3
<1>5. Fits(nd.isLeaf, nd.key, nd.child)
  BY SoundFits
<1>6. r \in {nd.key[i]} \X Versions[nd.key[i]] /\ nd.key[i] \in Keys
  BY <1>1, <1>4, <1>5 DEF Fits
<1> QED BY <1>6

(* The pointers lead to nodes. *)
LEMMA TypeOKFollows == TreeInv => TypeOK
<1> SUFFICES ASSUME TreeInv
             PROVE  TypeOK
  OBVIOUS
<1>1. key0 \in {"null", "freed"} /\ result \in {"inserted", "refused", "done", "aborted"}
  BY DEF TreeInv
<1>2. CASE tree.Root = NULL
  <2>1. tree.Root = 0 /\ DOMAIN tree.node = {}
    BY <1>2, EmptyShape DEF TreeInv
  <2> QED BY <1>1, <2>1 DEF TypeOK, NULL
<1>3. CASE tree.Root # NULL
  <2>1. PICK w : Sound(tree, w)
    BY <1>3 DEF TreeInv, Built
  <2>2. tree.Root \in DOMAIN tree.node
    BY <2>1 DEF Sound, Sees, Shape
  <2>3. ASSUME NEW n \in DOMAIN tree.node, NEW c, c = tree.node[n]
        PROVE  /\ c.key \in Seq(Keys)
               /\ Len(c.child) = Len(c.key)
               /\ {c.next, c.last} \subseteq DOMAIN tree.node \cup {NULL}
               /\ Subnodes(tree, n) \subseteq DOMAIN tree.node
               /\ c.isLeaf => \A r \in Range(c.child) : r[1] \in Keys /\ r[2] \in Versions[r[1]]
    <3>1. c.key \in Seq(Keys) /\ Len(c.child) = Len(c.key)
      BY <2>1, <2>3, SoundNode
    <3>2. c.next \in DOMAIN tree.node \cup {NULL} /\ c.last \in DOMAIN tree.node \cup {NULL}
      BY <2>1, <2>3, LinkIn
    <3>3. ASSUME NEW m \in Subnodes(tree, n)
          PROVE  m \in DOMAIN tree.node
      <4>1. ~c.isLeaf /\ \E i \in 1..Len(c.key) : m = c.child[i]
        BY <2>1, <2>3, <3>3, SubnodeAt
      <4> QED BY <2>1, <2>3, <4>1, NodeChild
    <3>4. ASSUME c.isLeaf, NEW r \in Range(c.child)
          PROVE  r[1] \in Keys /\ r[2] \in Versions[r[1]]
      BY <2>1, <2>3, <3>4, LeafRecords
    <3> QED BY <3>1, <3>2, <3>3, <3>4
  <2> QED BY <1>1, <2>2, <2>3 DEF TypeOK
<1> QED BY <1>2, <1>3

-----------------------------------------------------------------------------
(* The balance.                                                            *)
(* A node is at one place in its father. *)
LEMMA OnePlace ==
  ASSUME NEW t, NEW w, Sound(t, w), NEW n, n \in DOMAIN t.node, n # t.Root,
         NEW F, F = t.node[n].father, NEW f, f = t.node[F]
  PROVE  /\ F \in DOMAIN t.node /\ ~f.isLeaf
         /\ \E i \in 1..Len(f.key) : \A j \in 1..Len(f.key) : f.child[j] = n <=> j = i
<1>1. PICK k \in Int : LeastKey(w, n, k)
  <2>1. Shape(w) /\ n \in w.nodes /\ n # w.root
    BY DEF Sound, Sees
  <2> QED BY <2>1, FatherEdge DEF LeastKey
<1>2. AtFather(t, n, F, f, k)
  BY <1>1, FatherHas
<1>3. F \in DOMAIN t.node /\ ~f.isLeaf
  BY <1>2 DEF AtFather
<1>4. PICK i \in 1..Len(f.key) : f.child[i] = n
  BY <1>2 DEF AtFather
<1>5. f.key \in Seq(Keys) /\ Ascending(f.key)
  BY <1>3, SoundNode
<1>6. ASSUME NEW j \in 1..Len(f.key), f.child[j] = n
      PROVE  j = i
  <2>1. t.node[n].key[1] = f.key[j]
    BY <1>3, <1>6, NodeChild, SMTT(40)
  <2>2. t.node[n].key[1] = f.key[i]
    BY <1>3, <1>4, NodeChild
  <2>3. f.key[i] = f.key[j] => i = j
    BY <1>5, AscendingUnique
  <2> QED BY <2>1, <2>2, <2>3
<1> QED BY <1>3, <1>4, <1>6

(* The tree is balanced. *)
LEMMA BalancedFollows == TreeInv => Balanced
<1> SUFFICES ASSUME TreeInv, Built
             PROVE  Balanced
  BY DEF Balanced
<1>1. PICK w : Sound(tree, w) /\ AllSized(tree)
  BY DEF TreeInv
<1>2. ASSUME NEW n \in Inner, NEW m \in Subnodes(tree, n)
      PROVE  m # tree.Root /\ tree.node[m].father = n /\ Levels(tree)[n] = Levels(tree)[m] + 1
  <2>1. PICK nd : nd = tree.node[n]
    OBVIOUS
  <2>2. n \in DOMAIN tree.node /\ ~nd.isLeaf
    BY <1>2, <2>1 DEF Inner
  <2>3. PICK i \in 1..Len(nd.key) : m = nd.child[i]
    BY <1>1, <1>2, <2>1, <2>2, SubnodeAt
  <2>4. m # tree.Root /\ tree.node[m].father = n /\ w.level[n] = w.level[m] + 1
    BY <1>1, <2>1, <2>2, <2>3, NodeChild
  <2>5. Leveled(tree, w.level)
    BY <1>1, SoundLeveled
  <2>6. Levels(tree) = w.level
    BY <2>5, LevelsAre
  <2> QED BY <2>4, <2>6
<1>3. ASSUME NEW n \in DOMAIN tree.node, n # tree.Root
      PROVE  /\ tree.node[n].father \in Inner
             /\ \E i \in DOMAIN tree.node[tree.node[n].father].child :
                  \A j \in DOMAIN tree.node[tree.node[n].father].child :
                    (tree.node[tree.node[n].father].child[j] = n) <=> (j = i)
  <2>1. PICK F : F = tree.node[n].father
    OBVIOUS
  <2>2. PICK f : f = tree.node[F]
    OBVIOUS
  <2>3. F \in DOMAIN tree.node /\ ~f.isLeaf
    BY <1>1, <1>3, <2>1, <2>2, OnePlace
  <2>4. \E i \in 1..Len(f.key) : \A j \in 1..Len(f.key) : f.child[j] = n <=> j = i
    BY <1>1, <1>3, <2>1, <2>2, OnePlace
  <2>5. f.child \in Seq(Cell) /\ Len(f.child) = Len(f.key)
    BY <1>1, <2>2, <2>3, SoundNode
  <2>6. DOMAIN f.child = 1..Len(f.key)
    BY <2>5
  <2>7. \E i \in DOMAIN f.child : \A j \in DOMAIN f.child : (f.child[j] = n) <=> (j = i)
    BY <2>4, <2>6
  <2> QED BY <2>1, <2>2, <2>3, <2>7 DEF Inner
<1>4. ASSUME NEW n \in DOMAIN tree.node
      PROVE  Len(tree.node[n].key) \in (IF n # tree.Root THEN Mid ELSE IF n \in Inner THEN 2 ELSE 0)
                                         ..MaxChildNumber - 1
  <2>1. SizedAt(tree, n)
    BY <1>1, <1>4 DEF AllSized
  <2>2. PICK a \in Nat : a = Len(tree.node[n].key)
    BY <1>1, <1>4, SoundNode
  <2>3. PICK m \in Nat : m = Mid
    BY TreeConstants DEF Mid
  <2>4. n \in Inner <=> ~tree.node[n].isLeaf
    BY <1>4 DEF Inner
  <2>5. (IF n # tree.Root THEN m ELSE IF n \in Inner THEN 2 ELSE 0) <= a /\ a < MaxChildNumber
    BY <2>1, <2>2, <2>3, <2>4 DEF SizedAt, Room
  <2>6. MaxChildNumber \in Nat
    BY TreeConstants
  <2>7. a \in (IF n # tree.Root THEN m ELSE IF n \in Inner THEN 2 ELSE 0)..MaxChildNumber - 1
    BY <2>5, <2>6
  <2> QED BY <2>2, <2>3, <2>7
<1> QED BY <1>2, <1>3, <1>4 DEF Balanced

-----------------------------------------------------------------------------
(* The keys below a node: those of the leaves that are in its area.        *)
KeysUnder(w, n) == {k \in Int : k \in w.area[n] /\ \E l \in w.nodes : w.level[l] = 0 /\ k \in DOMAIN w.kids[l]}
BelowStep(t, h, n) ==
  IF t.node[n].isLeaf THEN Range(t.node[n].key) ELSE UNION {h[m] : m \in Subnodes(t, n)}
IsBelow(h, t) == h = [n \in DOMAIN t.node |-> BelowStep(t, h, n)]

(* KeysBelow is a solution of the recursion. *)
LEMMA KeysBelowIs == KeysBelow = CHOOSE h : IsBelow(h, tree)
BY DEF KeysBelow, IsBelow, BelowStep

(* Of a leaf they are its keys. *)
LEMMA LeafBelow ==
  ASSUME NEW t, NEW w, Sound(t, w), NEW n, n \in DOMAIN t.node, t.node[n].isLeaf
  PROVE  Range(t.node[n].key) = KeysUnder(w, n)
<1>1. PICK nd : nd = t.node[n]
  OBVIOUS
<1>2. nd.isLeaf
  BY <1>1
<1>3. Shape(w) /\ n \in w.nodes /\ w.level[n] = 0 /\ w.kids[n] = Kids(nd.key, nd.child)
  BY <1>1, <1>2, SoundNode DEF Sound
<1>4. DOMAIN w.kids[n] = Range(nd.key)
  BY <1>3 DEF Kids
<1>5. DOMAIN w.kids[n] \subseteq w.area[n] /\ w.area[n] \subseteq Int
  BY <1>3 DEF Shape
<1>6. ASSUME NEW k \in KeysUnder(w, n)
      PROVE  k \in DOMAIN w.kids[n]
  <2>1. k \in Int /\ k \in w.area[n]
    BY <1>6 DEF KeysUnder
  <2>2. PICK l \in w.nodes : w.level[l] = 0 /\ k \in DOMAIN w.kids[l]
    BY <1>6 DEF KeysUnder
  <2>3. k \in w.area[l]
    BY <1>3, <2>2 DEF Shape
  <2>4. l = n
    BY <1>3, <2>1, <2>2, <2>3, SameLevelApart
  <2> QED BY <2>2, <2>4
<1>7. ASSUME NEW k \in DOMAIN w.kids[n]
      PROVE  k \in KeysUnder(w, n)
  BY <1>3, <1>5, <1>7 DEF KeysUnder
<1> QED BY <1>1, <1>4, <1>6, <1>7

(* Of an inner node they are those below its children. *)
LEMMA InnerBelow ==
  ASSUME NEW t, NEW w, Sound(t, w), NEW n, n \in DOMAIN t.node, ~t.node[n].isLeaf
  PROVE  UNION {KeysUnder(w, m) : m \in Subnodes(t, n)} = KeysUnder(w, n)
<1>1. PICK nd : nd = t.node[n]
  OBVIOUS
<1>2. ~nd.isLeaf /\ nd.child \in Seq(Cell) /\ Len(nd.child) = Len(nd.key)
  BY <1>1, SoundNode
<1>3. n \in w.nodes /\ w.level[n] # 0
  BY <1>1, <1>2, SoundNode
<1>4. ASSUME NEW i \in 1..Len(nd.key)
      PROVE  nd.child[i] \in Subnodes(t, n) /\ w.area[nd.child[i]] = Share(w, n, nd.key[i])
  <2>1. PICK m : m = nd.child[i]
    OBVIOUS
  <2>2. ChildFrom(nd, 1, Len(nd.key), m)
    BY <1>2, <1>4, <2>1 DEF ChildFrom
  <2>3. m \in Subnodes(t, n)
    BY <1>1, <1>2, <2>2, SubnodesAre
  <2>4. w.area[m] = Share(w, n, nd.key[i])
    BY <1>1, <1>2, <1>4, <2>1, NodeChild
  <2> QED BY <2>1, <2>3, <2>4
<1>5. ASSUME NEW k \in KeysUnder(w, n)
      PROVE  \E m \in Subnodes(t, n) : k \in KeysUnder(w, m)
  <2>1. k \in Int /\ k \in w.area[n]
    BY <1>5 DEF KeysUnder
  <2>2. PICK j \in Int : Chosen(DOMAIN w.kids[n], k, j)
    BY <1>3, <2>1, SoundBranches DEF Branches
  <2>3. j \in DOMAIN w.kids[n]
    BY <2>2 DEF Chosen
  <2>4. Pairs(w.kids[n], nd.key, nd.child)
    BY <1>1, NodePairs
  <2>5. PICK i \in 1..Len(nd.key) : nd.key[i] = j
    BY <2>3, <2>4 DEF Pairs
  <2>6. PICK m : m = nd.child[i]
    OBVIOUS
  <2>7. m \in Subnodes(t, n) /\ w.area[m] = Share(w, n, j)
    BY <1>4, <2>5, <2>6
  <2>8. k \in w.area[m]
    BY <2>1, <2>2, <2>7 DEF Share
  <2>9. k \in KeysUnder(w, m)
    BY <1>5, <2>8 DEF KeysUnder
  <2> QED BY <2>7, <2>9
<1>6. ASSUME NEW m \in Subnodes(t, n), NEW k \in KeysUnder(w, m)
      PROVE  k \in KeysUnder(w, n)
  <2>1. PICK i \in 1..Len(nd.key) : m = nd.child[i]
    BY <1>1, <1>6, SubnodeAt
  <2>2. w.area[m] = Share(w, n, nd.key[i])
    BY <1>4, <2>1
  <2>3. k \in w.area[n]
    BY <1>6, <2>2 DEF KeysUnder, Share
  <2> QED BY <1>6, <2>3 DEF KeysUnder
<1> QED BY <1>5, <1>6

(* So the recursion of KeysBelow has a solution, ... *)
LEMMA BelowExists ==
  ASSUME NEW t, NEW w, Sound(t, w)
  PROVE  \E h : IsBelow(h, t)
<1> DEFINE h == [n \in DOMAIN t.node |-> KeysUnder(w, n)]
<1>1. ASSUME NEW n \in DOMAIN t.node
      PROVE  h[n] = BelowStep(t, h, n)
  <2>1. CASE t.node[n].isLeaf
    BY <1>1, <2>1, LeafBelow DEF BelowStep
  <2>2. CASE ~t.node[n].isLeaf
    <3>1. Subnodes(t, n) \subseteq DOMAIN t.node
      <4> SUFFICES ASSUME NEW m \in Subnodes(t, n)
                   PROVE  m \in DOMAIN t.node
        OBVIOUS
      <4>1. PICK nd : nd = t.node[n]
        OBVIOUS
      <4>2. ~nd.isLeaf /\ \E i \in 1..Len(nd.key) : m = nd.child[i]
        BY <1>1, <4>1, SubnodeAt
      <4> QED BY <1>1, <4>1, <4>2, NodeChild
    <3>2. {h[m] : m \in Subnodes(t, n)} = {KeysUnder(w, m) : m \in Subnodes(t, n)}
      BY <3>1
    <3>3. UNION {KeysUnder(w, m) : m \in Subnodes(t, n)} = KeysUnder(w, n)
      BY <1>1, <2>2, InnerBelow
    <3> QED BY <1>1, <2>2, <3>2, <3>3 DEF BelowStep
  <2> QED BY <2>1, <2>2
<1>2. h = [n \in DOMAIN t.node |-> BelowStep(t, h, n)]
  BY <1>1
<1>3. IsBelow(h, t)
  BY <1>2 DEF IsBelow
<1> QED BY <1>3

(* ... and only one. *)
LEMMA BelowAre ==
  ASSUME NEW t, NEW w, Sound(t, w), NEW h, IsBelow(h, t)
  PROVE  \A n \in DOMAIN t.node : h[n] = KeysUnder(w, n)
<1> DEFINE S == {n \in w.nodes : h[n] = KeysUnder(w, n)}
<1>1. Shape(w) /\ w.nodes = DOMAIN t.node
  BY DEF Sound, Sees
<1>2. ASSUME NEW n \in w.nodes
      PROVE  h[n] = BelowStep(t, h, n)
  BY <1>1, <1>2 DEF IsBelow
<1>3. ASSUME NEW n \in w.nodes, w.level[n] = 0
      PROVE  n \in S
  <2>1. PICK nd : nd = t.node[n]
    OBVIOUS
  <2>2. nd.isLeaf
    BY <1>1, <1>3, <2>1, SoundNode
  <2>3. Range(t.node[n].key) = KeysUnder(w, n)
    BY <1>1, <2>1, <2>2, LeafBelow
  <2> QED BY <1>2, <2>1, <2>2, <2>3 DEF BelowStep
<1>4. ASSUME NEW n \in w.nodes, w.level[n] # 0, \A k \in DOMAIN w.kids[n] : w.kids[n][k] \in S
      PROVE  n \in S
  <2>1. PICK nd : nd = t.node[n]
    OBVIOUS
  <2>2. ~nd.isLeaf
    BY <1>1, <1>4, <2>1, SoundNode
  <2>3. ASSUME NEW m \in Subnodes(t, n)
        PROVE  h[m] = KeysUnder(w, m)
    <3>1. PICK i \in 1..Len(nd.key) : m = nd.child[i]
      BY <1>1, <2>1, <2>3, SubnodeAt
    <3>2. Pairs(w.kids[n], nd.key, nd.child)
      BY <1>1, <2>1, NodePairs
    <3>3. nd.key[i] \in DOMAIN w.kids[n] /\ w.kids[n][nd.key[i]] = m
      BY <3>1, <3>2 DEF Pairs
    <3>4. m \in S
      BY <1>4, <3>3
    <3> QED BY <3>4
  <2>4. UNION {KeysUnder(w, m) : m \in Subnodes(t, n)} = KeysUnder(w, n)
    BY <1>1, <2>1, <2>2, InnerBelow
  <2>5. {h[m] : m \in Subnodes(t, n)} = {KeysUnder(w, m) : m \in Subnodes(t, n)}
    BY <2>3
  <2> QED BY <1>2, <2>1, <2>2, <2>4, <2>5 DEF BelowStep
<1> HIDE DEF S
<1>5. w.nodes \subseteq S
  BY <1>1, <1>3, <1>4, FromLeaves
<1> QED BY <1>1, <1>5 DEF S

(* A key of an inner node, and the keys below it. *)
LEMMA KeyAndBelow ==
  ASSUME NEW t, NEW w, Sound(t, w), NEW n, n \in DOMAIN t.node, NEW nd, nd = t.node[n], ~nd.isLeaf,
         NEW i \in 1..Len(nd.key), NEW c, c = nd.child[i]
  PROVE  /\ nd.key[i] \in KeysUnder(w, c)
         /\ \A k \in KeysUnder(w, c) :
              /\ nd.key[i] <= k
              /\ i < Len(nd.key) => k < nd.key[i + 1]
<1>1. PICK x \in Int : x = nd.key[i] /\ x \in DOMAIN w.kids[n] /\ w.kids[n][x] = c
  <2>1. nd.key[i] \in Int
    BY NodeKids
  <2>2. Pairs(w.kids[n], nd.key, nd.child)
    BY NodePairs
  <2>3. nd.key[i] \in DOMAIN w.kids[n] /\ w.kids[n][nd.key[i]] = c
    BY <2>2 DEF Pairs
  <2> QED BY <2>1, <2>3
<1>2. Shape(w) /\ n \in w.nodes /\ w.level[n] # 0
  BY SoundNode DEF Sound
<1>3. x \in w.area[c] /\ c \in w.nodes /\ LeastOf(DOMAIN w.kids[c], x)
  BY <1>1, <1>2, ChildEdge
<1>4. w.area[c] = Share(w, n, x)
  BY <1>1, <1>2, ChildEdge
<1>5. x \in KeysUnder(w, c)
  <2>1. \E l \in w.nodes : w.level[l] = 0 /\ LeastOf(DOMAIN w.kids[l], x)
    BY <1>1, <1>2, InnerKeyIsInLeaf
  <2>2. \E l \in w.nodes : w.level[l] = 0 /\ x \in DOMAIN w.kids[l]
    BY <2>1 DEF LeastOf
  <2> QED BY <1>3, <2>2 DEF KeysUnder
<1>6. ASSUME NEW k \in KeysUnder(w, c)
      PROVE  x <= k /\ (i < Len(nd.key) => k < nd.key[i + 1])
  <2>1. k \in Int /\ k \in w.area[c]
    BY <1>6 DEF KeysUnder
  <2>2. PICK l \in w.nodes : w.level[l] = 0 /\ k \in DOMAIN w.kids[l]
    BY <1>6 DEF KeysUnder
  <2>3. Branches(w)
    BY SoundBranches
  <2>4. x <= k
    BY <1>2, <1>3, <2>1, <2>2, <2>3, LeastBelow
  <2>5. Chosen(DOMAIN w.kids[n], k, x)
    BY <1>4, <2>1 DEF Share
  <2>6. ASSUME i < Len(nd.key)
        PROVE  k < nd.key[i + 1]
    <3>1. i + 1 \in 1..Len(nd.key)
      <4>1. Len(nd.key) \in Nat
        BY SoundNode
      <4> QED BY <2>6, <4>1
    <3>2. PICK y \in Int : y = nd.key[i + 1]
      BY <3>1, NodeKids
    <3>3. y \in DOMAIN w.kids[n]
      BY <3>1, <3>2, NodeKids
    <3>4. x < y
      <4>1. Ascending(nd.key)
        BY SoundNode
      <4> QED BY <1>1, <3>1, <3>2, <4>1 DEF Ascending
    <3>5. y <= k => y <= x
      BY <2>5, <3>3 DEF Chosen
    <3> QED BY <2>1, <3>2, <3>4, <3>5
  <2> QED BY <2>4, <2>6
<1> QED BY <1>1, <1>5, <1>6

(* The keys of inner nodes are the smallest ones below. *)
LEMMA KeysAreSmallestFollows == TreeInv => KeysAreSmallest
<1> SUFFICES ASSUME TreeInv, Built
             PROVE  KeysAreSmallest
  BY DEF KeysAreSmallest
<1>1. PICK w : Sound(tree, w)
  BY DEF TreeInv
<1>2. PICK below : below = KeysBelow
  OBVIOUS
<1>3. IsBelow(below, tree)
  BY <1>1, <1>2, BelowExists, KeysBelowIs
<1>4. \A n \in DOMAIN tree.node : below[n] = KeysUnder(w, n)
  BY <1>1, <1>3, BelowAre
<1>5. ASSUME NEW n \in Inner, NEW i \in DOMAIN tree.node[n].key
      PROVE  /\ tree.node[n].key[i] \in below[tree.node[n].child[i]]
             /\ \A k \in below[tree.node[n].child[i]] :
                  /\ tree.node[n].key[i] <= k
                  /\ i < Len(tree.node[n].key) => k < tree.node[n].key[i + 1]
  <2>1. PICK nd : nd = tree.node[n]
    OBVIOUS
  <2>2. n \in DOMAIN tree.node /\ ~nd.isLeaf
    BY <1>5, <2>1 DEF Inner
  <2>3. i \in 1..Len(nd.key)
    <3>1. nd.key \in Seq(Keys)
      BY <1>1, <2>1, <2>2, SoundNode
    <3> QED BY <1>5, <2>1, <3>1
  <2>4. PICK c : c = nd.child[i]
    OBVIOUS
  <2>5. c \in DOMAIN tree.node
    BY <1>1, <2>1, <2>2, <2>3, <2>4, NodeChild
  <2>6. /\ nd.key[i] \in KeysUnder(w, c)
        /\ \A k \in KeysUnder(w, c) : nd.key[i] <= k /\ (i < Len(nd.key) => k < nd.key[i + 1])
    BY <1>1, <2>1, <2>2, <2>3, <2>4, KeyAndBelow
  <2>7. below[c] = KeysUnder(w, c)
    BY <1>4, <2>5
  <2> QED BY <2>1, <2>4, <2>6, <2>7
<1> QED BY <1>2, <1>5 DEF KeysAreSmallest

-----------------------------------------------------------------------------
(* The chain of the leaves has the order of their keys.                    *)
(* All numbers up to k are in A; no number below k is. *)
Low(A, k) == \A y \in Int : y <= k => y \in A
High(A, k) == \A y \in A : k <= y

(* The area of a node begins at its smallest key, or has no beginning. *)
OneSided(w, n) == \A k \in Int : LeastKey(w, n, k) => Low(w.area[n], k) \/ High(w.area[n], k)

(* So it is with every node. *)
LEMMA AreaOneSided ==
  ASSUME NEW w, Shape(w)
  PROVE  \A n \in w.nodes : OneSided(w, n)
<1> DEFINE S == {n \in w.nodes : OneSided(w, n)}
<1>1. w.root \in S
  BY DEF Shape, OneSided, Low
<1>2. ASSUME NEW n \in w.nodes, n # w.root, w.father[n] \in w.nodes, w.father[n] \in S
      PROVE  n \in S
  <2>1. PICK f \in w.nodes : f = w.father[n]
    BY <1>2
  <2>2. PICK k \in Int : k \in DOMAIN w.kids[f] /\ LeastOf(DOMAIN w.kids[n], k) /\ w.area[n] = Share(w, f, k)
    BY <1>2, <2>1, FatherEdge
  <2>3. PICK A : A = w.area[f]
    OBVIOUS
  <2>4. PICK K : K = DOMAIN w.kids[f]
    OBVIOUS
  <2>5. A \subseteq Int /\ K \subseteq Int /\ k \in K
    BY <2>2, <2>3, <2>4 DEF Shape
  <2>6. PICK B : B = {x \in A : Chosen(K, x, k)}
    OBVIOUS
  <2>7. w.area[n] = B
    BY <2>2, <2>3, <2>4, <2>6 DEF Share
  <2>8. LeastOf(K, k) => Low(A, k) \/ High(A, k)
    BY <1>2, <2>1, <2>3, <2>4 DEF OneSided, LeastKey
  <2>9. Low(B, k) \/ High(B, k)
    <3>1. CASE LeastOf(K, k) /\ Low(A, k)
      <4>1. ASSUME NEW y \in Int, y <= k
            PROVE  y \in A /\ Chosen(K, y, k)
        BY <2>5, <3>1, <4>1 DEF Low, LeastOf, Chosen
      <4> QED BY <2>6, <4>1 DEF Low
    <3>2. CASE LeastOf(K, k) /\ High(A, k)
      BY <2>6, <3>2 DEF High
    <3>3. CASE ~LeastOf(K, k)
      <4>1. PICK j \in Int : j \in K /\ j < k
        BY <2>5, <3>3 DEF LeastOf
      <4>2. ASSUME NEW y \in B
            PROVE  k <= y
        <5>1. Chosen(K, y, k) /\ y \in Int
          BY <2>5, <2>6, <4>2
        <5> QED BY <4>1, <5>1 DEF Chosen
      <4> QED BY <4>2 DEF High
    <3> QED BY <2>8, <3>1, <3>2, <3>3
  <2>10. ASSUME NEW x \in Int, LeastKey(w, n, x)
         PROVE  Low(w.area[n], x) \/ High(w.area[n], x)
    <3>1. x = k
      <4>1. PICK L : L = DOMAIN w.kids[n]
        OBVIOUS
      <4>2. LeastOf(L, x) /\ LeastOf(L, k)
        BY <2>2, <2>10, <4>1 DEF LeastKey
      <4>3. x <= k /\ k <= x
        BY <4>2 DEF LeastOf
      <4> QED BY <4>3
    <3> QED BY <2>7, <2>9, <3>1
  <2> QED BY <2>10 DEF OneSided
<1> HIDE DEF S
<1>3. w.nodes \subseteq S
  BY <1>1, <1>2, FromRoot
<1> QED BY <1>3 DEF S

(* Of two areas on a level all of one is below all of the other. *)
LEMMA AreasOrdered ==
  ASSUME NEW w, Shape(w), NEW m \in w.nodes, NEW n \in w.nodes, m # n, w.level[m] = w.level[n],
         NEW x \in Int, x \in w.area[m], NEW y \in Int, y \in w.area[n], x < y,
         NEW u \in Int, u \in w.area[m], NEW v \in Int, v \in w.area[n]
  PROVE  u < v
<1>1. PICK A : A = w.area[m]
  OBVIOUS
<1>2. PICK B : B = w.area[n]
  OBVIOUS
<1>3. \A z \in Int : ~(z \in A /\ z \in B)
  BY <1>1, <1>2, SameLevelApart
<1>4. Convex(A) /\ Convex(B)
  BY <1>1, <1>2, AreaConvex
<1>5. x \in A /\ u \in A /\ y \in B /\ v \in B
  BY <1>1, <1>2
<1> SUFFICES ASSUME v <= u
             PROVE  FALSE
  OBVIOUS
<1>6. CASE x <= v
  <2>1. v \in A
    BY <1>4, <1>5, <1>6 DEF Convex
  <2> QED BY <1>3, <1>5, <2>1
<1>7. CASE v < x
  <2>1. x \in B
    BY <1>4, <1>5, <1>7 DEF Convex
  <2> QED BY <1>3, <1>5, <2>1
<1> QED BY <1>6, <1>7

(* When there are two leaves, each has a smallest key. *)
LEMMA TwoLeaves ==
  ASSUME NEW w, Shape(w), NEW m, Leaf(w, m), NEW n, Leaf(w, n), m # n
  PROVE  \E k \in Int : LeastKey(w, m, k) /\ k \in w.area[m]
<1>1. CASE m # w.root
  <2>1. PICK k \in Int : LeastOf(DOMAIN w.kids[m], k)
    BY <1>1, FatherEdge DEF Leaf
  <2>2. k \in w.area[m]
    BY <2>1 DEF LeastOf, Shape, Leaf
  <2> QED BY <2>1, <2>2 DEF LeastKey
<1>2. CASE m = w.root
  <2>1. n \in w.nodes /\ n # w.root /\ w.level[n] = 0 /\ w.level[w.root] = 0
    BY <1>2 DEF Leaf
  <2>2. w.father[n] \in w.nodes /\ w.level[w.father[n]] = w.level[n] + 1
    BY <2>1, FatherEdge
  <2>3. w.level[w.father[n]] <= w.level[w.root]
    BY <2>2 DEF Shape
  <2> QED BY <2>1, <2>2, <2>3
<1> QED BY <1>1, <1>2

(* A node has one smallest key. *)
LEMMA LeastSame ==
  ASSUME NEW w, NEW n, NEW k \in Int, LeastKey(w, n, k), NEW j \in Int, LeastKey(w, n, j)
  PROVE  k = j
<1>1. PICK K : K = DOMAIN w.kids[n]
  OBVIOUS
<1>2. LeastOf(K, k) /\ LeastOf(K, j)
  BY <1>1 DEF LeastKey
<1>3. k <= j /\ j <= k
  BY <1>2 DEF LeastOf
<1> QED BY <1>3

(* Leaf n, with smallest key b, is the next one behind leaf m, with a. *)
NextLeaf(w, m, n, a, b) ==
  /\ a < b
  /\ \A l : \A c \in Int : Leaf(w, l) /\ LeastKey(w, l, c) => ~(a < c /\ c < b)

(* The leaf whose area is adjacent is the next one, ... *)
LEMMA AdjacentIsNext ==
  ASSUME NEW w, Shape(w), NEW m, Leaf(w, m), NEW n, Leaf(w, n), m # n, Adjacent(w, m, n),
         NEW a \in Int, LeastKey(w, m, a), NEW b \in Int, LeastKey(w, n, b)
  PROVE  NextLeaf(w, m, n, a, b)
<1>1. PICK x \in Int : x \in w.area[m] /\ x + 1 \in w.area[n]
  BY DEF Adjacent
<1>2. \A l : \A c \in Int : Leaf(w, l) /\ LeastKey(w, l, c) => c \in w.area[l]
  BY DEF Leaf, LeastKey, LeastOf, Shape
<1>3. m \in w.nodes /\ n \in w.nodes /\ w.level[m] = w.level[n] /\ a \in w.area[m] /\ b \in w.area[n]
  BY <1>2 DEF Leaf
<1>4. PICK y \in Int : y = x + 1
  OBVIOUS
<1>5. y \in w.area[n] /\ x < y
  BY <1>1, <1>4
<1>6. a < b
  BY <1>1, <1>3, <1>5, AreasOrdered
<1>7. ASSUME NEW l, NEW c \in Int, Leaf(w, l), LeastKey(w, l, c), a < c, c < b
      PROVE  FALSE
  <2>1. l \in w.nodes /\ w.level[l] = w.level[m] /\ c \in w.area[l]
    BY <1>2, <1>7 DEF Leaf
  <2>2. l # m
    BY <1>7 DEF LeastKey, LeastOf
  <2>3. l # n
    BY <1>7 DEF LeastKey, LeastOf
  <2>4. x < c
    BY <1>1, <1>3, <1>7, <2>1, <2>2, AreasOrdered
  <2>5. c < y
    BY <1>3, <1>5, <1>7, <2>1, <2>3, AreasOrdered
  <2> QED BY <1>4, <2>4, <2>5
<1> QED BY <1>6, <1>7 DEF NextLeaf

(* ... and the next one has the adjacent area. *)
LEMMA NextIsAdjacent ==
  ASSUME NEW w, Shape(w), Branches(w), NEW m, Leaf(w, m), NEW n, Leaf(w, n), m # n,
         NEW a \in Int, LeastKey(w, m, a), NEW b \in Int, LeastKey(w, n, b), NextLeaf(w, m, n, a, b)
  PROVE  Adjacent(w, m, n)
<1>1. \A l : \A c \in Int : Leaf(w, l) /\ LeastKey(w, l, c) => c \in w.area[l]
  BY DEF Leaf, LeastKey, LeastOf, Shape
<1>2. m \in w.nodes /\ n \in w.nodes /\ w.level[m] = 0 /\ w.level[n] = 0 /\ a \in w.area[m] /\ b \in w.area[n]
  BY <1>1 DEF Leaf
<1>3. a < b
  BY DEF NextLeaf
<1>4. High(w.area[n], b)
  <2>1. Low(w.area[n], b) \/ High(w.area[n], b)
    BY <1>2, AreaOneSided DEF OneSided
  <2>2. Low(w.area[n], b) => a \in w.area[n]
    BY <1>3 DEF Low
  <2>3. a \notin w.area[n]
    BY <1>2, SameLevelApart
  <2> QED BY <2>1, <2>2, <2>3
<1>5. PICK x \in Int : x = b - 1
  OBVIOUS
<1>6. x \notin w.area[n]
  BY <1>4, <1>5 DEF High
<1>7. PICK l \in w.nodes : w.level[l] = 0 /\ x \in w.area[l]
  <2>1. 0 \in 0 .. w.level[w.root]
    BY DEF Shape
  <2> QED BY <2>1, EveryLevelReached
<1>8. Leaf(w, l) /\ l # n
  BY <1>6, <1>7 DEF Leaf
<1>9. PICK c \in Int : LeastKey(w, l, c) /\ c \in w.area[l]
  BY <1>8, TwoLeaves
<1>10. c < b
  <2>1. x < b
    BY <1>5
  <2> QED BY <1>2, <1>7, <1>8, <1>9, <2>1, AreasOrdered
<1>11. c <= a
  BY <1>8, <1>9, <1>10 DEF NextLeaf
<1>12. a <= x
  BY <1>3, <1>5
<1>13. a \in w.area[l]
  <2>1. Convex(w.area[l])
    BY AreaConvex
  <2> QED BY <1>7, <1>9, <1>11, <1>12, <2>1 DEF Convex
<1>14. l = m
  BY <1>2, <1>7, <1>13, SameLevelApart
<1>15. x + 1 = b
  BY <1>5
<1> QED BY <1>2, <1>7, <1>14, <1>15 DEF Adjacent

(* In the tree: the smallest key of a leaf is its first one. *)
LEMMA LeafFirst ==
  ASSUME NEW w, Sound(tree, w), NEW m, Leaf(w, m), NEW n, Leaf(w, n), m # n
  PROVE  tree.node[m].key[1] \in Int /\ LeastKey(w, m, tree.node[m].key[1])
<1>1. PICK nd : nd = tree.node[m]
  OBVIOUS
<1>2. m \in DOMAIN tree.node /\ Shape(w)
  BY DEF Leaf, Sound, Sees
<1>3. PICK k \in Int : LeastKey(w, m, k)
  BY <1>2, TwoLeaves
<1>4. Pairs(w.kids[m], nd.key, nd.child)
  BY <1>1, <1>2, NodePairs
<1>5. k \in DOMAIN w.kids[m]
  BY <1>3 DEF LeastKey, LeastOf
<1>6. PICK i : i \in 1..Len(nd.key) /\ nd.key[i] = k
  BY <1>4, <1>5 DEF Pairs
<1>7. Len(nd.key) \in Nat
  BY <1>1, <1>2, SoundNode
<1>8. Len(nd.key) # 0 /\ 1 \in 1..Len(nd.key)
  BY <1>6, <1>7
<1>9. LeastKey(w, m, nd.key[1]) /\ nd.key[1] \in Int
  BY <1>1, <1>2, <1>8, NodeKids
<1> QED BY <1>1, <1>9

(* This is the order in which the tree has the leaves. *)
LEMMA FollowsIs ==
  ASSUME NEW w, Sound(tree, w), NEW m, Leaf(w, m), NEW n, Leaf(w, n)
  PROVE  Follows(m, n) <=> Adjacent(w, m, n)
<1>1. CASE m = n
  BY <1>1 DEF Follows, Adjacent
<1>2. CASE m # n
  <2>1. Shape(w) /\ Branches(w)
    BY SoundBranches DEF Sound
  <2>2. \A l : l \in Leaves <=> Leaf(w, l)
    <3>1. \A l \in DOMAIN tree.node : tree.node[l].isLeaf <=> w.level[l] = 0
      BY DEF Sound, Sees, SeesNode
    <3>2. w.nodes = DOMAIN tree.node
      BY DEF Sound, Sees
    <3> QED BY <3>1, <3>2 DEF Leaves, Inner, Leaf
  <2>3. PICK a \in Int : a = tree.node[m].key[1] /\ LeastKey(w, m, a)
    BY <1>2, LeafFirst
  <2>4. PICK b \in Int : b = tree.node[n].key[1] /\ LeastKey(w, n, b)
    BY <1>2, LeafFirst
  <2>5. ASSUME NEW l, Leaf(w, l)
        PROVE  tree.node[l].key[1] \in Int /\ LeastKey(w, l, tree.node[l].key[1])
    <3>1. CASE l # m
      BY <2>5, <3>1, LeafFirst
    <3>2. CASE l = m
      BY <2>3, <3>2
    <3> QED BY <3>1, <3>2
  <2>6. Follows(m, n) <=> NextLeaf(w, m, n, a, b)
    <3>1. ASSUME Follows(m, n)
          PROVE  NextLeaf(w, m, n, a, b)
      <4>1. a < b
        BY <2>3, <2>4, <3>1 DEF Follows
      <4>2. ASSUME NEW l, NEW c \in Int, Leaf(w, l), LeastKey(w, l, c), a < c, c < b
            PROVE  FALSE
        <5>1. PICK d \in Int : d = tree.node[l].key[1] /\ LeastKey(w, l, d)
          BY <2>5, <4>2
        <5>2. c = d
          BY <4>2, <5>1, LeastSame
        <5> QED BY <2>2, <2>3, <2>4, <3>1, <4>2, <5>1, <5>2 DEF Follows
      <4> QED BY <4>1, <4>2 DEF NextLeaf
    <3>2. ASSUME NextLeaf(w, m, n, a, b)
          PROVE  Follows(m, n)
      <4>1. a < b
        BY <3>2 DEF NextLeaf
      <4>2. ASSUME NEW l \in Leaves, a < tree.node[l].key[1], tree.node[l].key[1] < b
            PROVE  FALSE
        <5>1. Leaf(w, l)
          BY <2>2, <4>2
        <5>2. PICK d \in Int : d = tree.node[l].key[1] /\ LeastKey(w, l, d)
          BY <2>5, <5>1
        <5> QED BY <3>2, <4>2, <5>1, <5>2 DEF NextLeaf
      <4> QED BY <1>2, <2>3, <2>4, <4>1, <4>2 DEF Follows
    <3> QED BY <3>1, <3>2
  <2>7. Adjacent(w, m, n) => NextLeaf(w, m, n, a, b)
    BY <1>2, <2>1, <2>3, <2>4, AdjacentIsNext
  <2>8. NextLeaf(w, m, n, a, b) => Adjacent(w, m, n)
    BY <1>2, <2>1, <2>3, <2>4, NextIsAdjacent
  <2> QED BY <2>6, <2>7, <2>8
<1> QED BY <1>1, <1>2

-----------------------------------------------------------------------------

(* The links of the leaves have this order. *)
LEMMA LeavesLinkedFollows == TreeInv => LeavesLinked
<1> SUFFICES ASSUME TreeInv, Built
             PROVE  LeavesLinked
  BY DEF LeavesLinked
<1>1. PICK w : Sound(tree, w)
  BY DEF TreeInv
<1>2. \A l : l \in Leaves <=> Leaf(w, l)
  <2>1. \A l \in DOMAIN tree.node : tree.node[l].isLeaf <=> w.level[l] = 0
    BY <1>1 DEF Sound, Sees, SeesNode
  <2>2. w.nodes = DOMAIN tree.node
    BY <1>1 DEF Sound, Sees
  <2> QED BY <2>1, <2>2 DEF Leaves, Inner, Leaf
<1>3. \A l : Leaf(w, l) => w.next[l] = tree.node[l].next /\ w.last[l] = tree.node[l].last
  BY <1>1 DEF Sound, Sees, SeesNode, Leaf
<1>4. Linked(w)
  BY <1>1 DEF Sound
<1>5. ASSUME NEW m \in Leaves
      PROVE  {tree.node[m].next, tree.node[m].last} \subseteq Leaves \cup {NULL}
  <2>1. Leaf(w, m) /\ m \in w.nodes
    BY <1>2, <1>5 DEF Leaf
  <2>2. OnChain(w, m)
    BY <1>4, <2>1 DEF Linked
  <2> QED BY <1>2, <1>3, <2>1, <2>2 DEF OnChain
<1>6. ASSUME NEW m \in Leaves, NEW n \in Leaves
      PROVE  /\ ((tree.node[m].next = n) <=> Follows(m, n))
             /\ ((tree.node[n].last = m) <=> Follows(m, n))
  <2>1. Leaf(w, m) /\ Leaf(w, n) /\ m \in w.nodes /\ n \in w.nodes
    BY <1>2, <1>6 DEF Leaf
  <2>2. w.next[m] = n <=> Adjacent(w, m, n)
    BY <1>4, <2>1 DEF Linked
  <2>3. w.last[n] = m <=> Adjacent(w, m, n)
    BY <1>4, <2>1 DEF Linked
  <2>4. Follows(m, n) <=> Adjacent(w, m, n)
    BY <1>1, <2>1, FollowsIs
  <2> QED BY <1>3, <2>1, <2>2, <2>3, <2>4
<1> QED BY <1>5, <1>6 DEF LeavesLinked

(* All of it follows from the invariant. *)
LEMMA ShapeSoundFollows == TreeInv => ShapeSound
BY TypeOKFollows, BalancedFollows, KeysAreSmallestFollows, LeavesLinkedFollows DEF ShapeSound

(* ShapeSound holds after every call: splits, borrowing and merges on all  *)
(* levels leave a balanced tree whose inner keys are the smallest ones     *)
(* below them and whose leaves are chained in the order of their keys.     *)
THEOREM ShapeSoundHolds == Spec => []ShapeSound
<1>1. Spec => []TreeInv
  BY TreeInvHolds
<1>2. TreeInv => ShapeSound
  BY ShapeSoundFollows
<1> QED BY <1>1, <1>2, PTL

-----------------------------------------------------------------------------
(* The records in the order of their keys.                                 *)
Records(E) ==
  /\ IsFiniteSet(E)
  /\ \A e \in E : e[1] \in Int
  /\ \A d, e \in E : d[1] = e[1] => d = e

Earlier(E, x) == {e \in E : e[1] < x}
CountOf(E, x) == Cardinality(Earlier(E, x))

(* What is counted. *)
LEMMA CountIs ==
  ASSUME NEW E, Records(E), NEW x
  PROVE  IsFiniteSet(Earlier(E, x)) /\ CountOf(E, x) \in Nat /\ CountOf(E, x) <= Cardinality(E)
         /\ Cardinality(E) \in Nat
<1>1. PICK S : S = Earlier(E, x)
  OBVIOUS
<1>2. S \in SUBSET E
  BY <1>1 DEF Earlier
<1>3. IsFiniteSet(E)
  BY DEF Records
<1>4. IsFiniteSet(S) /\ Cardinality(S) <= Cardinality(E)
  BY <1>2, <1>3, FS_Subset
<1>5. Cardinality(S) \in Nat /\ Cardinality(E) \in Nat
  BY <1>3, <1>4, FS_CardinalityType
<1> QED BY <1>1, <1>4, <1>5 DEF CountOf

(* A record and those before it. *)
LEMMA CountNext ==
  ASSUME NEW E, Records(E), NEW e \in E, NEW S, \A d \in E : d \in S <=> d[1] < e[1] \/ d = e, S \subseteq E
  PROVE  Cardinality(S) = CountOf(E, e[1]) + 1
<1>1. PICK U : U = Earlier(E, e[1])
  OBVIOUS
<1>2. IsFiniteSet(U)
  BY <1>1, CountIs
<1>3. S = U \cup {e}
  BY <1>1 DEF Earlier
<1>4. e \notin U
  <2>1. e[1] \in Int
    BY DEF Records
  <2> QED BY <1>1, <2>1 DEF Earlier
<1>5. Cardinality(U \cup {e}) = Cardinality(U) + 1
  BY <1>2, <1>4, FS_AddElement
<1> QED BY <1>1, <1>3, <1>5 DEF CountOf

(* A record with a key below x is counted one earlier at least. *)
LEMMA CountLess ==
  ASSUME NEW E, Records(E), NEW e \in E, NEW S, S \subseteq E, e \in S,
         \A d \in E : d[1] < e[1] => d \in S
  PROVE  CountOf(E, e[1]) + 1 <= Cardinality(S)
<1>1. PICK T : T = {d \in E : d[1] < e[1] \/ d = e}
  OBVIOUS
<1>2. Cardinality(T) = CountOf(E, e[1]) + 1
  BY <1>1, CountNext
<1>3. T \in SUBSET S
  BY <1>1
<1>4. IsFiniteSet(S)
  <2>1. S \in SUBSET E /\ IsFiniteSet(E)
    BY DEF Records
  <2> QED BY <2>1, FS_Subset
<1>5. Cardinality(T) <= Cardinality(S)
  BY <1>3, <1>4, FS_Subset
<1> QED BY <1>2, <1>5

(* The count of a record is smaller than the number of records. *)
LEMMA CountIn ==
  ASSUME NEW E, Records(E), NEW e \in E
  PROVE  CountOf(E, e[1]) + 1 \in 1..Cardinality(E)
<1>1. CountOf(E, e[1]) + 1 <= Cardinality(E)
  BY CountLess
<1>2. CountOf(E, e[1]) \in Nat /\ Cardinality(E) \in Nat
  BY CountIs
<1> QED BY <1>1, <1>2

(* Different records have different counts. *)
LEMMA CountOnce ==
  ASSUME NEW E, Records(E), NEW d \in E, NEW e \in E, CountOf(E, d[1]) = CountOf(E, e[1])
  PROVE  d = e
<1>1. ASSUME NEW a \in E, NEW b \in E, a[1] < b[1]
      PROVE  CountOf(E, a[1]) + 1 <= CountOf(E, b[1])
  <2>1. PICK S : S = Earlier(E, b[1])
    OBVIOUS
  <2>2. a[1] \in Int /\ b[1] \in Int /\ \A c \in E : c[1] \in Int
    BY DEF Records
  <2>3. S \subseteq E /\ a \in S /\ \A c \in E : c[1] < a[1] => c \in S
    BY <1>1, <2>1, <2>2 DEF Earlier
  <2>4. CountOf(E, a[1]) + 1 <= Cardinality(S)
    BY <2>3, CountLess
  <2> QED BY <2>1, <2>4 DEF CountOf
<1>2. CountOf(E, d[1]) \in Nat /\ CountOf(E, e[1]) \in Nat
  BY CountIs
<1>3. ~(d[1] < e[1]) /\ ~(e[1] < d[1])
  BY <1>1, <1>2
<1>4. d[1] \in Int /\ e[1] \in Int
  BY DEF Records
<1>5. d[1] = e[1]
  BY <1>3, <1>4
<1> QED BY <1>5 DEF Records

(* s has the records of E in their order. *)
OrderOf(s, E) ==
  s = [i \in 1..Cardinality(E) |-> CHOOSE e \in E : CountOf(E, e[1]) = i - 1]

(* Each record is at its place. *)
LEMMA OrderAt ==
  ASSUME NEW E, Records(E), NEW s, OrderOf(s, E), NEW e \in E
  PROVE  /\ CountOf(E, e[1]) + 1 \in 1..Cardinality(E)
         /\ s[CountOf(E, e[1]) + 1] = e
<1>1. PICK n \in Nat : n = CountOf(E, e[1])
  BY CountIs
<1>2. PICK N \in Nat : N = Cardinality(E)
  BY CountIs
<1>4. n + 1 \in 1..N
  BY <1>1, <1>2, CountIn
<1>5. s[n + 1] = CHOOSE d \in E : CountOf(E, d[1]) = n
  <2>1. s[n + 1] = CHOOSE d \in E : CountOf(E, d[1]) = (n + 1) - 1
    BY <1>2, <1>4 DEF OrderOf
  <2>2. (n + 1) - 1 = n
    OBVIOUS
  <2> QED BY <2>1, <2>2
<1>6. s[n + 1] \in E /\ CountOf(E, s[n + 1][1]) = n
  BY <1>1, <1>5
<1>7. s[n + 1] = e
  BY <1>1, <1>6, CountOnce
<1> QED BY <1>1, <1>2, <1>4, <1>7

-----------------------------------------------------------------------------
(* Where the records are: e is at position k of leaf n.                    *)
EntryAt(t, n, k, e) ==
  /\ n \in DOMAIN t.node /\ t.node[n].isLeaf
  /\ k \in 1..Len(t.node[n].key)
  /\ t.node[n].child[k] = e

(* Every record is at a position, ... *)
LEMMA EntryHasPlace ==
  ASSUME NEW t, NEW w, Sound(t, w), NEW e, e \in EntriesOf(t)
  PROVE  \E n \in DOMAIN t.node : \E k \in Nat : EntryAt(t, n, k, e)
<1>1. PICK n \in DOMAIN t.node : t.node[n].isLeaf /\ e \in Range(t.node[n].child)
  BY DEF EntriesOf
<1>2. PICK nd : nd = t.node[n]
  OBVIOUS
<1>3. nd.child \in Seq(Cell) /\ Len(nd.child) = Len(nd.key) /\ Len(nd.key) \in Nat
  BY <1>1, <1>2, SoundNode
<1>4. PICK k \in 1..Len(nd.key) : nd.child[k] = e
  BY <1>2, <1>1, <1>3, RangeIs
<1>5. EntryAt(t, n, k, e)
  BY <1>1, <1>2, <1>4 DEF EntryAt
<1>6. k \in Nat
  BY <1>3, <1>4
<1> QED BY <1>5, <1>6

(* ... and beside its key. *)
LEMMA PlaceHasEntry ==
  ASSUME NEW t, NEW w, Sound(t, w), NEW n, NEW k, NEW e, EntryAt(t, n, k, e)
  PROVE  /\ e \in EntriesOf(t)
         /\ t.node[n].key[k] = e[1]
         /\ e[1] \in Int
         /\ Leaf(w, n)
         /\ e[1] \in DOMAIN w.kids[n]
         /\ e[1] \in w.area[n]
<1>1. PICK nd : nd = t.node[n]
  OBVIOUS
<1>2. n \in DOMAIN t.node /\ nd.isLeaf /\ k \in 1..Len(nd.key) /\ nd.child[k] = e
  BY <1>1 DEF EntryAt
<1>3. nd.child \in Seq(Cell) /\ Len(nd.child) = Len(nd.key) /\ n \in w.nodes /\ w.level[n] = 0
  BY <1>1, <1>2, SoundNode
<1>4. Fits(nd.isLeaf, nd.key, nd.child)
  BY <1>1, <1>2, SoundFits
<1>5. e[1] = nd.key[k]
  <2>1. nd.child[k] \in {nd.key[k]} \X Versions[nd.key[k]]
    BY <1>2, <1>4 DEF Fits
  <2> QED BY <1>2, <2>1
<1>6. e \in Range(nd.child)
  BY <1>2, <1>3, RangeIs
<1>7. e \in EntriesOf(t)
  BY <1>1, <1>2, <1>6 DEF EntriesOf
<1>8. nd.key[k] \in Int /\ nd.key[k] \in DOMAIN w.kids[n]
  BY <1>1, <1>2, NodeKids
<1>9. Shape(w)
  BY SoundFrame
<1>10. nd.key[k] \in w.area[n]
  BY <1>3, <1>8, <1>9 DEF Shape
<1> QED BY <1>1, <1>3, <1>5, <1>7, <1>8, <1>10 DEF Leaf

(* There are finitely many, and each has a key of its own. *)
LEMMA EntriesAreRecords ==
  ASSUME NEW t, NEW w, Sound(t, w), AllSized(t), NEW E, E = EntriesOf(t)
  PROVE  Records(E)
<1>1. PICK D : D = DOMAIN t.node
  OBVIOUS
<1>2. IsFiniteSet(D) /\ Shape(w)
  BY <1>1, SoundFrame DEF IsTree
<1>3. MaxChildNumber \in Nat
  BY TreeConstants
<1>4. PICK Q : Q = D \X (1..MaxChildNumber)
  OBVIOUS
<1>5. IsFiniteSet(Q)
  <2>1. IsFiniteSet(1..MaxChildNumber)
    BY <1>3, FS_Interval
  <2> QED BY <1>2, <1>4, <2>1, FS_Product
<1>6. PICK P : P = {p \in Q : EntryAt(t, p[1], p[2], t.node[p[1]].child[p[2]])}
  OBVIOUS
<1>7. IsFiniteSet(P)
  <2>1. P \in SUBSET Q
    BY <1>6
  <2> QED BY <1>5, <2>1, FS_Subset
<1>8. PICK f : f = [p \in P |-> t.node[p[1]].child[p[2]]]
  OBVIOUS
<1>9. \A p \in P : f[p] \in E
  <2>1. ASSUME NEW p \in P
        PROVE  f[p] \in E
    <3>1. EntryAt(t, p[1], p[2], f[p])
      BY <1>6, <1>8, <2>1
    <3> QED BY <3>1, PlaceHasEntry
  <2> QED BY <2>1
<1>10. \A e \in E : \E p \in P : f[p] = e
  <2>1. ASSUME NEW e \in E
        PROVE  \E p \in P : f[p] = e
    <3>1. PICK n \in D : \E k \in Nat : EntryAt(t, n, k, e)
      BY <1>1, <2>1, EntryHasPlace
    <3>2. PICK k \in Nat : EntryAt(t, n, k, e)
      BY <3>1
    <3>3. k \in 1..MaxChildNumber
      <4>1. k \in 1..Len(t.node[n].key) /\ Len(t.node[n].key) < MaxChildNumber
        BY <1>1, <3>2 DEF EntryAt, AllSized, SizedAt
      <4>2. Len(t.node[n].key) \in Nat
        BY <1>1, SoundNode
      <4> QED BY <1>3, <4>1, <4>2
    <3>4. PICK p : p = <<n, k>>
      OBVIOUS
    <3>5. p \in Q /\ p[1] = n /\ p[2] = k
      BY <1>4, <3>3, <3>4
    <3>6. t.node[n].child[k] = e
      BY <3>2 DEF EntryAt
    <3>7. EntryAt(t, p[1], p[2], t.node[p[1]].child[p[2]])
      BY <3>2, <3>5, <3>6
    <3>8. p \in P
      BY <1>6, <3>5, <3>7
    <3> QED BY <1>8, <3>5, <3>6, <3>8
  <2> QED BY <2>1
<1>11. f \in Surjection(P, E)
  <2>1. f \in [P -> E]
    BY <1>8, <1>9
  <2> QED BY <1>10, <2>1 DEF Surjection
<1>12. IsFiniteSet(E)
  BY <1>7, <1>11, FS_Surjection
<1>13. \A e \in E : e[1] \in Int
  <2>1. ASSUME NEW e \in E
        PROVE  e[1] \in Int
    <3>1. PICK n, k : EntryAt(t, n, k, e)
      BY <2>1, EntryHasPlace
    <3> QED BY <3>1, PlaceHasEntry
  <2> QED BY <2>1
<1>14. \A d, e \in E : d[1] = e[1] => d = e
  <2>1. ASSUME NEW d \in E, NEW e \in E, d[1] = e[1]
        PROVE  d = e
    <3>1. PICK k : k = d[1]
      OBVIOUS
    <3>2. HeldBy(w, k, d)
      BY <3>1, EntryHeld
    <3>3. HeldBy(w, k, e)
      BY <2>1, <3>1, EntryHeld
    <3> QED BY <1>2, <3>2, <3>3, HeldOnce
  <2> QED BY <2>1
<1> QED BY <1>12, <1>13, <1>14 DEF Records

-----------------------------------------------------------------------------
(* The order of the chain.                                                 *)
(* x is not behind leaf n: it is smaller than what the next leaf has.      *)
NotBehind(w, n, x) ==
  w.next[n] = NULL \/ \E b \in Int : LeastKey(w, w.next[n], b) /\ x < b

(* A number behind n is in the area of a leaf, and the first one in that   *)
(* of the next leaf.                                                       *)
LEMMA LastLeaf ==
  ASSUME NEW w, Shape(w), Branches(w), Linked(w), NEW n, Leaf(w, n), w.next[n] = NULL,
         NEW y \in Int, y \in w.area[n], NEW x \in Int, y < x
  PROVE  x \in w.area[n]
<1> SUFFICES ASSUME x \notin w.area[n]
             PROVE  FALSE
  OBVIOUS
<1>1. PICK A : A = w.area[n]
  OBVIOUS
<1>2. PICK S : S = {i \in Nat : y + i \notin A}
  OBVIOUS
<1>3. S \in SUBSET Nat /\ S # {}
  <2>1. x - y \in Nat /\ y + (x - y) = x
    OBVIOUS
  <2> QED BY <1>1, <1>2, <2>1
<1>4. PICK j \in S : \A i \in S : j <= i
  BY <1>3, SmallestOf
<1>5. j \in Nat /\ y + j \notin A /\ j # 0
  BY <1>1, <1>2, <1>4
<1>6. PICK z \in Int : z = y + (j - 1)
  BY <1>5
<1>7. z \in A /\ z + 1 = y + j
  <2>1. j - 1 \in Nat /\ j - 1 \notin S
    BY <1>4, <1>5
  <2> QED BY <1>2, <1>5, <1>6, <2>1
<1>8. z + 1 \in Int /\ z + 1 \notin A
  BY <1>5, <1>7
<1>9. PICK q \in w.nodes : w.level[q] = 0 /\ z + 1 \in w.area[q]
  <2>1. 0 \in 0 .. w.level[w.root]
    BY DEF Shape
  <2> QED BY <1>8, <2>1, EveryLevelReached
<1>10. Leaf(w, q) /\ q # n
  BY <1>1, <1>8, <1>9 DEF Leaf
<1>11. Adjacent(w, n, q)
  BY <1>1, <1>7, <1>9, <1>10 DEF Adjacent
<1>12. w.next[n] = q
  BY <1>10, <1>11 DEF Linked, Leaf
<1> QED BY <1>9, <1>12 DEF Linked

(* The keys that are not behind a leaf: those before it, and its own.      *)
LEMMA NotBehindIs ==
  ASSUME NEW w, Shape(w), Branches(w), Linked(w), NEW n, Leaf(w, n),
         NEW y \in Int, y \in w.area[n], NEW l, Leaf(w, l), NEW x \in Int, x \in DOMAIN w.kids[l]
  PROVE  NotBehind(w, n, x) <=> x < y \/ x \in DOMAIN w.kids[n]
<1>1. x \in w.area[l] /\ l \in w.nodes /\ n \in w.nodes /\ w.level[l] = w.level[n]
  BY DEF Shape, Leaf
<1>2. x \in DOMAIN w.kids[n] <=> l = n
  BY HeldInOne
<1>3. CASE w.next[n] = NULL
  <2>1. NotBehind(w, n, x)
    BY <1>3 DEF NotBehind
  <2>2. y < x => l = n
    BY <1>1, <1>3, LastLeaf, SameLevelApart
  <2>3. y = x => l = n
    BY <1>1, SameLevelApart
  <2> QED BY <1>2, <2>1, <2>2, <2>3
<1>4. CASE w.next[n] # NULL
  <2>1. PICK m : m = w.next[n]
    OBVIOUS
  <2>2. Leaf(w, m)
    BY <1>1, <1>4, <2>1 DEF Linked, OnChain
  <2>3. m \in w.nodes /\ w.level[m] = w.level[n]
    BY <2>2 DEF Leaf
  <2>4. Adjacent(w, n, m)
    BY <1>1, <2>1, <2>2, <2>3 DEF Linked
  <2>5. PICK u \in Int : u \in w.area[n] /\ u + 1 \in w.area[m]
    BY <2>4 DEF Adjacent
  <2>6. PICK v \in Int : v = u + 1 /\ v \in w.area[m] /\ u < v
    BY <2>5
  <2>7. m # n
    BY <2>4 DEF Adjacent
  <2>8. PICK b \in Int : LeastKey(w, m, b) /\ b \in w.area[m]
    BY <2>2, <2>7, TwoLeaves
  <2>9. NotBehind(w, n, x) <=> x < b
    BY <1>4, <2>1, <2>8, LeastSame DEF NotBehind
  <2>10. CASE l = n
    <3>1. x < b
      BY <1>1, <2>3, <2>5, <2>6, <2>7, <2>8, <2>10, AreasOrdered
    <3> QED BY <1>2, <2>9, <2>10, <3>1
  <2>11. CASE l = m
    <3>1. b <= x
      BY <2>8, <2>11 DEF LeastKey, LeastOf
    <3>2. y < x
      BY <1>1, <2>3, <2>5, <2>6, <2>7, <2>11, AreasOrdered
    <3> QED BY <1>2, <2>7, <2>9, <2>11, <3>1, <3>2
  <2>12. CASE l # n /\ l # m
    <3>1. x # y /\ x # v
      BY <1>1, <2>3, <2>6, <2>12, SameLevelApart
    <3>2. CASE x < y
      <4>1. x < u
        BY <1>1, <2>5, <2>12, <3>2, AreasOrdered
      <4>2. u < b
        BY <1>1, <2>3, <2>5, <2>6, <2>7, <2>8, AreasOrdered
      <4> QED BY <1>2, <2>9, <2>12, <3>2, <4>1, <4>2
    <3>3. CASE y < x
      <4>1. u < x
        BY <1>1, <2>5, <2>12, <3>3, AreasOrdered
      <4>2. v < x
        BY <2>6, <3>1, <4>1
      <4>3. b < x
        BY <1>1, <2>3, <2>6, <2>8, <2>12, <4>2, AreasOrdered
      <4> QED BY <1>2, <2>9, <2>12, <3>3, <4>3
    <3> QED BY <3>1, <3>2, <3>3
  <2> QED BY <2>10, <2>11, <2>12
<1> QED BY <1>3, <1>4

-----------------------------------------------------------------------------
(* What a walk along the chain has behind it at position k of leaf n.      *)
Passed(t, n, k, x) ==
  IF k <= Len(t.node[n].key) THEN x < t.node[n].key[k]
  ELSE t.node[n].next = NULL \/ x < t.node[t.node[n].next].key[1]

PassedAt(t, n, k) == {e \in EntriesOf(t) : Passed(t, n, k, e[1])}

(* The next leaf has a first record. *)
LEMMA NextHasFirst ==
  ASSUME NEW t, NEW w, Sound(t, w), NEW n, Leaf(w, n), NEW m, m = t.node[n].next, m # NULL
  PROVE  /\ m = w.next[n] /\ Leaf(w, m) /\ m \in DOMAIN t.node /\ t.node[m].isLeaf
         /\ Len(t.node[m].key) \in Nat /\ 1 <= Len(t.node[m].key)
         /\ t.node[m].key[1] \in Int /\ LeastKey(w, m, t.node[m].key[1])
<1>1. Shape(w) /\ Linked(w) /\ w.nodes = DOMAIN t.node
  BY SoundFrame
<1>2. n \in DOMAIN t.node /\ n \in w.nodes
  BY <1>1 DEF Leaf
<1>3. m = w.next[n]
  BY <1>2, SoundSees
<1>4. Leaf(w, m)
  BY <1>1, <1>2, <1>3 DEF Linked, OnChain
<1>5. m \in DOMAIN t.node /\ w.level[m] = 0 /\ m \in w.nodes
  BY <1>1, <1>4 DEF Leaf
<1>6. m # n
  <2>1. Adjacent(w, n, m)
    BY <1>1, <1>2, <1>3, <1>4, <1>5 DEF Linked
  <2> QED BY <2>1 DEF Adjacent
<1>7. PICK c \in Int : LeastKey(w, m, c)
  BY <1>1, <1>4, <1>6, TwoLeaves
<1>8. PICK nd : nd = t.node[m]
  OBVIOUS
<1>9. Pairs(w.kids[m], nd.key, nd.child)
  BY <1>5, <1>8, NodePairs
<1>10. PICK i : i \in 1..Len(nd.key) /\ nd.key[i] = c
  BY <1>7, <1>9 DEF Pairs, LeastKey, LeastOf
<1>11. Len(nd.key) \in Nat
  BY <1>5, <1>8, SoundNode
<1>12. nd.isLeaf
  BY <1>5, <1>8, SoundNode
<1>13. Len(nd.key) # 0 /\ 1 \in 1..Len(nd.key)
  BY <1>10, <1>11
<1>14. LeastKey(w, m, nd.key[1]) /\ nd.key[1] \in Int
  BY <1>5, <1>8, <1>13, NodeKids
<1> QED BY <1>3, <1>4, <1>5, <1>8, <1>11, <1>12, <1>13, <1>14

(* Behind its last position a leaf is passed. *)
LEMMA PassedLeaf ==
  ASSUME NEW t, NEW w, Sound(t, w), NEW n, Leaf(w, n), NEW k \in Nat, ~(k <= Len(t.node[n].key)),
         NEW x \in Int
  PROVE  Passed(t, n, k, x) <=> NotBehind(w, n, x)
<1>1. PICK m : m = t.node[n].next
  OBVIOUS
<1>2. m = w.next[n]
  BY <1>1, SoundFrame, SoundSees DEF Leaf
<1>3. CASE m = NULL
  BY <1>1, <1>2, <1>3 DEF Passed, NotBehind
<1>4. CASE m # NULL
  <2>1. PICK c \in Int : c = t.node[m].key[1] /\ LeastKey(w, m, c)
    BY <1>1, <1>4, NextHasFirst
  <2>2. Passed(t, n, k, x) <=> x < c
    BY <1>1, <1>4, <2>1 DEF Passed
  <2>3. \A b \in Int : LeastKey(w, m, b) => b = c
    BY <2>1, LeastSame
  <2>4. NotBehind(w, n, x) <=> x < c
    BY <1>2, <1>4, <2>1, <2>3 DEF NotBehind
  <2> QED BY <2>2, <2>4
<1> QED BY <1>3, <1>4

(* Behind record e it has been passed, and what was passed before it.      *)
LEMMA PassedNext ==
  ASSUME NEW t, NEW w, Sound(t, w), NEW n, NEW k \in Nat, NEW e, EntryAt(t, n, k, e),
         NEW d, d \in EntriesOf(t)
  PROVE  Passed(t, n, k + 1, d[1]) <=> d[1] < e[1] \/ d = e
<1>1. PICK nd : nd = t.node[n]
  OBVIOUS
<1>2. n \in DOMAIN t.node /\ nd.isLeaf /\ k \in 1..Len(nd.key) /\ n \in w.nodes
  BY <1>1, SoundFrame DEF EntryAt
<1>3. /\ Len(nd.key) \in Nat /\ Ascending(nd.key)
  BY <1>1, <1>2, SoundNode
<1>4. Shape(w) /\ Linked(w) /\ Branches(w)
  BY SoundFrame, SoundBranches
<1>5. PICK y \in Int : y = e[1] /\ y = nd.key[k] /\ Leaf(w, n) /\ y \in DOMAIN w.kids[n] /\ y \in w.area[n]
  BY <1>1, PlaceHasEntry
<1>6. PICK l \in DOMAIN t.node : \E j \in Nat : EntryAt(t, l, j, d)
  BY EntryHasPlace
<1>7. PICK x \in Int : x = d[1] /\ Leaf(w, l) /\ x \in DOMAIN w.kids[l] /\ x \in w.area[l]
  BY <1>6, PlaceHasEntry
<1>8. e \in EntriesOf(t)
  BY PlaceHasEntry
<1>9. x = y <=> d = e
  <2>1. HeldBy(w, x, d) /\ HeldBy(w, y, e)
    BY <1>5, <1>7, <1>8, EntryHeld
  <2>2. x = y => d = e
    BY <1>4, <2>1, HeldOnce
  <2> QED BY <1>5, <1>7, <2>2
<1>10. \A i \in 1..Len(nd.key) : nd.key[i] \in Int
  BY <1>1, <1>2, NodeKids
<1>11. ASSUME x \in DOMAIN w.kids[n]
       PROVE  \E i \in 1..Len(nd.key) : nd.key[i] = x
  <2>1. Pairs(w.kids[n], nd.key, nd.child)
    BY <1>1, <1>2, NodePairs
  <2> QED BY <1>11, <2>1 DEF Pairs
<1>12. CASE k + 1 <= Len(nd.key)
  <2>1. k + 1 \in 1..Len(nd.key) /\ k < k + 1
    BY <1>2, <1>12
  <2>2. PICK z \in Int : z = nd.key[k + 1]
    BY <1>10, <2>1
  <2>3. y < z
    BY <1>2, <1>3, <1>5, <2>1, <2>2 DEF Ascending
  <2>4. Passed(t, n, k + 1, x) <=> x < z
    BY <1>1, <1>12, <2>2 DEF Passed
  <2>5. ASSUME y < x, x < z
        PROVE  FALSE
    <3>1. z \in w.area[n]
      <4>1. nd.key[k + 1] \in DOMAIN w.kids[n]
        BY <1>1, <1>2, <2>1, NodeKids
      <4> QED BY <1>2, <1>4, <2>2, <4>1 DEF Shape
    <3>2. Convex(w.area[n])
      BY <1>2, <1>4, AreaConvex
    <3>3. x \in w.area[n]
      BY <1>5, <2>5, <3>1, <3>2 DEF Convex
    <3>4. l = n
      BY <1>4, <1>5, <1>7, <3>3, SameLevelApart DEF Leaf
    <3>5. PICK i \in 1..Len(nd.key) : nd.key[i] = x
      BY <1>7, <1>11, <3>4
    <3>6. i < k \/ i = k \/ i = k + 1 \/ k + 1 < i
      BY <1>2, <1>3, <3>5
    <3>7. i < k => x < y
      BY <1>2, <1>3, <1>5, <3>5 DEF Ascending
    <3>8. k + 1 < i => z < x
      BY <1>3, <2>1, <2>2, <3>5 DEF Ascending
    <3> QED BY <1>5, <2>2, <2>5, <3>5, <3>6, <3>7, <3>8
  <2>6. x < z <=> x < y \/ x = y
    BY <2>3, <2>5
  <2> QED BY <1>5, <1>7, <1>9, <2>4, <2>6
<1>13. CASE ~(k + 1 <= Len(nd.key))
  <2>1. k = Len(nd.key)
    BY <1>2, <1>3, <1>13
  <2>2. Passed(t, n, k + 1, x) <=> NotBehind(w, n, x)
    <3>1. k + 1 \in Nat
      OBVIOUS
    <3> QED BY <1>1, <1>5, <1>13, <3>1, PassedLeaf
  <2>3. NotBehind(w, n, x) <=> x < y \/ x \in DOMAIN w.kids[n]
    BY <1>4, <1>5, <1>7, NotBehindIs
  <2>4. x \in DOMAIN w.kids[n] => x < y \/ x = y
    <3>1. ASSUME x \in DOMAIN w.kids[n]
          PROVE  x < y \/ x = y
      <4>1. PICK i \in 1..Len(nd.key) : nd.key[i] = x
        BY <1>11, <3>1
      <4>2. i < k \/ i = k
        BY <1>3, <2>1, <4>1
      <4>3. i < k => x < y
        BY <1>2, <1>3, <1>5, <4>1 DEF Ascending
      <4> QED BY <1>5, <4>1, <4>2, <4>3
    <3> QED BY <3>1
  <2>5. x = y => x \in DOMAIN w.kids[n]
    BY <1>5
  <2> QED BY <1>5, <1>7, <1>9, <2>2, <2>3, <2>4, <2>5
<1> QED BY <1>12, <1>13

(* So counts the walk: at a record, ... *)
LEMMA PassedCount ==
  ASSUME NEW t, NEW w, Sound(t, w), NEW E, E = EntriesOf(t), Records(E),
         NEW n, NEW k \in Nat, NEW e, EntryAt(t, n, k, e)
  PROVE  Cardinality(PassedAt(t, n, k)) = CountOf(E, e[1])
<1>1. e \in E /\ t.node[n].key[k] = e[1]
  BY PlaceHasEntry
<1>2. k <= Len(t.node[n].key)
  BY DEF EntryAt
<1>3. PassedAt(t, n, k) = Earlier(E, e[1])
  BY <1>1, <1>2 DEF PassedAt, Passed, Earlier
<1> QED BY <1>3 DEF CountOf

(* ... and behind it. *)
LEMMA PassedBehind ==
  ASSUME NEW t, NEW w, Sound(t, w), NEW E, E = EntriesOf(t), Records(E),
         NEW n, NEW k \in Nat, NEW e, EntryAt(t, n, k, e), NEW j \in Nat, j = k + 1
  PROVE  Cardinality(PassedAt(t, n, j)) = CountOf(E, e[1]) + 1
<1>1. e \in E
  BY PlaceHasEntry
<1>2. PICK S : S = PassedAt(t, n, j)
  OBVIOUS
<1>3. S \subseteq E /\ \A d \in E : d \in S <=> Passed(t, n, j, d[1])
  BY <1>2 DEF PassedAt
<1>4. \A d \in E : Passed(t, n, k + 1, d[1]) <=> d[1] < e[1] \/ d = e
  BY PassedNext
<1>5. \A d \in E : d \in S <=> d[1] < e[1] \/ d = e
  BY <1>3, <1>4
<1>6. Cardinality(S) = CountOf(E, e[1]) + 1
  BY <1>1, <1>3, <1>5, CountNext
<1> QED BY <1>2, <1>6

(* From leaf to leaf nothing is passed, ... *)
LEMMA PassedTurn ==
  ASSUME NEW t, NEW w, Sound(t, w), NEW n, Leaf(w, n), NEW k \in Nat, ~(k <= Len(t.node[n].key)),
         NEW m, m = t.node[n].next, m # NULL
  PROVE  PassedAt(t, n, k) = PassedAt(t, m, 1)
<1>1. Len(t.node[m].key) \in Nat /\ 1 <= Len(t.node[m].key)
  BY NextHasFirst
<1>2. \A x : Passed(t, n, k, x) <=> Passed(t, m, 1, x)
  BY <1>1 DEF Passed
<1> QED BY <1>2 DEF PassedAt

(* ... and at the end everything is. *)
LEMMA PassedAll ==
  ASSUME NEW t, NEW n, NEW k \in Nat, ~(k <= Len(t.node[n].key)), t.node[n].next = NULL
  PROVE  PassedAt(t, n, k) = EntriesOf(t)
<1>1. \A x : Passed(t, n, k, x)
  BY DEF Passed
<1> QED BY <1>1 DEF PassedAt

-----------------------------------------------------------------------------
(* The first leaf.                                                         *)
IsLeftmost(h, t) ==
  h = [n \in DOMAIN t.node |-> IF t.node[n].isLeaf THEN n ELSE h[t.node[n].child[1]]]

(* Leaf l has the smallest key of node n. *)
HasLeast(t, w, n, l) ==
  Leaf(w, l) /\ (t.node[n].isLeaf => l = n) /\ (~t.node[n].isLeaf => LeastKey(w, l, t.node[n].key[1]))

(* A leaf is the only one with its smallest key. *)
LEMMA LeastLeafOnce ==
  ASSUME NEW w, Shape(w), NEW l, Leaf(w, l), NEW m, Leaf(w, m), NEW k, LeastKey(w, l, k), LeastKey(w, m, k)
  PROVE  l = m
<1>1. k \in DOMAIN w.kids[l] /\ k \in DOMAIN w.kids[m]
  BY DEF LeastKey, LeastOf
<1> QED BY <1>1, HeldInOne

(* An inner node's smallest key is in one leaf, ... *)
LEMMA OneHasLeast ==
  ASSUME NEW t, NEW w, Sound(t, w), NEW n, n \in DOMAIN t.node
  PROVE  /\ \E l : HasLeast(t, w, n, l)
         /\ \A l, m : HasLeast(t, w, n, l) /\ HasLeast(t, w, n, m) => l = m
<1>1. Shape(w) /\ n \in w.nodes
  BY SoundFrame
<1>2. PICK nd : nd = t.node[n]
  OBVIOUS
<1>3. CASE nd.isLeaf
  <2>1. Leaf(w, n)
    BY <1>1, <1>2, <1>3, SoundNode DEF Leaf
  <2> QED BY <1>2, <1>3, <2>1 DEF HasLeast
<1>4. CASE ~nd.isLeaf
  <2>1. LeastKey(w, n, nd.key[1]) /\ w.level[n] # 0
    <3>1. Len(nd.key) # 0 /\ w.level[n] # 0
      BY <1>2, <1>4, SoundNode
    <3> QED BY <1>2, <3>1, NodeKids
  <2>2. PICK l \in w.nodes : w.level[l] = 0 /\ LeastOf(DOMAIN w.kids[l], nd.key[1])
    <3>1. nd.key[1] \in DOMAIN w.kids[n]
      BY <2>1 DEF LeastKey, LeastOf
    <3> QED BY <1>1, <2>1, <3>1, InnerKeyIsInLeaf
  <2>3. HasLeast(t, w, n, l)
    BY <1>2, <1>4, <2>2 DEF HasLeast, Leaf, LeastKey
  <2>4. \A j, m : HasLeast(t, w, n, j) /\ HasLeast(t, w, n, m) => j = m
    BY <1>1, <1>2, <1>4, LeastLeafOnce DEF HasLeast
  <2> QED BY <2>3, <2>4
<1> QED BY <1>3, <1>4

(* ... and it is the one of its first child. *)
LEMMA LeastOfFirst ==
  ASSUME NEW t, NEW w, Sound(t, w), NEW n, n \in DOMAIN t.node, ~t.node[n].isLeaf,
         NEW c, c = t.node[n].child[1], NEW l, HasLeast(t, w, c, l)
  PROVE  HasLeast(t, w, n, l)
<1>1. PICK nd : nd = t.node[n]
  OBVIOUS
<1>2. PICK cd : cd = t.node[c]
  OBVIOUS
<1>3. 1 \in 1..Len(nd.key)
  <2>1. Len(nd.key) \in Nat /\ Len(nd.key) # 0
    BY <1>1, SoundNode
  <2> QED BY <2>1
<1>4. c \in DOMAIN t.node /\ Len(cd.key) # 0 /\ cd.key[1] = nd.key[1]
  BY <1>1, <1>2, <1>3, NodeChild
<1>5. LeastKey(w, c, nd.key[1])
  BY <1>2, <1>4, NodeKids
<1>6. LeastKey(w, l, nd.key[1])
  <2>1. CASE cd.isLeaf
    BY <1>2, <1>5, <2>1 DEF HasLeast
  <2>2. CASE ~cd.isLeaf
    BY <1>2, <1>4, <2>2 DEF HasLeast
  <2> QED BY <2>1, <2>2
<1> QED BY <1>1, <1>6 DEF HasLeast

(* The first child is a node. *)
LEMMA FirstChild ==
  ASSUME NEW t, NEW w, Sound(t, w), NEW n, n \in DOMAIN t.node, ~t.node[n].isLeaf
  PROVE  t.node[n].child[1] \in DOMAIN t.node
<1>1. PICK nd : nd = t.node[n]
  OBVIOUS
<1>2. 1 \in 1..Len(nd.key)
  <2>1. Len(nd.key) \in Nat /\ Len(nd.key) # 0
    BY <1>1, SoundNode
  <2> QED BY <2>1
<1> QED BY <1>1, <1>2, NodeChild

(* The recursion of Leftmost has a solution, ... *)
LEMMA LeftmostExists ==
  ASSUME NEW t, NEW w, Sound(t, w)
  PROVE  \E h : IsLeftmost(h, t)
<1>1. PICK h : h = [n \in DOMAIN t.node |-> CHOOSE l : HasLeast(t, w, n, l)]
  OBVIOUS
<1>2. \A n \in DOMAIN t.node : HasLeast(t, w, n, h[n])
  BY <1>1, OneHasLeast
<1>3. ASSUME NEW n \in DOMAIN t.node
      PROVE  h[n] = IF t.node[n].isLeaf THEN n ELSE h[t.node[n].child[1]]
  <2>1. CASE t.node[n].isLeaf
    BY <1>2, <2>1 DEF HasLeast
  <2>2. CASE ~t.node[n].isLeaf
    <3>1. PICK c : c = t.node[n].child[1]
      OBVIOUS
    <3>2. c \in DOMAIN t.node
      BY <2>2, <3>1, FirstChild
    <3>3. HasLeast(t, w, n, h[c])
      BY <1>2, <2>2, <3>1, <3>2, LeastOfFirst
    <3>4. h[n] = h[c]
      BY <1>2, <3>3, OneHasLeast
    <3> QED BY <2>2, <3>1, <3>4
  <2> QED BY <2>1, <2>2
<1>4. h = [n \in DOMAIN t.node |-> IF t.node[n].isLeaf THEN n ELSE h[t.node[n].child[1]]]
  BY <1>1, <1>3
<1> QED BY <1>4 DEF IsLeftmost

(* ... and every solution leads to the leaf with the smallest key. *)
LEMMA LeftmostLeads ==
  ASSUME NEW t, NEW w, Sound(t, w), NEW h, IsLeftmost(h, t)
  PROVE  \A n \in DOMAIN t.node : HasLeast(t, w, n, h[n])
<1> DEFINE S == {n \in w.nodes : HasLeast(t, w, n, h[n])}
<1>1. Shape(w) /\ w.nodes = DOMAIN t.node
  BY SoundFrame
<1>2. \A n \in DOMAIN t.node : h[n] = IF t.node[n].isLeaf THEN n ELSE h[t.node[n].child[1]]
  BY DEF IsLeftmost
<1>3. ASSUME NEW n \in w.nodes, w.level[n] = 0
      PROVE  n \in S
  <2>1. t.node[n].isLeaf
    BY <1>1, <1>3, SoundSees
  <2>2. h[n] = n
    BY <1>1, <1>2, <2>1
  <2> QED BY <1>3, <2>1, <2>2 DEF HasLeast, Leaf
<1>4. ASSUME NEW n \in w.nodes, w.level[n] # 0, \A k \in DOMAIN w.kids[n] : w.kids[n][k] \in S
      PROVE  n \in S
  <2>1. PICK nd : nd = t.node[n]
    OBVIOUS
  <2>2. ~nd.isLeaf /\ Len(nd.key) \in Nat /\ Len(nd.key) # 0
    BY <1>1, <1>4, <2>1, SoundNode
  <2>3. Pairs(w.kids[n], nd.key, nd.child)
    BY <1>1, <2>1, NodePairs
  <2>4. 1 \in 1..Len(nd.key)
    BY <2>2
  <2>5. PICK c : c = nd.child[1]
    OBVIOUS
  <2>6. nd.key[1] \in DOMAIN w.kids[n] /\ w.kids[n][nd.key[1]] = c
    BY <2>3, <2>4, <2>5 DEF Pairs
  <2>7. HasLeast(t, w, c, h[c])
    BY <1>4, <2>6
  <2>8. h[n] = h[c]
    BY <1>1, <1>2, <2>1, <2>2, <2>5
  <2>9. HasLeast(t, w, n, h[c])
    BY <1>1, <2>1, <2>2, <2>5, <2>7, LeastOfFirst
  <2> QED BY <2>8, <2>9
<1> HIDE DEF S
<1>5. w.nodes \subseteq S
  BY <1>1, <1>3, <1>4, FromLeaves
<1> QED BY <1>1, <1>5 DEF S

(* Leftmost is the leaf with the smallest key of the tree. *)
LEMMA LeftmostIs ==
  ASSUME NEW t, NEW w, Sound(t, w), NEW l, l = Leftmost(t)
  PROVE  HasLeast(t, w, t.Root, l)
<1>1. PICK h : h = CHOOSE g : IsLeftmost(g, t)
  OBVIOUS
<1>2. l = h[t.Root]
  BY <1>1 DEF Leftmost, IsLeftmost
<1>3. IsLeftmost(h, t)
  BY <1>1, LeftmostExists
<1> QED BY <1>2, <1>3, LeftmostLeads, SoundFrame

(* Its first record is the first one of the tree. *)
FirstPlace(t, l, e) == EntryAt(t, l, 1, e) /\ \A d \in EntriesOf(t) : ~(d[1] < e[1])

LEMMA LeftmostFirst ==
  ASSUME NEW t, NEW w, Sound(t, w), NEW l, l = Leftmost(t)
  PROVE  /\ t.node[l].key = <<>> => EntriesOf(t) = {}
         /\ t.node[l].key # <<>> => \E e : FirstPlace(t, l, e)
<1>1. Shape(w) /\ Branches(w) /\ w.nodes = DOMAIN t.node /\ t.Root \in DOMAIN t.node /\ w.root = t.Root
  BY SoundFrame, SoundBranches
<1>2. HasLeast(t, w, t.Root, l)
  BY LeftmostIs
<1>3. Leaf(w, l) /\ l \in DOMAIN t.node
  BY <1>1, <1>2 DEF HasLeast, Leaf
<1>4. PICK nd : nd = t.node[l]
  OBVIOUS
<1>5. nd.isLeaf /\ nd.key \in Seq(Keys) /\ Len(nd.key) \in Nat
  BY <1>3, <1>4, SoundNode DEF Leaf
<1>6. PICK rd : rd = t.node[t.Root]
  OBVIOUS
<1>7. ASSUME nd.key = <<>>
      PROVE  EntriesOf(t) = {}
  <2>1. Pairs(w.kids[l], nd.key, nd.child)
    BY <1>3, <1>4, NodePairs
  <2>2. DOMAIN w.kids[l] = {}
    BY <1>7, <2>1 DEF Pairs
  <2>3. ASSUME NEW e, e \in EntriesOf(t)
        PROVE  FALSE
    <3>1. PICK n, k : EntryAt(t, n, k, e)
      BY <2>3, EntryHasPlace
    <3>2. Leaf(w, n) /\ e[1] \in DOMAIN w.kids[n]
      BY <3>1, PlaceHasEntry
    <3>3. n # l
      BY <2>2, <3>2
    <3>4. \E j \in Int : LeastKey(w, l, j)
      BY <1>1, <1>3, <3>2, <3>3, TwoLeaves
    <3> QED BY <2>2, <3>4 DEF LeastKey, LeastOf
  <2> QED BY <2>3
<1>8. ASSUME nd.key # <<>>
      PROVE  \E e : FirstPlace(t, l, e)
  <2>1. 1 \in 1..Len(nd.key)
    <3>1. Len(nd.key) # 0
      BY <1>5, <1>8
    <3> QED BY <1>5, <3>1
  <2>2. PICK e : EntryAt(t, l, 1, e)
    BY <1>3, <1>4, <1>5, <2>1 DEF EntryAt
  <2>3. PICK k \in Int : k = nd.key[1] /\ k = e[1]
    BY <1>4, <2>2, PlaceHasEntry
  <2>4. LeastKey(w, l, k)
    <3>1. Len(nd.key) # 0
      BY <1>5, <1>8
    <3>2. LeastKey(w, l, nd.key[1])
      BY <1>3, <1>4, <3>1, NodeKids
    <3> QED BY <2>3, <3>2
  <2>5. LeastKey(w, t.Root, k)
    <3>1. CASE rd.isLeaf
      BY <1>2, <1>6, <2>4, <3>1 DEF HasLeast
    <3>2. CASE ~rd.isLeaf
      <4>1. LeastKey(w, l, rd.key[1])
        BY <1>2, <1>6, <3>2 DEF HasLeast
      <4>2. LeastKey(w, t.Root, rd.key[1]) /\ rd.key[1] \in Int
        <5>1. Len(rd.key) # 0 /\ Len(rd.key) \in Nat
          BY <1>1, <1>6, <3>2, SoundNode
        <5>2. 1 \in 1..Len(rd.key)
          BY <5>1
        <5> QED BY <1>1, <1>6, <5>1, <5>2, NodeKids
      <4>3. rd.key[1] = k
        BY <2>4, <4>1, <4>2, LeastSame
      <4> QED BY <4>2, <4>3
    <3> QED BY <3>1, <3>2
  <2>6. ASSUME NEW d \in EntriesOf(t)
        PROVE  ~(d[1] < e[1])
    <3>1. PICK n, j : EntryAt(t, n, j, d)
      BY <2>6, EntryHasPlace
    <3>2. PICK x \in Int : x = d[1] /\ Leaf(w, n) /\ x \in DOMAIN w.kids[n]
      BY <3>1, PlaceHasEntry
    <3>3. x \in w.area[t.Root]
      BY <1>1 DEF Shape
    <3>4. k <= x
      BY <1>1, <2>5, <3>2, <3>3, LeastBelow DEF Leaf, LeastKey
    <3> QED BY <2>3, <3>2, <3>4
  <2> QED BY <2>2, <2>6 DEF FirstPlace
<1> QED BY <1>4, <1>7, <1>8

-----------------------------------------------------------------------------
(* The scan.                                                               *)
CursorOf(n, k) == [bnode |-> n, index |-> k]

(* The cursor c after i calls: at the record that i - 1 others come before.*)
CursorAt(t, E, i, c) ==
  \/ (i = 0 \/ i = Cardinality(E) + 1) /\ c = Start
  \/ /\ i \in 1..Cardinality(E)
     /\ \E n, e : \E k \in Nat :
          c = CursorOf(n, k) /\ EntryAt(t, n, k, e) /\ CountOf(E, e[1]) = i - 1

(* A record is at one position. *)
LEMMA PlaceOnce ==
  ASSUME NEW t, NEW w, Sound(t, w), NEW e, NEW n, NEW k, EntryAt(t, n, k, e),
         NEW m, NEW j, EntryAt(t, m, j, e)
  PROVE  n = m /\ k = j
<1>1. Shape(w)
  BY SoundFrame
<1>2. Leaf(w, n) /\ e[1] \in DOMAIN w.kids[n] /\ t.node[n].key[k] = e[1] /\ e[1] \in Int
  BY PlaceHasEntry
<1>3. Leaf(w, m) /\ e[1] \in DOMAIN w.kids[m] /\ t.node[m].key[j] = e[1]
  BY PlaceHasEntry
<1>4. n = m
  BY <1>1, <1>2, <1>3, HeldInOne
<1>5. PICK nd : nd = t.node[n]
  OBVIOUS
<1>6. k \in 1..Len(nd.key) /\ j \in 1..Len(nd.key) /\ n \in DOMAIN t.node
  BY <1>4, <1>5 DEF EntryAt
<1>7. Ascending(nd.key) /\ Len(nd.key) \in Nat
  BY <1>5, <1>6, SoundNode
<1>8. ~(k < j) /\ ~(j < k)
  BY <1>2, <1>3, <1>4, <1>5, <1>6, <1>7 DEF Ascending
<1> QED BY <1>4, <1>6, <1>7, <1>8

(* So there is one such cursor, ... *)
LEMMA CursorOnce ==
  ASSUME NEW t, NEW w, Sound(t, w), NEW E, E = EntriesOf(t), Records(E), NEW i,
         NEW c, CursorAt(t, E, i, c), NEW d, CursorAt(t, E, i, d)
  PROVE  c = d
<1>1. PICK N \in Nat : N = Cardinality(E)
  BY CountIs
<1>2. CASE i = 0 \/ i = N + 1
  <2>1. ~(i \in 1..N)
    BY <1>2
  <2> QED BY <1>1, <2>1 DEF CursorAt
<1>3. CASE ~(i = 0 \/ i = N + 1)
  <2>1. PICK n, k, e : c = CursorOf(n, k) /\ EntryAt(t, n, k, e) /\ CountOf(E, e[1]) = i - 1
    BY <1>1, <1>3 DEF CursorAt
  <2>2. PICK m, j, f : d = CursorOf(m, j) /\ EntryAt(t, m, j, f) /\ CountOf(E, f[1]) = i - 1
    BY <1>1, <1>3 DEF CursorAt
  <2>3. e \in E /\ f \in E
    BY <2>1, <2>2, PlaceHasEntry
  <2>4. e = f
    BY <2>1, <2>2, <2>3, CountOnce
  <2>5. n = m /\ k = j
    BY <2>1, <2>2, <2>4, PlaceOnce
  <2> QED BY <2>1, <2>2, <2>5
<1> QED BY <1>2, <1>3

(* What a call does to the cursor. *)
LEMMA FromStart ==
  ASSUME NEW t, NEW c, c = NextRecord(t, Start), NEW l, l = Leftmost(t)
  PROVE  /\ t.node[l].key = <<>> => c = Start
         /\ t.node[l].key # <<>> => c = CursorOf(l, 1)
BY DEF NextRecord, Start, CursorOf

LEMMA FromPlace ==
  ASSUME NEW t, NEW n, n # NULL, NEW k \in Nat, NEW c, c = NextRecord(t, CursorOf(n, k))
  PROVE  /\ k + 1 <= Len(t.node[n].key) => c = CursorOf(n, k + 1)
         /\ ~(k + 1 <= Len(t.node[n].key)) => c = CursorOf(t.node[n].next, 1)
BY DEF NextRecord, CursorOf

(* The first call. *)
LEMMA FirstCall ==
  ASSUME NEW t, NEW w, Sound(t, w), NEW E, E = EntriesOf(t), Records(E),
         NEW c, c = NextRecord(t, Start)
  PROVE  CursorAt(t, E, 1, c)
<1>1. PICK l : l = Leftmost(t)
  OBVIOUS
<1>2. PICK N \in Nat : N = Cardinality(E)
  BY CountIs
<1>3. CASE t.node[l].key = <<>>
  <2>1. E = {} /\ c = Start
    BY <1>1, <1>3, LeftmostFirst, FromStart
  <2>2. N = 0
    BY <1>2, <2>1, FS_EmptySet
  <2> QED BY <1>2, <2>1, <2>2 DEF CursorAt
<1>4. CASE t.node[l].key # <<>>
  <2>1. c = CursorOf(l, 1)
    BY <1>1, <1>4, FromStart
  <2>2. PICK e : EntryAt(t, l, 1, e) /\ \A d \in E : ~(d[1] < e[1])
    BY <1>1, <1>4, LeftmostFirst DEF FirstPlace
  <2>3. e \in E
    BY <2>2, PlaceHasEntry
  <2>4. CountOf(E, e[1]) = 0
    <3>1. Earlier(E, e[1]) = {}
      BY <2>2 DEF Earlier
    <3> QED BY <3>1, FS_EmptySet DEF CountOf
  <2>5. 0 + 1 \in 1..N
    BY <1>2, <2>3, <2>4, CountIn
  <2>6. 1 \in 1..N /\ 0 = 1 - 1
    BY <2>5
  <2> QED BY <1>2, <2>1, <2>2, <2>4, <2>6 DEF CursorAt
<1> QED BY <1>3, <1>4

(* The record at a place is the one that as many come before as have been  *)
(* passed.                                                                 *)
LEMMA ArriveAt ==
  ASSUME NEW t, NEW w, Sound(t, w), NEW E, E = EntriesOf(t), Records(E), NEW i \in Nat,
         NEW n, n \in DOMAIN t.node, t.node[n].isLeaf, NEW k \in Nat, 1 <= k, k <= Len(t.node[n].key),
         Cardinality(PassedAt(t, n, k)) = i
  PROVE  CursorAt(t, E, i + 1, CursorOf(n, k))
<1>1. PICK e : EntryAt(t, n, k, e)
  <2>1. Len(t.node[n].key) \in Nat
    BY SoundNode
  <2>2. k \in 1..Len(t.node[n].key)
    BY <2>1
  <2> QED BY <2>2 DEF EntryAt
<1>2. CountOf(E, e[1]) = i
  BY <1>1, PassedCount
<1>3. e \in E
  BY <1>1, PlaceHasEntry
<1>4. i + 1 \in 1..Cardinality(E)
  BY <1>2, <1>3, CountIn
<1>5. (i + 1) - 1 = i
  OBVIOUS
<1> QED BY <1>1, <1>2, <1>4, <1>5 DEF CursorAt

(* ... and each call takes it to the next one. *)
LEMMA NextCall ==
  ASSUME NEW t, NEW w, Sound(t, w), NEW E, E = EntriesOf(t), Records(E), NEW i \in Nat, i <= Cardinality(E),
         NEW c, CursorAt(t, E, i, c), NEW c2, c2 = NextRecord(t, c)
  PROVE  CursorAt(t, E, i + 1, c2)
<1>1. PICK N \in Nat : N = Cardinality(E)
  BY CountIs
<1>2. CASE i = 0
  <2>1. c = Start
    BY <1>2 DEF CursorAt
  <2>2. CursorAt(t, E, 1, c2)
    BY <2>1, FirstCall
  <2>3. i + 1 = 1
    BY <1>2
  <2> QED BY <2>2, <2>3
<1>3. CASE i # 0
  <2>1. i # N + 1
    BY <1>1
  <2>0. PICK n, e : \E k \in Nat :
               c = CursorOf(n, k) /\ EntryAt(t, n, k, e) /\ CountOf(E, e[1]) = i - 1
    BY <1>1, <1>3, <2>1 DEF CursorAt
  <2>2. PICK k \in Nat : c = CursorOf(n, k) /\ EntryAt(t, n, k, e) /\ CountOf(E, e[1]) = i - 1
    BY <2>0
  <2>3. /\ n \in DOMAIN t.node /\ t.node[n].isLeaf
        /\ k \in 1..Len(t.node[n].key) /\ Len(t.node[n].key) \in Nat
    BY <2>2, SoundNode DEF EntryAt
  <2>4. k \in Nat /\ 1 <= k
    BY <2>3
  <2>5. Leaf(w, n) /\ n # NULL
    <3>1. Leaf(w, n)
      BY <2>2, PlaceHasEntry
    <3>2. n # NULL
      BY <2>3, SoundFrame
    <3> QED BY <3>1, <3>2
  <2>6. Cardinality(PassedAt(t, n, k + 1)) = i
    <3>1. EntryAt(t, n, k, e)
      BY <2>2
    <3>2. Cardinality(PassedAt(t, n, k + 1)) = CountOf(E, e[1]) + 1
      BY <2>4, <3>1, PassedBehind
    <3>3. (i - 1) + 1 = i
      OBVIOUS
    <3> QED BY <2>2, <3>2, <3>3
  <2>7. CASE k + 1 <= Len(t.node[n].key)
    <3>1. c2 = CursorOf(n, k + 1)
      BY <2>2, <2>4, <2>5, <2>7, FromPlace
    <3>2. k + 1 \in Nat /\ 1 <= k + 1
      BY <2>4
    <3>3. CursorAt(t, E, i + 1, CursorOf(n, k + 1))
      BY <2>3, <2>6, <2>7, <3>2, ArriveAt
    <3> QED BY <3>1, <3>3
  <2>8. CASE ~(k + 1 <= Len(t.node[n].key))
    <3>1. PICK m : m = t.node[n].next
      OBVIOUS
    <3>2. c2 = CursorOf(m, 1)
      BY <2>2, <2>4, <2>5, <2>8, <3>1, FromPlace
    <3>3. k + 1 \in Nat
      BY <2>4
    <3>4. CASE m = NULL
      <4>1. c2 = Start
        BY <3>2, <3>4 DEF CursorOf, Start
      <4>2. PassedAt(t, n, k + 1) = E
        BY <2>8, <3>1, <3>3, <3>4, PassedAll
      <4>3. i + 1 = Cardinality(E) + 1
        BY <2>6, <4>2
      <4> QED BY <4>1, <4>3 DEF CursorAt
    <3>5. CASE m # NULL
      <4>1. m \in DOMAIN t.node /\ t.node[m].isLeaf /\ 1 <= Len(t.node[m].key)
        BY <2>5, <3>1, <3>5, NextHasFirst
      <4>2. PassedAt(t, n, k + 1) = PassedAt(t, m, 1)
        BY <2>5, <2>8, <3>1, <3>3, <3>5, PassedTurn
      <4>3. CursorAt(t, E, i + 1, CursorOf(m, 1))
        BY <2>6, <4>1, <4>2, ArriveAt
      <4> QED BY <3>2, <4>3
    <3> QED BY <3>4, <3>5
  <2> QED BY <2>7, <2>8
<1> QED BY <1>2, <1>3

(* The cursors of a scan. *)
IsWalk(at, t, calls) ==
  at = [i \in 0..calls |-> IF i = 0 THEN Start ELSE NextRecord(t, at[i - 1])]

(* They are where they should be. *)
LEMMA WalkIs ==
  ASSUME NEW t, NEW w, Sound(t, w), NEW E, E = EntriesOf(t), Records(E),
         NEW N \in Nat, N = Cardinality(E), NEW at, IsWalk(at, t, N + 1)
  PROVE  \A i \in 0..N + 1 : CursorAt(t, E, i, at[i])
<1> DEFINE S == {i \in 0..N + 1 : CursorAt(t, E, i, at[i])}
<1>1. \A i \in 0..N + 1 : at[i] = IF i = 0 THEN Start ELSE NextRecord(t, at[i - 1])
  BY DEF IsWalk
<1>2. 0 \in S
  <2>1. at[0] = Start
    BY <1>1
  <2> QED BY <2>1 DEF CursorAt
<1>3. ASSUME NEW i \in 0..(N + 1) - 1, i \in S
      PROVE  i + 1 \in S
  <2>1. i \in Nat /\ i <= N /\ i + 1 \in 0..N + 1 /\ i + 1 # 0 /\ (i + 1) - 1 = i
    BY <1>3
  <2>2. at[i + 1] = NextRecord(t, at[i])
    BY <1>1, <2>1
  <2>3. CursorAt(t, E, i, at[i])
    BY <1>3
  <2>4. CursorAt(t, E, i + 1, at[i + 1])
    BY <2>1, <2>2, <2>3, NextCall
  <2> QED BY <2>1, <2>4
<1> HIDE DEF S
<1>4. N + 1 \in Nat
  OBVIOUS
<1>5. \A i \in 0..N + 1 : i \in S
  BY <1>2, <1>3, <1>4, UpTo
<1> QED BY <1>5 DEF S

(* There are such cursors. *)
LEMMA WalkExists ==
  ASSUME NEW t, NEW w, Sound(t, w), NEW E, E = EntriesOf(t), Records(E),
         NEW N \in Nat, N = Cardinality(E)
  PROVE  \E at : IsWalk(at, t, N + 1)
<1> DEFINE S == {i \in 0..N + 1 : \E c : CursorAt(t, E, i, c)}
<1>1. 0 \in S
  BY DEF CursorAt
<1>2. ASSUME NEW i \in 0..(N + 1) - 1, i \in S
      PROVE  i + 1 \in S
  <2>1. i \in Nat /\ i <= N /\ i + 1 \in 0..N + 1
    BY <1>2
  <2>2. PICK c : CursorAt(t, E, i, c)
    BY <1>2
  <2>3. CursorAt(t, E, i + 1, NextRecord(t, c))
    BY <2>1, <2>2, NextCall
  <2> QED BY <2>1, <2>3
<1> HIDE DEF S
<1>3. N + 1 \in Nat
  OBVIOUS
<1>4. \A i \in 0..N + 1 : i \in S
  BY <1>1, <1>2, <1>3, UpTo
<1>5. PICK at : at = [i \in 0..N + 1 |-> CHOOSE c : CursorAt(t, E, i, c)]
  OBVIOUS
<1>6. \A i \in 0..N + 1 : CursorAt(t, E, i, at[i])
  BY <1>4, <1>5 DEF S
<1>7. ASSUME NEW i \in 0..N + 1
      PROVE  at[i] = IF i = 0 THEN Start ELSE NextRecord(t, at[i - 1])
  <2>1. CASE i = 0
    <3>1. CursorAt(t, E, 0, at[0])
      BY <1>6, <2>1
    <3> QED BY <2>1, <3>1 DEF CursorAt
  <2>2. CASE i # 0
    <3>1. PICK j \in Nat : j = i - 1 /\ j + 1 = i /\ j <= N /\ j \in 0..N + 1
      BY <2>2
    <3>2. CursorAt(t, E, j, at[j])
      BY <1>6, <3>1
    <3>3. CursorAt(t, E, j + 1, NextRecord(t, at[j]))
      BY <3>1, <3>2, NextCall
    <3>4. CursorAt(t, E, i, at[i]) /\ CursorAt(t, E, i, NextRecord(t, at[j]))
      BY <1>6, <3>1, <3>3
    <3>5. at[i] = NextRecord(t, at[j])
      BY <3>4, CursorOnce
    <3> QED BY <2>2, <3>1, <3>5
  <2> QED BY <2>1, <2>2
<1>8. at = [i \in 0..N + 1 |-> IF i = 0 THEN Start ELSE NextRecord(t, at[i - 1])]
  BY <1>5, <1>7
<1> QED BY <1>8 DEF IsWalk

-----------------------------------------------------------------------------
(* What a scan gets.                                                       *)
LEMMA CursorGets ==
  ASSUME NEW t, NEW w, Sound(t, w), NEW E, E = EntriesOf(t), Records(E),
         NEW s, OrderOf(s, E), NEW i \in 1..Cardinality(E), NEW c, CursorAt(t, E, i, c)
  PROVE  c.bnode # NULL /\ t.node[c.bnode].child[c.index] = s[i] /\ s[i] \in E
<1>1. PICK N \in Nat : N = Cardinality(E)
  BY CountIs
<1>2. i # 0 /\ i # N + 1
  BY <1>1
<1>3. PICK n, e : \E k \in Nat :
             c = CursorOf(n, k) /\ EntryAt(t, n, k, e) /\ CountOf(E, e[1]) = i - 1
  BY <1>1, <1>2 DEF CursorAt
<1>4. PICK k \in Nat : c = CursorOf(n, k) /\ EntryAt(t, n, k, e) /\ CountOf(E, e[1]) = i - 1
  BY <1>3
<1>5. e \in E
  BY <1>4, PlaceHasEntry
<1>6. s[CountOf(E, e[1]) + 1] = e
  BY <1>5, OrderAt
<1>7. CountOf(E, e[1]) + 1 = i
  BY <1>1, <1>4
<1>8. c.bnode = n /\ c.index = k
  BY <1>4 DEF CursorOf
<1>9. n # NULL /\ t.node[n].child[k] = e
  BY <1>4, SoundFrame DEF EntryAt
<1> QED BY <1>5, <1>6, <1>7, <1>8, <1>9

(* The order is a sequence of the records. *)
LEMMA OrderIsSeq ==
  ASSUME NEW t, NEW w, Sound(t, w), NEW E, E = EntriesOf(t), Records(E), NEW s, OrderOf(s, E)
  PROVE  s \in Seq(E) /\ Len(s) = Cardinality(E)
<1>1. PICK N \in Nat : N = Cardinality(E)
  BY CountIs
<1>2. PICK at : IsWalk(at, t, N + 1)
  BY <1>1, WalkExists
<1>3. ASSUME NEW i \in 1..N
      PROVE  s[i] \in E
  <2>1. i \in 0..N + 1
    OBVIOUS
  <2>2. CursorAt(t, E, i, at[i])
    BY <1>1, <1>2, <2>1, WalkIs
  <2> QED BY <1>1, <2>2, CursorGets
<1>4. s = [i \in 1..N |-> s[i]]
  BY <1>1 DEF OrderOf
<1>5. s \in [1..N -> E]
  BY <1>3, <1>4
<1> QED BY <1>1, <1>5

(* The scan of the module. *)
ScanOf(at, t, calls) ==
  [i \in 1..calls |-> IF at[i].bnode = NULL THEN NoRecord ELSE t.node[at[i].bnode].child[at[i].index]]

LEMMA ScanGets ==
  ASSUME NEW t, NEW w, Sound(t, w), NEW E, E = EntriesOf(t), Records(E), NEW s, OrderOf(s, E),
         NEW N \in Nat, N = Cardinality(E), NEW at, IsWalk(at, t, N + 1),
         NEW g, g = ScanOf(at, t, N + 1)
  PROVE  g = Append(s, NoRecord)
<1>1. s \in Seq(E) /\ Len(s) = N
  BY OrderIsSeq
<1>2. \A i \in 0..N + 1 : CursorAt(t, E, i, at[i])
  BY WalkIs
<1>3. ASSUME NEW i \in 1..N
      PROVE  g[i] = s[i]
  <2>1. i \in 0..N + 1 /\ i \in 1..N + 1
    OBVIOUS
  <2>2. CursorAt(t, E, i, at[i])
    BY <1>2, <2>1
  <2>3. at[i].bnode # NULL /\ t.node[at[i].bnode].child[at[i].index] = s[i]
    BY <2>2, CursorGets
  <2> QED BY <2>1, <2>3 DEF ScanOf
<1>4. g[N + 1] = NoRecord
  <2>1. N + 1 \in 0..N + 1 /\ N + 1 \in 1..N + 1 /\ ~(N + 1 \in 1..N)
    OBVIOUS
  <2>2. CursorAt(t, E, N + 1, at[N + 1])
    BY <1>2, <2>1
  <2>3. at[N + 1] = Start
    BY <2>1, <2>2 DEF CursorAt
  <2>4. at[N + 1].bnode = NULL
    BY <2>3 DEF Start
  <2> QED BY <2>1, <2>4 DEF ScanOf
<1>5. PICK S : S = E \cup {NoRecord}
  OBVIOUS
<1>6. s \in Seq(S) /\ NoRecord \in S
  BY <1>1, <1>5
<1>7. PICK a : a = Append(s, NoRecord)
  OBVIOUS
<1>8. a \in Seq(S) /\ Len(a) = N + 1 /\ a[N + 1] = NoRecord /\ \A i \in 1..N : a[i] = s[i]
  BY <1>1, <1>6, <1>7, AppendProperties
<1>9. \A i \in 1..N + 1 : g[i] = a[i]
  <2>1. \A i \in 1..N + 1 : i \in 1..N \/ i = N + 1
    OBVIOUS
  <2> QED BY <1>3, <1>4, <1>8, <2>1
<1>10. g = [i \in 1..N + 1 |-> g[i]]
  BY DEF ScanOf
<1>11. a = [i \in 1..N + 1 |-> a[i]]
  BY <1>8
<1> QED BY <1>7, <1>9, <1>10, <1>11

-----------------------------------------------------------------------------
(* Ranges.                                                                 *)
(* A part of a sequence, and its first element. *)
LEMMA SubSeqStep ==
  ASSUME NEW S, NEW s \in Seq(S), NEW a \in Nat, NEW b \in Nat, 1 <= a, a <= b, b <= Len(s)
  PROVE  <<s[a]>> \o SubSeq(s, a + 1, b) = SubSeq(s, a, b)
<1>1. PICK p : p = SubSeq(s, a, b)
  OBVIOUS
<1>2. PICK q : q = SubSeq(s, a + 1, b)
  OBVIOUS
<1>3. p \in Seq(S) /\ Len(p) = (b - a) + 1 /\ \A i \in 1..(b - a) + 1 : p[i] = s[(a + i) - 1]
  BY <1>1, SubSeqProperties
<1>4. q \in Seq(S) /\ Len(q) = b - a /\ \A i \in 1..b - a : q[i] = s[a + i]
  <2>1. CASE a + 1 <= b
    <3>1. a + 1 \in 1..Len(s) /\ b \in a + 1..Len(s)
      BY <2>1
    <3>2. q \in Seq(S) /\ Len(q) = b - a
      BY <1>2, <3>1, SubSeqProperties
    <3>3. \A i \in 1..b - a : q[i] = s[((a + 1) + i) - 1]
      BY <1>2, <3>1, SubSeqProperties
    <3> QED BY <3>2, <3>3
  <2>2. CASE ~(a + 1 <= b)
    <3>1. q = <<>>
      BY <1>2, <2>2
    <3> QED BY <2>2, <3>1
  <2> QED BY <2>1, <2>2
<1>5. s[a] \in S
  BY ElementOfSeq
<1>6. PICK h : h = <<s[a]>> \o q
  OBVIOUS
<1>7. h \in Seq(S) /\ Len(h) = (b - a) + 1 /\ h[1] = s[a] /\ \A i \in 1..b - a : h[i + 1] = q[i]
  <2>1. PICK o : o = <<s[a]>>
    OBVIOUS
  <2>2. o \in Seq(S) /\ Len(o) = 1 /\ o[1] = s[a]
    BY <1>5, <2>1
  <2>3. h = o \o q
    BY <1>6, <2>1
  <2>3a. o \in Seq(S) /\ q \in Seq(S)
    BY <1>4, <2>2
  <2>3b. /\ o \o q \in Seq(S)
         /\ Len(o \o q) = Len(o) + Len(q)
         /\ \A i \in 1..Len(o) + Len(q) : (o \o q)[i] = IF i <= Len(o) THEN o[i] ELSE q[i - Len(o)]
    BY <2>3a, ConcatProperties
  <2>4. h \in Seq(S) /\ Len(h) = 1 + (b - a)
    BY <1>4, <2>2, <2>3, <2>3b
  <2>5. \A i \in 1..1 + (b - a) : h[i] = IF i <= 1 THEN o[i] ELSE q[i - 1]
    BY <1>4, <2>2, <2>3, <2>3b
  <2>6. h[1] = s[a]
    BY <2>2, <2>5
  <2>7. ASSUME NEW i \in 1..b - a
        PROVE  h[i + 1] = q[i]
    <3>1. i + 1 \in 1..1 + (b - a) /\ ~(i + 1 <= 1) /\ (i + 1) - 1 = i
      OBVIOUS
    <3>2. h[i + 1] = q[(i + 1) - 1]
      BY <2>5, <3>1
    <3> QED BY <3>1, <3>2
  <2> QED BY <2>4, <2>6, <2>7
<1>8. ASSUME NEW i \in 1..(b - a) + 1
      PROVE  h[i] = p[i]
  <2>1. CASE i = 1
    BY <1>3, <1>7, <2>1
  <2>2. CASE i # 1
    <3>1. PICK j \in 1..b - a : j + 1 = i
      <4>1. i - 1 \in 1..b - a /\ (i - 1) + 1 = i
        BY <2>2
      <4> QED BY <4>1
    <3>2. h[i] = q[j] /\ q[j] = s[a + j]
      BY <1>4, <1>7, <3>1
    <3>3. p[i] = s[(a + i) - 1]
      BY <1>3
    <3>4. (a + i) - 1 = a + j
      BY <3>1
    <3> QED BY <3>2, <3>3, <3>4
  <2> QED BY <2>1, <2>2
<1>9. h = p
  BY <1>3, <1>7, <1>8
<1> QED BY <1>1, <1>2, <1>6, <1>9

(* The recursion of RangeFrom. *)
Places(t) == {n \in DOMAIN t.node : t.node[n].isLeaf} \X (1 .. MaxChildNumber + 1)
IsRange(f, t, r) ==
  f = [at \in Places(t) |->
        IF at[2] > Len(t.node[at[1]].key)
          THEN IF t.node[at[1]].next = NULL THEN <<>> ELSE f[<<t.node[at[1]].next, 1>>]
        ELSE IF t.node[at[1]].key[at[2]] > r THEN <<>>
        ELSE <<t.node[at[1]].child[at[2]]>> \o f[<<at[1], at[2] + 1>>]]

(* RangeFrom is what a solution of it has at the first position. *)
LEMMA RangeFromIs ==
  ASSUME NEW t, NEW first, NEW i, NEW r
  PROVE  RangeFrom(t, first, i, r) = (CHOOSE f : IsRange(f, t, r))[<<first, i>>]
BY DEF RangeFrom, IsRange, Places

(* One turn: here is what is gathered from position k of leaf n on, turn   *)
(* what is from the next leaf on, and behind what is from the next         *)
(* position on.                                                            *)
RangeTurn(t, r, n, k, here, turn, behind) ==
  here = IF k > Len(t.node[n].key) THEN IF t.node[n].next = NULL THEN <<>> ELSE turn
         ELSE IF t.node[n].key[k] > r THEN <<>>
         ELSE <<t.node[n].child[k]>> \o behind
RangeTurns(f, t, r) ==
  \A n \in DOMAIN t.node : \A k \in 1 .. MaxChildNumber + 1 : t.node[n].isLeaf =>
    RangeTurn(t, r, n, k, f[<<n, k>>], f[<<t.node[n].next, 1>>], f[<<n, k + 1>>])

(* A solution takes these turns. *)
LEMMA RangeHasTurns ==
  ASSUME NEW t, NEW r, NEW f, IsRange(f, t, r)
  PROVE  RangeTurns(f, t, r)
<1> SUFFICES ASSUME NEW n \in DOMAIN t.node, NEW k \in 1 .. MaxChildNumber + 1, t.node[n].isLeaf
             PROVE  RangeTurn(t, r, n, k, f[<<n, k>>], f[<<t.node[n].next, 1>>], f[<<n, k + 1>>])
  BY DEF RangeTurns
<1>1. <<n, k>> \in Places(t) /\ <<n, k>>[1] = n /\ <<n, k>>[2] = k
  BY DEF Places
<1>2. PICK at : at = <<n, k>>
  OBVIOUS
<1>3. at \in Places(t) /\ at[1] = n /\ at[2] = k
  BY <1>1, <1>2
<1>4. f[at] = IF at[2] > Len(t.node[at[1]].key)
          THEN IF t.node[at[1]].next = NULL THEN <<>> ELSE f[<<t.node[at[1]].next, 1>>]
        ELSE IF t.node[at[1]].key[at[2]] > r THEN <<>>
        ELSE <<t.node[at[1]].child[at[2]]>> \o f[<<at[1], at[2] + 1>>]
  BY <1>3 DEF IsRange
<1>5. f[at] = IF k > Len(t.node[n].key)
          THEN IF t.node[n].next = NULL THEN <<>> ELSE f[<<t.node[n].next, 1>>]
        ELSE IF t.node[n].key[k] > r THEN <<>>
        ELSE <<t.node[n].child[k]>> \o f[<<n, k + 1>>]
  BY <1>3, <1>4
<1> QED BY <1>2, <1>5 DEF RangeTurn

(* The part of the order s from position k of leaf n on, up to record up.  *)
Part(t, s, up, n, k) == SubSeq(s, Cardinality(PassedAt(t, n, k)) + 1, up)

(* How many are passed. *)
LEMMA PassedIs ==
  ASSUME NEW t, NEW E, E = EntriesOf(t), Records(E), NEW n, NEW k \in Nat,
         NEW N \in Nat, N = Cardinality(E)
  PROVE  Cardinality(PassedAt(t, n, k)) \in Nat /\ Cardinality(PassedAt(t, n, k)) <= N
<1>1. PICK P : P = PassedAt(t, n, k)
  OBVIOUS
<1>2. P \subseteq E
  BY <1>1 DEF PassedAt
<1>3. IsFiniteSet(E)
  BY DEF Records
<1>4. IsFiniteSet(P)
  BY <1>2, <1>3, FS_Subset
<1>5. Cardinality(P) <= Cardinality(E) /\ Cardinality(P) \in Nat
  BY <1>2, <1>3, <1>4, FS_Subset, FS_CardinalityType
<1> QED BY <1>1, <1>5

(* The parts take the turns of RangeFrom. *)
LEMMA PartTurns ==
  ASSUME NEW t, NEW w, Sound(t, w), NEW E, E = EntriesOf(t), Records(E),
         NEW s, OrderOf(s, E), NEW r \in Int, NEW up \in Nat, up = CountOf(E, r + 1),
         NEW n, Leaf(w, n), NEW k \in Nat, 1 <= k, NEW m, m = t.node[n].next
  PROVE  RangeTurn(t, r, n, k, Part(t, s, up, n, k), Part(t, s, up, m, 1), Part(t, s, up, n, k + 1))
<1>1. PICK N \in Nat : N = Cardinality(E)
  BY CountIs
<1>2. s \in Seq(E) /\ Len(s) = N
  BY <1>1, OrderIsSeq
<1>3. PICK c \in Nat : c = Cardinality(PassedAt(t, n, k))
  BY <1>1, PassedIs
<1>4. PICK here : here = SubSeq(s, c + 1, up)
  OBVIOUS
<1>5. here = Part(t, s, up, n, k)
  BY <1>3, <1>4 DEF Part
<1>6. up <= N
  BY <1>1, CountIs
<1>7. up < c + 1 => here = <<>>
  BY <1>4, SubSeqEmpty
<1>8. n \in DOMAIN t.node /\ t.node[n].isLeaf
  BY LeafIs
<1>9. Len(t.node[n].key) \in Nat
  BY <1>8, SoundNode
<1>10. CASE ~(k <= Len(t.node[n].key))
  <2>1. k > Len(t.node[n].key)
    BY <1>9, <1>10
  <2>2. CASE m = NULL
    <3>1. PassedAt(t, n, k) = E
      BY <1>10, <2>2, PassedAll
    <3>2. c = N
      BY <1>1, <1>3, <3>1
    <3>3. here = <<>>
      BY <1>6, <1>7, <3>2
    <3> QED BY <1>5, <2>1, <2>2, <3>3 DEF RangeTurn
  <2>3. CASE m # NULL
    <3>1. PassedAt(t, n, k) = PassedAt(t, m, 1)
      BY <1>10, <2>3, PassedTurn
    <3>2. Part(t, s, up, n, k) = Part(t, s, up, m, 1)
      BY <3>1 DEF Part
    <3> QED BY <2>1, <2>3, <3>2 DEF RangeTurn
  <2> QED BY <2>2, <2>3
<1>11. CASE k <= Len(t.node[n].key)
  <2>1. ~(k > Len(t.node[n].key))
    BY <1>9, <1>11
  <2>2. PICK e : e = t.node[n].child[k]
    OBVIOUS
  <2>3. EntryAt(t, n, k, e)
    BY <1>8, <1>9, <1>11, <2>2 DEF EntryAt
  <2>4. e \in E /\ t.node[n].key[k] = e[1] /\ e[1] \in Int
    BY <2>3, PlaceHasEntry
  <2>5. c = CountOf(E, e[1])
    BY <1>3, <2>3, PassedCount
  <2>6. PICK x \in Int : x = e[1]
    BY <2>4
  <2>7. CASE x > r
    <3>1. Earlier(E, r + 1) \subseteq Earlier(E, x)
      <4>1. \A d \in E : d[1] \in Int
        BY DEF Records
      <4> QED BY <2>7, <4>1 DEF Earlier
    <3>2. up <= c
      <4>1. IsFiniteSet(Earlier(E, x))
        BY CountIs
      <4>2. Cardinality(Earlier(E, r + 1)) <= Cardinality(Earlier(E, x))
        BY <3>1, <4>1, FS_Subset
      <4> QED BY <2>5, <2>6, <4>2 DEF CountOf
    <3>3. here = <<>>
      BY <1>7, <3>2
    <3> QED BY <1>5, <2>1, <2>4, <2>6, <2>7, <3>3 DEF RangeTurn
  <2>8. CASE ~(x > r)
    <3>1. c + 1 <= up
      <4>1. \A d \in E : d[1] \in Int
        BY DEF Records
      <4>2. PICK S : S = Earlier(E, r + 1)
        OBVIOUS
      <4>3. S \subseteq E /\ e \in S
        BY <2>4, <2>6, <2>8, <4>2 DEF Earlier
      <4>4. \A d \in E : d[1] < e[1] => d \in S
        BY <2>6, <2>8, <4>1, <4>2 DEF Earlier
      <4>5. CountOf(E, e[1]) + 1 <= Cardinality(S)
        BY <2>4, <4>3, <4>4, CountLess
      <4> QED BY <2>5, <4>2, <4>5 DEF CountOf
    <3>2. s[c + 1] = e
      BY <2>4, <2>5, OrderAt
    <3>3. PICK a \in Nat : a = c + 1
      OBVIOUS
    <3>4. <<s[a]>> \o SubSeq(s, a + 1, up) = SubSeq(s, a, up)
      <4>1. 1 <= a /\ a <= up /\ up <= Len(s)
        BY <1>2, <1>6, <3>1, <3>3
      <4> QED BY <1>2, <4>1, SubSeqStep
    <3>5. PICK j \in Nat : j = k + 1
      OBVIOUS
    <3>6. Cardinality(PassedAt(t, n, j)) = a
      BY <2>3, <2>5, <3>3, <3>5, PassedBehind
    <3>7. Part(t, s, up, n, k + 1) = SubSeq(s, a + 1, up)
      BY <3>5, <3>6 DEF Part
    <3>8. here = <<e>> \o Part(t, s, up, n, k + 1)
      BY <1>4, <3>2, <3>3, <3>4, <3>7
    <3> QED BY <1>5, <2>1, <2>2, <2>4, <2>6, <2>8, <3>8 DEF RangeTurn
  <2> QED BY <2>7, <2>8
<1> QED BY <1>10, <1>11

(* The recursion has a solution. *)
LEMMA RangeExists ==
  ASSUME NEW t, NEW w, Sound(t, w), AllSized(t), NEW E, E = EntriesOf(t), Records(E),
         NEW s, OrderOf(s, E), NEW r \in Int
  PROVE  \E f : IsRange(f, t, r)
<1>1. PICK up \in Nat : up = CountOf(E, r + 1)
  BY CountIs
<1>2. PICK f : f = [at \in Places(t) |-> Part(t, s, up, at[1], at[2])]
  OBVIOUS
<1>3. ASSUME NEW n \in DOMAIN t.node, t.node[n].isLeaf, NEW k \in 1..MaxChildNumber + 1
      PROVE  f[<<n, k>>] = Part(t, s, up, n, k)
  <2>1. PICK at : at = <<n, k>>
    OBVIOUS
  <2>2. at \in Places(t) /\ at[1] = n /\ at[2] = k
    BY <1>3, <2>1 DEF Places
  <2>3. f[at] = Part(t, s, up, at[1], at[2])
    BY <1>2, <2>2
  <2> QED BY <2>1, <2>2, <2>3
<1>4. ASSUME NEW at \in Places(t)
      PROVE  f[at] = IF at[2] > Len(t.node[at[1]].key)
          THEN IF t.node[at[1]].next = NULL THEN <<>> ELSE f[<<t.node[at[1]].next, 1>>]
        ELSE IF t.node[at[1]].key[at[2]] > r THEN <<>>
        ELSE <<t.node[at[1]].child[at[2]]>> \o f[<<at[1], at[2] + 1>>]
  <2>1. PICK n : n = at[1]
    OBVIOUS
  <2>2. PICK k : k = at[2]
    OBVIOUS
  <2>3. n \in DOMAIN t.node /\ t.node[n].isLeaf /\ k \in 1..MaxChildNumber + 1 /\ k \in Nat /\ 1 <= k
    BY <2>1, <2>2, TreeConstants DEF Places
  <2>4. PICK m : m = t.node[n].next
    OBVIOUS
  <2>5. Leaf(w, n)
    BY <2>3, SoundNode DEF Leaf
  <2>6. RangeTurn(t, r, n, k, Part(t, s, up, n, k), Part(t, s, up, m, 1), Part(t, s, up, n, k + 1))
    BY <1>1, <2>3, <2>4, <2>5, PartTurns
  <2>7. f[at] = Part(t, s, up, n, k)
    BY <1>2, <2>1, <2>2
  <2>8. m # NULL => f[<<m, 1>>] = Part(t, s, up, m, 1)
    <3>1. 1 \in 1..MaxChildNumber + 1
      BY TreeConstants
    <3>2. m # NULL => m \in DOMAIN t.node /\ t.node[m].isLeaf
      BY <2>4, <2>5, NextHasFirst
    <3> QED BY <1>3, <3>1, <3>2
  <2>9. ~(k > Len(t.node[n].key)) => f[<<n, k + 1>>] = Part(t, s, up, n, k + 1)
    <3>1. Len(t.node[n].key) \in Nat /\ Len(t.node[n].key) < MaxChildNumber /\ MaxChildNumber \in Nat
      BY <2>3, SoundNode, TreeConstants DEF AllSized, SizedAt
    <3>2. ~(k > Len(t.node[n].key)) => k + 1 \in 1..MaxChildNumber + 1
      BY <2>3, <3>1
    <3> QED BY <1>3, <2>3, <3>2
  <2>10. RangeTurn(t, r, n, k, f[at], f[<<m, 1>>], f[<<n, k + 1>>])
    BY <2>4, <2>6, <2>7, <2>8, <2>9 DEF RangeTurn
  <2> QED BY <2>1, <2>2, <2>4, <2>10 DEF RangeTurn
<1>5. f = [at \in Places(t) |-> f[at]]
  BY <1>2
<1> QED BY <1>4, <1>5 DEF IsRange

(* Where at most i records are left, f has the part of the order.          *)
RightFrom(f, t, s, up, i) ==
  \A n \in DOMAIN t.node : \A k \in 1..MaxChildNumber + 1 :
    t.node[n].isLeaf /\ Cardinality(EntriesOf(t)) - Cardinality(PassedAt(t, n, k)) < i
      => f[<<n, k>>] = Part(t, s, up, n, k)

(* Two values that take the same turn are the same. *)
LEMMA SameTurn ==
  ASSUME NEW t, NEW r, NEW n, NEW k, NEW a, NEW a1, NEW a2, RangeTurn(t, r, n, k, a, a1, a2),
         NEW b, NEW b1, NEW b2, RangeTurn(t, r, n, k, b, b1, b2),
         k > Len(t.node[n].key) /\ t.node[n].next # NULL => a1 = b1,
         ~(k > Len(t.node[n].key)) /\ ~(t.node[n].key[k] > r) => a2 = b2
  PROVE  a = b
BY DEF RangeTurn

(* From a record on, one fewer is left behind it. *)
LEMMA RightAtRecord ==
  ASSUME NEW t, NEW w, Sound(t, w), AllSized(t), NEW E, E = EntriesOf(t), Records(E),
         NEW s, OrderOf(s, E), NEW r \in Int, NEW up \in Nat, up = CountOf(E, r + 1),
         NEW f, RangeTurns(f, t, r), NEW i \in Nat, RightFrom(f, t, s, up, i),
         NEW n, Leaf(w, n), NEW k \in Nat, 1 <= k, k <= Len(t.node[n].key),
         Cardinality(E) - Cardinality(PassedAt(t, n, k)) < i + 1
  PROVE  f[<<n, k>>] = Part(t, s, up, n, k)
<1>1. n \in DOMAIN t.node /\ t.node[n].isLeaf
  BY LeafIs
<1>2. Len(t.node[n].key) \in Nat /\ Len(t.node[n].key) < MaxChildNumber /\ MaxChildNumber \in Nat
  BY <1>1, SoundNode, TreeConstants DEF AllSized, SizedAt
<1>3. PICK j \in Nat : j = k + 1 /\ j \in 1..MaxChildNumber + 1 /\ k \in 1..MaxChildNumber + 1
  BY <1>2
<1>4. PICK m : m = t.node[n].next
  OBVIOUS
<1>5. PICK N \in Nat : N = Cardinality(E)
  BY CountIs
<1>6. f[<<n, j>>] = Part(t, s, up, n, j)
  <2>1. PICK e : e = t.node[n].child[k]
    OBVIOUS
  <2>2. EntryAt(t, n, k, e)
    BY <1>1, <1>2, <2>1 DEF EntryAt
  <2>3. Cardinality(PassedAt(t, n, k)) = CountOf(E, e[1])
    BY <2>2, PassedCount
  <2>4. Cardinality(PassedAt(t, n, j)) = CountOf(E, e[1]) + 1
    BY <1>3, <2>2, PassedBehind
  <2>5. CountOf(E, e[1]) \in Nat
    BY CountIs
  <2>6. N - Cardinality(PassedAt(t, n, j)) < i
    BY <1>5, <2>3, <2>4, <2>5
  <2>7. Cardinality(EntriesOf(t)) = N
    BY <1>5
  <2> QED BY <1>1, <1>3, <2>6, <2>7 DEF RightFrom
<1>7. RangeTurn(t, r, n, k, f[<<n, k>>], f[<<m, 1>>], f[<<n, j>>])
  BY <1>1, <1>3, <1>4 DEF RangeTurns
<1>8. RangeTurn(t, r, n, k, Part(t, s, up, n, k), Part(t, s, up, m, 1), Part(t, s, up, n, j))
  BY <1>3, <1>4, PartTurns
<1>9. ~(k > Len(t.node[n].key))
  BY <1>2
<1> QED BY <1>6, <1>7, <1>8, <1>9, SameTurn

(* So it is with one record more. *)
LEMMA RightStep ==
  ASSUME NEW t, NEW w, Sound(t, w), AllSized(t), NEW E, E = EntriesOf(t), Records(E),
         NEW s, OrderOf(s, E), NEW r \in Int, NEW up \in Nat, up = CountOf(E, r + 1),
         NEW f, RangeTurns(f, t, r), NEW i \in Nat, RightFrom(f, t, s, up, i)
  PROVE  RightFrom(f, t, s, up, i + 1)
<1> SUFFICES ASSUME NEW n \in DOMAIN t.node, NEW k \in 1..MaxChildNumber + 1, t.node[n].isLeaf,
                    Cardinality(EntriesOf(t)) - Cardinality(PassedAt(t, n, k)) < i + 1
             PROVE  f[<<n, k>>] = Part(t, s, up, n, k)
  BY DEF RightFrom
<1>1. Leaf(w, n)
  BY SoundNode DEF Leaf
<1>2. k \in Nat /\ 1 <= k /\ 1 \in 1..MaxChildNumber + 1
  BY TreeConstants
<1>3. Len(t.node[n].key) \in Nat
  BY SoundNode
<1>4. Cardinality(E) - Cardinality(PassedAt(t, n, k)) < i + 1
  OBVIOUS
<1>5. CASE k <= Len(t.node[n].key)
  BY <1>1, <1>2, <1>4, <1>5, RightAtRecord
<1>6. CASE ~(k <= Len(t.node[n].key))
  <2>1. PICK m : m = t.node[n].next
    OBVIOUS
  <2>2. PICK j \in Nat : j = k + 1
    BY <1>2
  <2>3. RangeTurn(t, r, n, k, f[<<n, k>>], f[<<m, 1>>], f[<<n, j>>])
    BY <2>1, <2>2 DEF RangeTurns
  <2>4. RangeTurn(t, r, n, k, Part(t, s, up, n, k), Part(t, s, up, m, 1), Part(t, s, up, n, j))
    BY <1>1, <1>2, <2>1, <2>2, PartTurns
  <2>5. k > Len(t.node[n].key)
    BY <1>2, <1>3, <1>6
  <2>6. ASSUME m # NULL
        PROVE  f[<<m, 1>>] = Part(t, s, up, m, 1)
    <3>1. Leaf(w, m) /\ Len(t.node[m].key) \in Nat /\ 1 <= Len(t.node[m].key)
      BY <1>1, <2>1, <2>6, NextHasFirst
    <3>2. PassedAt(t, n, k) = PassedAt(t, m, 1)
      BY <1>1, <1>2, <1>6, <2>1, <2>6, PassedTurn
    <3>3. Cardinality(E) - Cardinality(PassedAt(t, m, 1)) < i + 1
      BY <1>4, <3>2
    <3>4. 1 \in Nat /\ 1 <= 1
      OBVIOUS
    <3> QED BY <3>1, <3>3, <3>4, RightAtRecord
  <2> QED BY <2>1, <2>3, <2>4, <2>5, <2>6, SameTurn
<1> QED BY <1>5, <1>6

(* Every solution of the recursion has the part of the order. *)
LEMMA RangeOnce ==
  ASSUME NEW t, NEW w, Sound(t, w), AllSized(t), NEW E, E = EntriesOf(t), Records(E),
         NEW s, OrderOf(s, E), NEW r \in Int, NEW up \in Nat, up = CountOf(E, r + 1),
         NEW f, RangeTurns(f, t, r),
         NEW n, Leaf(w, n), NEW k \in 1..MaxChildNumber + 1
  PROVE  f[<<n, k>>] = Part(t, s, up, n, k)
<1>1. PICK N \in Nat : N = Cardinality(E)
  BY CountIs
<1>2. PICK S : S = {i \in Nat : RightFrom(f, t, s, up, i)}
  OBVIOUS
<1>3. ASSUME NEW m \in DOMAIN t.node, NEW j \in 1..MaxChildNumber + 1
      PROVE  /\ Cardinality(PassedAt(t, m, j)) \in Nat /\ Cardinality(PassedAt(t, m, j)) <= N
             /\ N = Cardinality(EntriesOf(t))
  <2>1. j \in Nat
    BY TreeConstants
  <2> QED BY <1>1, <2>1, PassedIs
<1>4. 0 \in S
  <2>1. ASSUME NEW m \in DOMAIN t.node, NEW j \in 1..MaxChildNumber + 1
        PROVE  ~(Cardinality(EntriesOf(t)) - Cardinality(PassedAt(t, m, j)) < 0)
    BY <1>3
  <2>2. RightFrom(f, t, s, up, 0)
    BY <2>1 DEF RightFrom
  <2> QED BY <1>2, <2>2
<1>5. ASSUME NEW i \in 0..(N + 1) - 1, i \in S
      PROVE  i + 1 \in S
  <2>1. i \in Nat /\ RightFrom(f, t, s, up, i)
    BY <1>2, <1>5
  <2>2. RightFrom(f, t, s, up, i + 1)
    BY <2>1, RightStep
  <2> QED BY <1>2, <2>1, <2>2
<1>6. N + 1 \in S
  <2>1. N + 1 \in Nat /\ N + 1 \in 0..N + 1
    OBVIOUS
  <2>2. \A i \in 0..N + 1 : i \in S
    BY <1>4, <1>5, <2>1, UpTo
  <2> QED BY <2>1, <2>2
<1>7. n \in DOMAIN t.node /\ t.node[n].isLeaf
  BY LeafIs
<1>8. Cardinality(EntriesOf(t)) - Cardinality(PassedAt(t, n, k)) < N + 1
  BY <1>3, <1>7
<1>9. RightFrom(f, t, s, up, N + 1)
  BY <1>2, <1>6
<1> QED BY <1>7, <1>8, <1>9 DEF RightFrom

(* What RangeFrom gathers. *)
LEMMA RangeGathers ==
  ASSUME NEW t, NEW w, Sound(t, w), AllSized(t), NEW E, E = EntriesOf(t), Records(E),
         NEW s, OrderOf(s, E), NEW r \in Int, NEW up \in Nat, up = CountOf(E, r + 1),
         NEW n, Leaf(w, n), NEW k \in 1..MaxChildNumber + 1
  PROVE  RangeFrom(t, n, k, r) = Part(t, s, up, n, k)
<1>2. PICK f : f = CHOOSE h : IsRange(h, t, r)
  OBVIOUS
<1>3. IsRange(f, t, r)
  BY <1>2, RangeExists
<1>4. RangeTurns(f, t, r)
  BY <1>3, RangeHasTurns
<1>5. f[<<n, k>>] = Part(t, s, up, n, k)
  BY <1>4, RangeOnce
<1>6. RangeFrom(t, n, k, r) = f[<<n, k>>]
  BY <1>2, RangeFromIs
<1> QED BY <1>5, <1>6

(* Where a range begins: at the first key of its leaf that is not smaller, *)
(* or behind the leaf.                                                     *)
FirstFrom(ks, l, i) ==
  /\ i \in 1..Len(ks) + 1
  /\ \A j \in 1..Len(ks) : j < i => ks[j] < l
  /\ i <= Len(ks) => l <= ks[i]

(* What was passed there are the records before it. *)
LEMMA BeginsAt ==
  ASSUME NEW t, NEW w, Sound(t, w), AllSized(t), NEW E, E = EntriesOf(t), Records(E),
         NEW l \in Int, NEW n, n = Find(t, l), NEW i, FirstFrom(t.node[n].key, l, i)
  PROVE  /\ Leaf(w, n) /\ i \in 1..MaxChildNumber + 1
         /\ Cardinality(PassedAt(t, n, i)) = CountOf(E, l)
<1>1. Leaf(w, n) /\ l \in w.area[n]
  BY FindIs
<1>2. n \in DOMAIN t.node /\ t.node[n].isLeaf
  BY <1>1, LeafIs
<1>3. PICK ks : ks = t.node[n].key
  OBVIOUS
<1>4. ks \in Seq(Keys) /\ Len(ks) \in Nat /\ Len(ks) < MaxChildNumber /\ MaxChildNumber \in Nat
  BY <1>2, <1>3, SoundNode, TreeConstants DEF AllSized, SizedAt
<1>5. i \in 1..Len(ks) + 1 /\ i \in Nat /\ i \in 1..MaxChildNumber + 1
  BY <1>3, <1>4 DEF FirstFrom
<1>6. Shape(w) /\ Branches(w) /\ Linked(w)
  BY SoundFrame, SoundBranches
<1>7. /\ \A j \in 1..Len(ks) : ks[j] \in Int /\ ks[j] \in DOMAIN w.kids[n]
      /\ \A k \in DOMAIN w.kids[n] : \E j \in 1..Len(ks) : ks[j] = k
  BY <1>2, <1>3, NodeKids
<1>8. ASSUME NEW d \in E
      PROVE  Passed(t, n, i, d[1]) <=> d[1] < l
  <2>1. PICK m, k : EntryAt(t, m, k, d)
    BY <1>8, EntryHasPlace
  <2>2. PICK x \in Int : x = d[1]
    BY <2>1, PlaceHasEntry
  <2>3. Leaf(w, m) /\ x \in DOMAIN w.kids[m]
    BY <2>1, <2>2, PlaceHasEntry
  <2>4. NotBehind(w, n, x) <=> x < l \/ x \in DOMAIN w.kids[n]
    BY <1>1, <1>6, <2>3, NotBehindIs
  <2>5. CASE i <= Len(ks)
    <3>1. i \in 1..Len(ks) /\ l <= ks[i] /\ ks[i] \in Int /\ ks[i] \in DOMAIN w.kids[n]
      BY <1>3, <1>5, <1>7, <2>5 DEF FirstFrom
    <3>2. Passed(t, n, i, x) <=> x < ks[i]
      BY <1>3, <2>5 DEF Passed
    <3>3. NotBehind(w, n, ks[i])
      BY <1>1, <1>6, <3>1, NotBehindIs
    <3>4. ASSUME x < ks[i]
          PROVE  x < l
      <4>1. NotBehind(w, n, x)
        BY <3>1, <3>3, <3>4 DEF NotBehind
      <4>2. ASSUME x \in DOMAIN w.kids[n]
            PROVE  x < l
        <5>1. PICK j \in 1..Len(ks) : ks[j] = x
          BY <1>7, <4>2
        <5>2. j < i
          <6>1. Ascending(ks)
            BY <1>2, <1>3, SoundNode
          <6>2. j \in Nat /\ i \in Nat
            BY <1>4, <1>5
          <6>3. i < j => ks[i] < ks[j]
            BY <3>1, <6>1 DEF Ascending
          <6> QED BY <3>1, <3>4, <5>1, <6>2, <6>3
        <5> QED BY <1>3, <5>1, <5>2 DEF FirstFrom
      <4> QED BY <2>4, <4>1, <4>2
    <3> QED BY <2>2, <3>1, <3>2, <3>4
  <2>6. CASE ~(i <= Len(ks))
    <3>1. Passed(t, n, i, x) <=> NotBehind(w, n, x)
      BY <1>1, <1>3, <1>5, <2>6, PassedLeaf
    <3>2. ASSUME x \in DOMAIN w.kids[n]
          PROVE  x < l
      <4>1. PICK j \in 1..Len(ks) : ks[j] = x
        BY <1>7, <3>2
      <4>2. j < i
        BY <1>4, <1>5, <2>6
      <4> QED BY <1>3, <4>1, <4>2 DEF FirstFrom
    <3> QED BY <2>2, <2>4, <3>1, <3>2
  <2> QED BY <2>5, <2>6
<1>9. PassedAt(t, n, i) = Earlier(E, l)
  BY <1>8 DEF PassedAt, Earlier
<1> QED BY <1>1, <1>5, <1>9 DEF CountOf

(* The position that Query_Range starts from is such a one. *)
IsFirst(ks, from, i) ==
  i = IF from = {} THEN Len(ks) + 1 ELSE CHOOSE j \in from : \A k \in from : j <= k
LEMMA FirstFromIs ==
  ASSUME NEW ks \in Seq(Keys), NEW l \in Int, NEW from, from = {i \in DOMAIN ks : l <= ks[i]},
         NEW i, IsFirst(ks, from, i)
  PROVE  FirstFrom(ks, l, i)
<1>0. i = IF from = {} THEN Len(ks) + 1 ELSE CHOOSE j \in from : \A k \in from : j <= k
  BY DEF IsFirst
<1>1. Len(ks) \in Nat /\ DOMAIN ks = 1..Len(ks)
  OBVIOUS
<1>2. \A j \in 1..Len(ks) : ks[j] \in Int
  <2>1. \A j \in 1..Len(ks) : ks[j] \in Keys
    BY ElementOfSeq
  <2> QED BY <2>1, TreeConstants
<1>3. CASE from = {}
  <2>0. i = Len(ks) + 1
    BY <1>0, <1>3
  <2>1. PICK N \in Nat : N = Len(ks) /\ i = N + 1
    BY <1>1, <2>0
  <2>2. ASSUME NEW j \in 1..Len(ks)
        PROVE  ks[j] < l
    <3>1. j \in DOMAIN ks /\ ks[j] \in Int
      BY <1>1, <1>2
    <3>2. ~(l <= ks[j])
      BY <1>3, <3>1
    <3> QED BY <3>1, <3>2
  <2>3. i \in 1..Len(ks) + 1 /\ ~(i <= Len(ks))
    BY <1>1, <2>1
  <2> QED BY <2>2, <2>3 DEF FirstFrom
<1>4. CASE from # {}
  <2>1. from \in SUBSET Nat
    BY <1>1
  <2>2. \E j \in from : \A k \in from : j <= k
    BY <1>4, <2>1, SmallestOf
  <2>3. i = CHOOSE j \in from : \A k \in from : j <= k
    BY <1>0, <1>4
  <2>4. i \in from /\ \A k \in from : i <= k
    BY <2>2, <2>3
  <2>5. i \in 1..Len(ks) /\ l <= ks[i] /\ i \in 1..Len(ks) + 1
    BY <1>1, <2>4
  <2>6. ASSUME NEW j \in 1..Len(ks), j < i
        PROVE  ks[j] < l
    <3>0. PICK p \in Nat : p = i /\ j \in Nat /\ j < p
      BY <1>1, <2>5, <2>6
    <3>1. j \notin from
      BY <2>4, <3>0
    <3>2. ~(l <= ks[j])
      BY <1>1, <3>1
    <3> QED BY <1>2, <3>2
  <2> QED BY <2>5, <2>6 DEF FirstFrom
<1> QED BY <1>3, <1>4

(* A query for a range gets the records of the range, in their order. *)
LEMMA QueryRangeIs ==
  ASSUME NEW t, NEW w, Sound(t, w), AllSized(t), NEW E, E = EntriesOf(t), Records(E),
         NEW s, OrderOf(s, E), NEW l \in Int, NEW r \in Int
  PROVE  Query_Range(t, l, r) = SubSeq(s, CountOf(E, l) + 1, CountOf(E, r + 1))
<1>1. PICK n : n = Find(t, l)
  OBVIOUS
<1>2. PICK ks : ks = t.node[n].key
  OBVIOUS
<1>3. PICK from : from = {i \in DOMAIN ks : l <= ks[i]}
  OBVIOUS
<1>4. PICK i : IsFirst(ks, from, i)
  BY DEF IsFirst
<1>5. Query_Range(t, l, r) = RangeFrom(t, n, i, r)
  BY <1>1, <1>2, <1>3, <1>4 DEF Query_Range, IsFirst
<1>6. n \in DOMAIN t.node
  BY <1>1, FindIs, LeafIs
<1>7. ks \in Seq(Keys)
  BY <1>2, <1>6, SoundNode
<1>8. FirstFrom(t.node[n].key, l, i)
  <2>1. FirstFrom(ks, l, i)
    BY <1>3, <1>4, <1>7, FirstFromIs
  <2> QED BY <1>2, <2>1
<1>9. /\ Leaf(w, n) /\ i \in 1..MaxChildNumber + 1
      /\ Cardinality(PassedAt(t, n, i)) = CountOf(E, l)
  BY <1>1, <1>8, BeginsAt
<1>10. RangeFrom(t, n, i, r) = SubSeq(s, Cardinality(PassedAt(t, n, i)) + 1, CountOf(E, r + 1))
  <2>1. PICK j \in 1..MaxChildNumber + 1 : j = i
    BY <1>9
  <2>2. PICK up \in Nat : up = CountOf(E, r + 1)
    BY CountIs
  <2>3. RangeFrom(t, n, j, r) = Part(t, s, up, n, j)
    BY <1>9, <2>2, RangeGathers
  <2> QED BY <2>1, <2>2, <2>3 DEF Part
<1> QED BY <1>5, <1>9, <1>10

(* Nothing is missed by a scan or a range. *)
LEMMA ScansInOrderFollows ==
  ASSUME TreeInv
  PROVE  ScansInOrder
<1> SUFFICES ASSUME Built
             PROVE  /\ Scan = Append(InOrder, NoRecord)
                    /\ \A l, r \in Keys :
                         Query_Range(tree, l, r) = SubSeq(InOrder, Before(l) + 1, Before(r + 1))
  BY DEF ScansInOrder
<1>1. PICK w : Sound(tree, w) /\ AllSized(tree)
  BY DEF TreeInv
<1>2. PICK t : t = tree
  OBVIOUS
<1>3. Sound(t, w) /\ AllSized(t)
  BY <1>1, <1>2
<1>4. PICK E : E = EntriesOf(t)
  OBVIOUS
<1>5. Records(E)
  BY <1>3, <1>4, EntriesAreRecords
<1>6. Entries = E
  BY <1>2, <1>4 DEF Entries, EntriesOf, Leaves, Inner
<1>7. ASSUME NEW k
      PROVE  Before(k) = CountOf(E, k)
  BY <1>6 DEF Before, CountOf, Earlier
<1>8. PICK s : s = InOrder
  OBVIOUS
<1>9. OrderOf(s, E)
  BY <1>6, <1>7, <1>8 DEF InOrder, OrderOf
<1>10. Scan = Append(s, NoRecord)
  <2>1. PICK N \in Nat : N = Cardinality(E)
    BY <1>5, CountIs
  <2>2. PICK at : at = CHOOSE h : IsWalk(h, t, N + 1)
    OBVIOUS
  <2>3. IsWalk(at, t, N + 1)
    BY <1>3, <1>4, <1>5, <2>1, <2>2, WalkExists
  <2>4. Scan = ScanOf(at, t, N + 1)
    BY <1>2, <1>6, <2>1, <2>2 DEF Scan, ScanOf, IsWalk
  <2> QED BY <1>3, <1>4, <1>5, <1>9, <2>1, <2>3, <2>4, ScanGets
<1>11. ASSUME NEW l \in Keys, NEW r \in Keys
       PROVE  Query_Range(tree, l, r) = SubSeq(s, Before(l) + 1, Before(r + 1))
  <2>1. l \in Int /\ r \in Int
    BY TreeConstants
  <2>2. Query_Range(t, l, r) = SubSeq(s, CountOf(E, l) + 1, CountOf(E, r + 1))
    BY <1>3, <1>4, <1>5, <1>9, <2>1, QueryRangeIs
  <2>3. Before(l) = CountOf(E, l) /\ Before(r + 1) = CountOf(E, r + 1)
    BY <1>7
  <2> QED BY <1>2, <2>2, <2>3
<1> QED BY <1>8, <1>10, <1>11

(* For every limit and every set of keys, whatever was inserted and        *)
(* deleted before: a scan of the leaves visits every record once, in the   *)
(* order of the keys, and a query for a range those of the range.          *)
THEOREM ScansInOrderHolds == Spec => []ScansInOrder
<1>1. TreeInv => ScansInOrder
  BY ScansInOrderFollows
<1> QED BY <1>1, TreeInvHolds, PTL

=============================================================================
