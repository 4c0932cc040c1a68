--------------------------- MODULE BPlusTreeView ----------------------------
(***************************************************************************)
(* Proofs about BPlusTree, first part: what a tree is, seen without its    *)
(* arrays.  A view gives every node its children as a function from its    *)
(* keys, its father, its level, and its area: the numbers that a search    *)
(* takes through the node.  The lemmas say what a split, a merge and a     *)
(* changed key leave of a view, how the arrays of a node show its children,*)
(* what a search of one finds, and that Split keeps a view sound.          *)
(***************************************************************************)
EXTENDS BPlusTree, TLAPS, SequenceTheorems, FiniteSetTheorems, WellFoundedInduction

(* A set of natural numbers that is not empty has a smallest member. *)
LEMMA SmallestOf ==
  ASSUME NEW S \in SUBSET Nat, S # {}
  PROVE  \E j \in S : \A l \in S : j <= l
<1>1. IsWellFoundedOn(OpToRel(<, Nat), Nat)
  BY NatLessThanWellFounded
<1>2. PICK j \in S : \A l \in S : ~(<<l, j>> \in OpToRel(<, Nat))
  BY <1>1, WFMin
<1>3. \A l \in S : ~(l < j)
  BY <1>2 DEF OpToRel
<1> QED BY <1>3

(* What holds of 0 and passes from each number to the next holds up to n. *)
LEMMA UpTo ==
  ASSUME NEW n \in Nat, NEW S, 0 \in S, \A i \in 0..n - 1 : i \in S => i + 1 \in S
  PROVE  \A i \in 0..n : i \in S
<1> DEFINE Bad == {i \in 0..n : i \notin S}
<1>1. SUFFICES ASSUME Bad # {} PROVE FALSE
  OBVIOUS
<1>2. PICK j \in Bad : \A l \in Bad : j <= l
  <2>1. Bad \in SUBSET Nat
    OBVIOUS
  <2> HIDE DEF Bad
  <2> QED BY <1>1, <2>1, SmallestOf
<1>3. j # 0 /\ j - 1 \in 0..n - 1 /\ j - 1 \in 0..n
  BY <1>2
<1>4. j - 1 \in S
  BY <1>2, <1>3
<1>5. j \in S
  BY <1>3, <1>4
<1> QED BY <1>2, <1>5

-----------------------------------------------------------------------------
(* The tree without its arrays.  A view w of it has the nodes, the root,   *)
(* for each node the function from its keys to its children, the father,   *)
(* the level above the leaves, and the area: the numbers that a search     *)
(* takes through the node.                                                 *)

(* The key at which a search for x goes on: the last one that is not       *)
(* greater, or the first one.                                              *)
Chosen(K, x, k) == k \in K /\ \A j \in K : (j <= x => j <= k) /\ (k <= x \/ k <= j)

LeastOf(K, k) == k \in K /\ \A j \in K : k <= j

(* What goes on at key k of node n. *)
Share(w, n, k) == {x \in w.area[n] : Chosen(DOMAIN w.kids[n], x, k)}

Edge(w, n, k) ==
  LET c == w.kids[n][k]
  IN  /\ c \in w.nodes /\ c # w.root
      /\ w.father[c] = n
      /\ w.level[n] = w.level[c] + 1
      /\ LeastOf(DOMAIN w.kids[c], k)
      /\ w.area[c] = Share(w, n, k)

Hangs(w, n) ==
  /\ w.father[n] \in w.nodes
  /\ w.level[w.father[n]] # 0
  /\ \E k \in DOMAIN w.kids[w.father[n]] : w.kids[w.father[n]][k] = n

Shape(w) ==
  /\ w.root \in w.nodes
  /\ w.level \in [w.nodes -> Nat]
  /\ w.area \in [w.nodes -> SUBSET Int]
  /\ w.area[w.root] = Int
  /\ \A n \in w.nodes : w.level[n] <= w.level[w.root]
  /\ \A n \in w.nodes : DOMAIN w.kids[n] \subseteq w.area[n]
  /\ \A n \in w.nodes : w.level[n] # 0 => \A k \in DOMAIN w.kids[n] : Edge(w, n, k)
  /\ \A n \in w.nodes : n # w.root => Hangs(w, n)

(* Every inner node leads somewhere. *)
Branches(w) ==
  \A n \in w.nodes : w.level[n] # 0 => \A x \in Int : \E k \in Int : Chosen(DOMAIN w.kids[n], x, k)

(* A search goes on at one key only. *)
LEMMA ChosenUnique ==
  ASSUME NEW K, K \subseteq Int, NEW x \in Int, NEW j, NEW k, Chosen(K, x, j), Chosen(K, x, k)
  PROVE  j = k
BY DEF Chosen

(* What is known of a node that is not the root. *)
LEMMA FatherEdge ==
  ASSUME NEW w, Shape(w), NEW n \in w.nodes, n # w.root
  PROVE  \E k \in Int :
           /\ w.father[n] \in w.nodes
           /\ w.level[w.father[n]] \in Nat /\ w.level[n] \in Nat
           /\ w.level[w.father[n]] = w.level[n] + 1
           /\ k \in DOMAIN w.kids[w.father[n]]
           /\ w.kids[w.father[n]][k] = n
           /\ LeastOf(DOMAIN w.kids[n], k)
           /\ w.area[n] = Share(w, w.father[n], k)
<1>1. Hangs(w, n)
  BY DEF Shape
<1>2. PICK f : f = w.father[n]
  OBVIOUS
<1>3. f \in w.nodes /\ w.level[f] # 0
  BY <1>1, <1>2 DEF Hangs
<1>4. PICK k \in DOMAIN w.kids[f] : w.kids[f][k] = n
  BY <1>1, <1>2 DEF Hangs
<1>5. Edge(w, f, k)
  BY <1>3, <1>4 DEF Shape
<1>6. k \in Int
  BY <1>3, <1>4 DEF Shape
<1>7. w.level[f] \in Nat /\ w.level[n] \in Nat
  BY <1>3 DEF Shape
<1> QED BY <1>2, <1>3, <1>4, <1>5, <1>6, <1>7 DEF Edge

(* What is known of a node and a child of it. *)
LEMMA ChildEdge ==
  ASSUME NEW w, Shape(w), NEW n \in w.nodes, w.level[n] # 0, NEW k \in DOMAIN w.kids[n],
         NEW c, c = w.kids[n][k]
  PROVE  /\ k \in Int /\ k \in w.area[n] /\ k \in w.area[c]
         /\ c \in w.nodes /\ c # w.root
         /\ w.father[c] = n
         /\ w.level[n] \in Nat /\ w.level[c] \in Nat /\ w.level[n] = w.level[c] + 1
         /\ LeastOf(DOMAIN w.kids[c], k)
         /\ w.area[c] = Share(w, n, k)
<1>1. Edge(w, n, k)
  BY DEF Shape
<1>2. c \in w.nodes /\ LeastOf(DOMAIN w.kids[c], k)
  BY <1>1 DEF Edge
<1>3. k \in w.area[n] /\ k \in w.area[c]
  BY <1>2 DEF Shape, LeastOf
<1>4. k \in Int /\ w.level[n] \in Nat /\ w.level[c] \in Nat
  BY <1>2, <1>3 DEF Shape
<1> QED BY <1>1, <1>2, <1>3, <1>4 DEF Edge

ApartAt(w, l) ==
  \A m, n \in w.nodes : \A x \in Int :
    w.level[m] = l /\ w.level[n] = l /\ x \in w.area[m] /\ x \in w.area[n] => m = n

(* Two nodes on one level have no number in common. *)
LEMMA SameLevelApart ==
  ASSUME NEW w, Shape(w)
  PROVE  \A m, n \in w.nodes : \A x \in Int :
           w.level[m] = w.level[n] /\ x \in w.area[m] /\ x \in w.area[n] => m = n
<1>1. PICK h \in Nat : h = w.level[w.root]
  BY DEF Shape
<1> DEFINE S == {i \in 0..h : ApartAt(w, h - i)}
<1>2. ASSUME NEW m \in w.nodes, w.level[m] = h
      PROVE  m = w.root
  <2> SUFFICES ASSUME m # w.root PROVE FALSE
    OBVIOUS
  <2>1. w.level[w.father[m]] = h + 1 /\ w.father[m] \in w.nodes
    BY <1>2, FatherEdge
  <2>2. w.level[w.father[m]] <= h
    BY <1>1, <2>1 DEF Shape
  <2> QED BY <2>1, <2>2
<1>3. 0 \in S
  <2>1. h - 0 = h /\ 0 \in 0..h
    OBVIOUS
  <2>2. ApartAt(w, h)
    BY <1>2 DEF ApartAt
  <2> QED BY <2>1, <2>2
<1>4. ASSUME NEW i \in 0..h - 1, i \in S
      PROVE  i + 1 \in S
  <2>0. PICK l \in Nat : l = h - (i + 1) /\ h - i = l + 1 /\ i + 1 \in 0..h
    BY <1>4
  <2> SUFFICES ASSUME NEW m \in w.nodes, NEW n \in w.nodes, NEW x \in Int,
                      w.level[m] = l, w.level[n] = l,
                      x \in w.area[m], x \in w.area[n]
               PROVE  m = n
    BY <1>4, <2>0 DEF ApartAt
  <2>1. m # w.root /\ n # w.root
    BY <1>1, <1>4, <2>0
  <2>2. PICK fm \in w.nodes : fm = w.father[m] /\ w.level[fm] = w.level[m] + 1
    BY <2>1, FatherEdge
  <2>3. PICK fn \in w.nodes : fn = w.father[n] /\ w.level[fn] = w.level[n] + 1
    BY <2>1, FatherEdge
  <2>4. PICK k \in Int : /\ k \in DOMAIN w.kids[fm] /\ w.kids[fm][k] = m
                         /\ w.area[m] = Share(w, fm, k)
    BY <2>1, <2>2, FatherEdge
  <2>5. PICK j \in Int : /\ j \in DOMAIN w.kids[fn] /\ w.kids[fn][j] = n
                         /\ w.area[n] = Share(w, fn, j)
    BY <2>1, <2>3, FatherEdge
  <2>6. x \in w.area[fm] /\ x \in w.area[fn]
    BY <2>4, <2>5 DEF Share
  <2>7. w.level[fm] = h - i /\ w.level[fn] = h - i
    BY <2>0, <2>2, <2>3
  <2>8. fm = fn
    BY <1>4, <2>6, <2>7 DEF ApartAt
  <2>9. Chosen(DOMAIN w.kids[fm], x, k) /\ Chosen(DOMAIN w.kids[fm], x, j)
    BY <2>4, <2>5, <2>8 DEF Share
  <2>10. DOMAIN w.kids[fm] \subseteq Int
    BY DEF Shape
  <2>11. k = j
    BY <2>9, <2>10, ChosenUnique
  <2> QED BY <2>4, <2>5, <2>8, <2>11
<1> HIDE DEF S
<1>5. \A i \in 0..h : i \in S
  BY <1>3, <1>4, UpTo
<1> SUFFICES ASSUME NEW m \in w.nodes, NEW n \in w.nodes, NEW x \in Int,
                    w.level[m] = w.level[n], x \in w.area[m], x \in w.area[n]
             PROVE  m = n
  OBVIOUS
<1>6. w.level[m] \in Nat /\ w.level[m] <= h
  BY <1>1 DEF Shape
<1>7. PICK i \in 0..h : i = h - w.level[m]
  BY <1>6
<1>8. i \in S /\ w.level[m] = h - i
  BY <1>5, <1>6, <1>7
<1> QED BY <1>8 DEF S, ApartAt

(* What holds of the root and passes from a father to its children holds of*)
(* every node.                                                             *)
LEMMA FromRoot ==
  ASSUME NEW w, Shape(w), NEW S, w.root \in S,
         \A n \in w.nodes : n # w.root /\ w.father[n] \in w.nodes /\ w.father[n] \in S => n \in S
  PROVE  w.nodes \subseteq S
<1> DEFINE Bad == {i \in Nat : \E n \in w.nodes : n \notin S /\ i = w.level[w.root] - w.level[n]}
<1> SUFFICES ASSUME NEW m \in w.nodes, m \notin S PROVE FALSE
  OBVIOUS
<1>1. \A n \in w.nodes : w.level[w.root] - w.level[n] \in Nat
  BY DEF Shape
<1>2. w.level[w.root] - w.level[m] \in Bad
  BY <1>1
<1>3. Bad \in SUBSET Nat /\ Bad # {}
  BY <1>2
<1>4. PICK i \in Bad : \A l \in Bad : i <= l
  <2> HIDE DEF Bad
  <2> QED BY <1>3, SmallestOf
<1>5. PICK n \in w.nodes : n \notin S /\ i = w.level[w.root] - w.level[n]
  BY <1>4
<1>6. n # w.root
  BY <1>5
<1>7. w.father[n] \in w.nodes /\ w.level[w.father[n]] = w.level[n] + 1 /\ w.level[n] \in Nat
  BY <1>6, FatherEdge
<1>8. w.father[n] \notin S
  BY <1>5, <1>6, <1>7
<1>9. w.level[w.root] \in Nat
  BY DEF Shape
<1>10. w.level[w.root] - w.level[w.father[n]] = i - 1
  BY <1>5, <1>7, <1>9
<1>11. i - 1 \in Bad
  BY <1>1, <1>7, <1>8, <1>10
<1> HIDE DEF Bad
<1> QED BY <1>3, <1>4, <1>11

(* What holds of the leaves and of a node whose children it holds of holds *)
(* of every node.                                                          *)
LEMMA FromLeaves ==
  ASSUME NEW w, Shape(w), NEW S, \A n \in w.nodes : w.level[n] = 0 => n \in S,
         \A n \in w.nodes : /\ w.level[n] # 0
                            /\ \A k \in DOMAIN w.kids[n] : w.kids[n][k] \in S
                            => n \in S
  PROVE  w.nodes \subseteq S
<1> DEFINE Bad == {i \in Nat : \E n \in w.nodes : n \notin S /\ i = w.level[n]}
<1> SUFFICES ASSUME NEW m \in w.nodes, m \notin S PROVE FALSE
  OBVIOUS
<1>1. \A n \in w.nodes : w.level[n] \in Nat
  BY DEF Shape
<1>2. w.level[m] \in Bad
  BY <1>1
<1>3. Bad \in SUBSET Nat /\ Bad # {}
  BY <1>2
<1>4. PICK i \in Bad : \A l \in Bad : i <= l
  <2> HIDE DEF Bad
  <2> QED BY <1>3, SmallestOf
<1>5. PICK n \in w.nodes : n \notin S /\ i = w.level[n]
  BY <1>4
<1>6. PICK k \in DOMAIN w.kids[n] : w.kids[n][k] \notin S
  BY <1>5
<1>7. PICK c : c = w.kids[n][k]
  OBVIOUS
<1>8. c \in w.nodes /\ w.level[n] = w.level[c] + 1 /\ w.level[c] \in Nat
  BY <1>5, <1>7, ChildEdge
<1>9. w.level[c] \in Bad
  BY <1>6, <1>7, <1>8
<1> HIDE DEF Bad
<1> QED BY <1>4, <1>5, <1>8, <1>9

(* Between two numbers in an area are only numbers in the area. *)
Convex(A) == \A x, y \in A : \A z \in Int : x <= z /\ z <= y => z \in A

(* So it is with the area of every node. *)
LEMMA AreaConvex ==
  ASSUME NEW w, Shape(w)
  PROVE  \A n \in w.nodes : Convex(w.area[n])
<1> DEFINE S == {n \in w.nodes : Convex(w.area[n])}
<1>1. w.root \in S
  BY DEF Shape, Convex
<1>2. ASSUME NEW n \in w.nodes, n # w.root, w.father[n] \in w.nodes, w.father[n] \in S
      PROVE  n \in S
  <2>1. PICK f \in w.nodes : f = w.father[n]
    BY <1>2
  <2>2. PICK k \in Int : w.area[n] = Share(w, f, k)
    BY <1>2, <2>1, FatherEdge
  <2>3. Convex(w.area[f])
    BY <1>2, <2>1
  <2>4. w.area[f] \subseteq Int /\ DOMAIN w.kids[f] \subseteq Int
    BY DEF Shape
  <2>5. PICK A : A = w.area[f]
    OBVIOUS
  <2>6. PICK K : K = DOMAIN w.kids[f]
    OBVIOUS
  <2>7. Convex({x \in A : Chosen(K, x, k)})
    <3> SUFFICES ASSUME NEW x \in A, NEW y \in A, NEW z \in Int, Chosen(K, x, k), Chosen(K, y, k),
                        x <= z, z <= y
                 PROVE  z \in A /\ Chosen(K, z, k)
      BY DEF Convex
    <3>1. z \in A
      BY <2>3, <2>5 DEF Convex
    <3>2. Chosen(K, z, k)
      BY <2>4, <2>5, <2>6 DEF Chosen
    <3> QED BY <3>1, <3>2
  <2> QED BY <2>2, <2>5, <2>6, <2>7 DEF Share
<1> HIDE DEF S
<1>3. w.nodes \subseteq S
  BY <1>1, <1>2, FromRoot
<1> QED BY <1>3 DEF S

(* Every number has a node on every level. *)
LEMMA EveryLevelReached ==
  ASSUME NEW w, Shape(w), Branches(w), NEW x \in Int
  PROVE  \A i \in 0 .. w.level[w.root] : \E n \in w.nodes : w.level[n] = i /\ x \in w.area[n]
<1>1. PICK h \in Nat : h = w.level[w.root]
  BY DEF Shape
<1> DEFINE S == {i \in 0..h : \E n \in w.nodes : w.level[n] = h - i /\ x \in w.area[n]}
<1>2. 0 \in S
  <2>1. h - 0 = h /\ 0 \in 0..h
    OBVIOUS
  <2>2. w.root \in w.nodes /\ x \in w.area[w.root]
    BY DEF Shape
  <2> QED BY <1>1, <2>1, <2>2
<1>3. ASSUME NEW i \in 0..h - 1, i \in S
      PROVE  i + 1 \in S
  <2>1. PICK n \in w.nodes : w.level[n] = h - i /\ x \in w.area[n]
    BY <1>3
  <2>2. w.level[n] # 0 /\ i + 1 \in 0..h
    BY <1>3, <2>1
  <2>3. PICK k \in Int : Chosen(DOMAIN w.kids[n], x, k)
    BY <2>2 DEF Branches
  <2>4. k \in DOMAIN w.kids[n]
    BY <2>3 DEF Chosen
  <2>5. PICK c : c = w.kids[n][k]
    OBVIOUS
  <2>6. c \in w.nodes /\ w.level[n] = w.level[c] + 1 /\ w.level[c] \in Nat
        /\ w.area[c] = Share(w, n, k)
    BY <2>2, <2>4, <2>5, ChildEdge
  <2>7. x \in w.area[c]
    BY <2>1, <2>3, <2>6 DEF Share
  <2>8. w.level[c] = h - (i + 1)
    BY <1>3, <2>1, <2>6
  <2> QED BY <2>2, <2>6, <2>7, <2>8
<1>4. \A i \in 0..h : i \in S
  <2> HIDE DEF S
  <2> QED BY <1>2, <1>3, UpTo
<1> SUFFICES ASSUME NEW i \in 0..h
             PROVE  \E n \in w.nodes : w.level[n] = i /\ x \in w.area[n]
  BY <1>1
<1>5. h - i \in S /\ h - (h - i) = i
  BY <1>4
<1> QED BY <1>5

Leaf(w, l) == l \in w.nodes /\ w.level[l] = 0

(* The area of a node lies in the areas of the nodes above it. *)
LEMMA AreasNested ==
  ASSUME NEW w, Shape(w), NEW n \in w.nodes
  PROVE  \A m \in w.nodes : \A x \in Int :
           w.level[m] <= w.level[n] /\ x \in w.area[m] /\ x \in w.area[n]
             => w.area[m] \subseteq w.area[n]
<1> DEFINE S == {m \in w.nodes : \A x \in Int :
                   w.level[m] <= w.level[n] /\ x \in w.area[m] /\ x \in w.area[n]
                     => w.area[m] \subseteq w.area[n]}
<1>0. \A m \in w.nodes : w.level[m] \in Nat
  BY DEF Shape
<1>1. w.root \in S
  <2>1. w.root \in w.nodes /\ w.level[n] <= w.level[w.root]
    BY DEF Shape
  <2>2. ASSUME NEW x \in Int, w.level[w.root] <= w.level[n], x \in w.area[w.root], x \in w.area[n]
        PROVE  w.root = n
    BY <1>0, <2>1, <2>2, SameLevelApart
  <2> QED BY <2>1, <2>2
<1>2. ASSUME NEW m \in w.nodes, m # w.root, w.father[m] \in w.nodes, w.father[m] \in S
      PROVE  m \in S
  <2>1. PICK f \in w.nodes : f = w.father[m]
    BY <1>2
  <2>2. w.area[m] \subseteq w.area[f] /\ w.level[f] = w.level[m] + 1
    <3>1. PICK k \in Int : w.area[m] = Share(w, f, k)
      BY <1>2, <2>1, FatherEdge
    <3>2. w.level[f] = w.level[m] + 1
      BY <1>2, <2>1, FatherEdge
    <3> QED BY <3>1, <3>2 DEF Share
  <2> SUFFICES ASSUME NEW x \in Int, w.level[m] <= w.level[n], x \in w.area[m], x \in w.area[n]
               PROVE  w.area[m] \subseteq w.area[n]
    OBVIOUS
  <2>3. CASE w.level[m] = w.level[n]
    BY <2>3, SameLevelApart
  <2>4. CASE w.level[m] # w.level[n]
    <3>1. w.level[f] <= w.level[n]
      BY <1>0, <2>2, <2>4
    <3> QED BY <1>2, <2>1, <2>2, <3>1
  <2> QED BY <2>3, <2>4
<1> HIDE DEF S
<1>3. w.nodes \subseteq S
  BY <1>1, <1>2, FromRoot
<1> QED BY <1>3 DEF S

(* A key in an inner node is the smallest key of a leaf. *)
LEMMA LeastIsInLeaf ==
  ASSUME NEW w, Shape(w)
  PROVE  \A n \in w.nodes : \A k : LeastOf(DOMAIN w.kids[n], k) =>
           \E l \in w.nodes : w.level[l] = 0 /\ LeastOf(DOMAIN w.kids[l], k)
<1> DEFINE S == {n \in w.nodes : \A k \in Int : LeastOf(DOMAIN w.kids[n], k) =>
                   \E l \in w.nodes : w.level[l] = 0 /\ LeastOf(DOMAIN w.kids[l], k)}
<1>1. \A n \in w.nodes : w.level[n] = 0 => n \in S
  OBVIOUS
<1>2. ASSUME NEW n \in w.nodes, w.level[n] # 0, \A k \in DOMAIN w.kids[n] : w.kids[n][k] \in S
      PROVE  n \in S
  <2> SUFFICES ASSUME NEW k \in Int, LeastOf(DOMAIN w.kids[n], k)
               PROVE  \E l \in w.nodes : w.level[l] = 0 /\ LeastOf(DOMAIN w.kids[l], k)
    OBVIOUS
  <2>1. k \in DOMAIN w.kids[n]
    BY DEF LeastOf
  <2>2. PICK c : c = w.kids[n][k]
    OBVIOUS
  <2>3. LeastOf(DOMAIN w.kids[c], k) /\ c \in S
    BY <1>2, <2>1, <2>2, ChildEdge
  <2> QED BY <2>3
<1> HIDE DEF S
<1>3. w.nodes \subseteq S
  BY <1>1, <1>2, FromLeaves
<1> SUFFICES ASSUME NEW n \in w.nodes, NEW k, LeastOf(DOMAIN w.kids[n], k)
             PROVE  \E l \in w.nodes : w.level[l] = 0 /\ LeastOf(DOMAIN w.kids[l], k)
  OBVIOUS
<1>4. k \in Int
  BY DEF Shape, LeastOf
<1> QED BY <1>3, <1>4 DEF S

(* So every key of an inner node is the smallest key of a leaf. *)
LEMMA InnerKeyIsInLeaf ==
  ASSUME NEW w, Shape(w), NEW n \in w.nodes, w.level[n] # 0, NEW k \in DOMAIN w.kids[n]
  PROVE  \E l \in w.nodes : w.level[l] = 0 /\ LeastOf(DOMAIN w.kids[l], k)
<1>1. PICK c : c = w.kids[n][k]
  OBVIOUS
<1>2. c \in w.nodes /\ LeastOf(DOMAIN w.kids[c], k)
  BY <1>1, ChildEdge
<1> QED BY <1>2, LeastIsInLeaf

(* The smallest key of a node is not greater than any key in a leaf below. *)
LEMMA LeastBelow ==
  ASSUME NEW w, Shape(w), Branches(w)
  PROVE  \A n \in w.nodes : \A k, x \in Int : \A l \in w.nodes :
           /\ LeastOf(DOMAIN w.kids[n], k)
           /\ w.level[l] = 0 /\ x \in DOMAIN w.kids[l] /\ x \in w.area[n]
           => k <= x
<1> DEFINE S == {n \in w.nodes : \A k, x \in Int : \A l \in w.nodes :
                   /\ LeastOf(DOMAIN w.kids[n], k)
                   /\ w.level[l] = 0 /\ x \in DOMAIN w.kids[l] /\ x \in w.area[n]
                   => k <= x}
<1>1. ASSUME NEW n \in w.nodes, w.level[n] = 0
      PROVE  n \in S
  <2> SUFFICES ASSUME NEW k \in Int, NEW x \in Int, NEW l \in w.nodes,
                      LeastOf(DOMAIN w.kids[n], k),
                      w.level[l] = 0, x \in DOMAIN w.kids[l], x \in w.area[n]
               PROVE  k <= x
    OBVIOUS
  <2>1. x \in w.area[l]
    BY DEF Shape
  <2>2. l = n
    BY <1>1, <2>1, SameLevelApart
  <2> QED BY <2>2 DEF LeastOf
<1>2. ASSUME NEW n \in w.nodes, w.level[n] # 0, \A k \in DOMAIN w.kids[n] : w.kids[n][k] \in S
      PROVE  n \in S
  <2> SUFFICES ASSUME NEW k \in Int, NEW x \in Int, NEW l \in w.nodes,
                      LeastOf(DOMAIN w.kids[n], k),
                      w.level[l] = 0, x \in DOMAIN w.kids[l], x \in w.area[n]
               PROVE  k <= x
    OBVIOUS
  <2>1. PICK j \in Int : Chosen(DOMAIN w.kids[n], x, j)
    BY <1>2 DEF Branches
  <2>2. j \in DOMAIN w.kids[n] /\ k <= j
    BY <2>1 DEF Chosen, LeastOf
  <2>3. PICK c : c = w.kids[n][j]
    OBVIOUS
  <2>4. /\ LeastOf(DOMAIN w.kids[c], j)
        /\ w.area[c] = Share(w, n, j)
    <3> HIDE DEF S
    <3> QED BY <1>2, <2>2, <2>3, ChildEdge
  <2>7. c \in S
    BY <1>2, <2>2, <2>3
  <2>5. x \in w.area[c]
    BY <2>1, <2>4 DEF Share
  <2>6. j <= x
    BY <2>4, <2>5, <2>7
  <2> QED BY <2>2, <2>6
<1> HIDE DEF S
<1>3. w.nodes \subseteq S
  BY <1>1, <1>2, FromLeaves
<1> QED BY <1>3 DEF S

-----------------------------------------------------------------------------
(* The entries of a node as a function from its keys to its children, and  *)
(* what the operations make of it.                                         *)
Plus(F, x, v) == [j \in DOMAIN F \cup {x} |-> IF j = x THEN v ELSE F[j]]
Minus(F, x) == [j \in DOMAIN F \ {x} |-> F[j]]
Under(F, p) == [j \in {i \in DOMAIN F : i < p} |-> F[j]]
Over(F, p) == [j \in {i \in DOMAIN F : p <= i} |-> F[j]]
Both(F, G) == [j \in DOMAIN F \cup DOMAIN G |-> IF j \in DOMAIN F THEN F[j] ELSE G[j]]
Renamed(F, k, x) == [j \in (DOMAIN F \ {k}) \cup {x} |-> IF j = x THEN F[k] ELSE F[j]]

(* Where a search goes on when the keys of a node are cut in two at p.     *)
LEMMA ChosenOver ==
  ASSUME NEW K, K \subseteq Int, NEW p \in Int, p \in K, NEW kc \in Int, LeastOf(K, kc), kc # p,
         NEW k \in Int, k \in K, p <= k, NEW x \in Int
  PROVE  Chosen(K, x, k) <=> p <= x /\ Chosen({j \in K : p <= j}, x, k)
BY DEF Chosen, LeastOf

(* And for the keys below p. *)
LEMMA ChosenUnder ==
  ASSUME NEW K, K \subseteq Int, NEW p \in Int, p \in K, NEW k \in Int, k \in K, k < p, NEW x \in Int
  PROVE  Chosen(K, x, k) <=> x < p /\ Chosen({j \in K : j < p}, x, k)
BY DEF Chosen

(* Where it goes on when a key is added to a node.                         *)
LEMMA ChosenPlus ==
  ASSUME NEW K, K \subseteq Int, NEW p \in Int, NEW kc \in Int, kc < p, Chosen(K, p, kc),
         NEW k \in Int, k \in K, NEW x \in Int
  PROVE  Chosen(K \cup {p}, x, k) <=> Chosen(K, x, k) /\ (k = kc => x < p)
BY DEF Chosen

(* And when it goes on at the key that was added. *)
LEMMA ChosenAdded ==
  ASSUME NEW K, K \subseteq Int, NEW p \in Int, NEW kc \in Int, kc < p, Chosen(K, p, kc), NEW x \in Int
  PROVE  Chosen(K \cup {p}, x, p) <=> p <= x /\ Chosen(K, x, kc)
BY DEF Chosen

(* The father's key for a node is its smallest, and no other child of any  *)
(* node is this one.                                                       *)
LEMMA FatherKey ==
  ASSUME NEW w, Shape(w), NEW c \in w.nodes, c # w.root,
         NEW k \in Int, LeastOf(DOMAIN w.kids[c], k), NEW f, f = w.father[c]
  PROVE  /\ f \in w.nodes /\ f # c
         /\ w.level[f] \in Nat /\ w.level[c] \in Nat
         /\ w.level[f] = w.level[c] + 1
         /\ k \in DOMAIN w.kids[f]
         /\ w.kids[f][k] = c
         /\ w.area[c] = Share(w, f, k)
<1>1. PICK j \in Int :
           /\ w.father[c] \in w.nodes
           /\ w.level[w.father[c]] \in Nat /\ w.level[c] \in Nat
           /\ w.level[w.father[c]] = w.level[c] + 1
           /\ j \in DOMAIN w.kids[w.father[c]]
           /\ w.kids[w.father[c]][j] = c
           /\ LeastOf(DOMAIN w.kids[c], j)
           /\ w.area[c] = Share(w, w.father[c], j)
  BY FatherEdge
<1>2. DOMAIN w.kids[c] \subseteq Int
  BY DEF Shape
<1>3. j = k
  BY <1>1, <1>2 DEF LeastOf
<1>4. w.father[c] # c
  BY <1>1
<1> QED BY <1>1, <1>3, <1>4

-----------------------------------------------------------------------------
(* Node c is split at its key p: what is not smaller goes to node new, and *)
(* the father gets p for it.                                               *)
SplitView(w, w2, c, new, p) ==
  /\ w2.nodes = w.nodes \cup {new}
  /\ w2.root = w.root
  /\ \A n \in w.nodes : n # c /\ n # w.father[c] => w2.kids[n] = w.kids[n]
  /\ w2.kids[new] = Over(w.kids[c], p)
  /\ w2.kids[c] = Under(w.kids[c], p)
  /\ w2.kids[w.father[c]] = Plus(w.kids[w.father[c]], p, new)
  /\ w2.father[new] = w.father[c]
  /\ \A n \in w.nodes :
       w2.father[n] = IF w.level[c] # 0 /\ \E k \in DOMAIN w.kids[c] : p <= k /\ w.kids[c][k] = n
                        THEN new ELSE w.father[n]
  /\ w2.level = [n \in w2.nodes |-> IF n = new THEN w.level[c] ELSE w.level[n]]
  /\ w2.area = [n \in w2.nodes |-> IF n = new THEN {x \in w.area[c] : p <= x}
                                   ELSE IF n = c THEN {x \in w.area[c] : x < p} ELSE w.area[n]]

(* A split keeps the shape. *)
LEMMA SplitShape ==
  ASSUME NEW w, Shape(w), NEW c \in w.nodes, c # w.root, NEW new, new \notin w.nodes,
         NEW p \in DOMAIN w.kids[c], NEW kc \in Int, LeastOf(DOMAIN w.kids[c], kc), kc # p,
         NEW w2, SplitView(w, w2, c, new, p)
  PROVE  Shape(w2)
<1>0. PICK f : f = w.father[c]
  OBVIOUS
<1>1. /\ f \in w.nodes /\ f # c
      /\ w.level[f] \in Nat /\ w.level[c] \in Nat
      /\ w.level[f] = w.level[c] + 1
      /\ kc \in DOMAIN w.kids[f]
      /\ w.kids[f][kc] = c
      /\ w.area[c] = Share(w, f, kc)
  BY <1>0, FatherKey
<1>2. /\ w.area[c] \subseteq Int /\ w.area[f] \subseteq Int
      /\ \A n \in w.nodes : DOMAIN w.kids[n] \subseteq Int
      /\ DOMAIN w.kids[c] \subseteq w.area[c]
      /\ DOMAIN w.kids[f] \subseteq w.area[f]
  BY <1>1 DEF Shape
<1>3. p \in Int /\ kc \in Int /\ kc < p /\ p \in w.area[c]
  BY <1>2 DEF LeastOf
<1>4. Chosen(DOMAIN w.kids[f], p, kc) /\ p \in w.area[f]
  BY <1>1, <1>3 DEF Share
<1>5. p \notin DOMAIN w.kids[f]
  BY <1>2, <1>3, <1>4 DEF Chosen
<1>6. /\ w2.nodes = w.nodes \cup {new} /\ w2.root = w.root
      /\ w2.level[new] = w.level[c] /\ \A n \in w.nodes : w2.level[n] = w.level[n]
      /\ w2.area[new] = {x \in w.area[c] : p <= x}
      /\ w2.area[c] = {x \in w.area[c] : x < p}
      /\ \A n \in w.nodes : n # c => w2.area[n] = w.area[n]
  BY DEF SplitView
<1>7. /\ w2.kids[new] = Over(w.kids[c], p)
      /\ w2.kids[c] = Under(w.kids[c], p)
      /\ w2.kids[f] = Plus(w.kids[f], p, new)
      /\ \A n \in w.nodes : n # c /\ n # f => w2.kids[n] = w.kids[n]
      /\ w2.father[new] = f
  BY <1>0 DEF SplitView
<1>8. /\ DOMAIN w2.kids[new] = {j \in DOMAIN w.kids[c] : p <= j}
      /\ \A k \in DOMAIN w2.kids[new] : w2.kids[new][k] = w.kids[c][k]
  BY <1>7 DEF Over
<1>9. /\ DOMAIN w2.kids[c] = {j \in DOMAIN w.kids[c] : j < p}
      /\ \A k \in DOMAIN w2.kids[c] : w2.kids[c][k] = w.kids[c][k]
  BY <1>7 DEF Under
<1>10. /\ DOMAIN w2.kids[f] = DOMAIN w.kids[f] \cup {p}
       /\ w2.kids[f][p] = new
       /\ \A k \in DOMAIN w.kids[f] : w2.kids[f][k] = w.kids[f][k]
  BY <1>5, <1>7 DEF Plus
<1>11. w2.root \in w2.nodes /\ w2.level \in [w2.nodes -> Nat] /\ w2.area \in [w2.nodes -> SUBSET Int]
       /\ w2.area[w2.root] = Int /\ \A n \in w2.nodes : w2.level[n] <= w2.level[w2.root]
  <2>1. w2.level \in [w2.nodes -> Nat]
    BY <1>1 DEF SplitView, Shape
  <2>2. w2.area \in [w2.nodes -> SUBSET Int]
    BY <1>2 DEF SplitView, Shape
  <2>3. w2.area[w2.root] = Int
    BY <1>6 DEF Shape
  <2>4. \A n \in w2.nodes : w2.level[n] <= w2.level[w2.root]
    BY <1>6 DEF Shape
  <2> QED BY <1>6, <2>1, <2>2, <2>3, <2>4 DEF Shape
<1>12. ASSUME NEW n \in w2.nodes
       PROVE  DOMAIN w2.kids[n] \subseteq w2.area[n]
  <2>1. CASE n = new
    BY <1>2, <1>6, <1>8, <2>1
  <2>2. CASE n = c
    BY <1>2, <1>6, <1>9, <2>2
  <2>3. CASE n = f
    BY <1>1, <1>2, <1>4, <1>6, <1>10, <2>3
  <2>4. CASE n \in w.nodes /\ n # c /\ n # f
    BY <1>6, <1>7, <2>4 DEF Shape
  <2> QED BY <1>6, <2>1, <2>2, <2>3, <2>4
<1>13. ASSUME NEW n \in w.nodes, w.level[n] # 0, NEW k \in DOMAIN w.kids[n],
              NEW ch, ch = w.kids[n][k], ch # c
       PROVE  /\ ch \in w2.nodes /\ ch \in w.nodes /\ ch # w2.root /\ ch # new
              /\ n # c => w2.father[ch] = n
              /\ n = c /\ p <= k => w2.father[ch] = new
              /\ n = c /\ k < p => w2.father[ch] = c
              /\ w2.level[n] = w2.level[ch] + 1
              /\ LeastOf(DOMAIN w2.kids[ch], k)
              /\ k \in Int
              /\ w2.area[ch] = Share(w, n, k)
  <2>1. /\ k \in Int
        /\ ch \in w.nodes /\ ch # w.root
        /\ w.father[ch] = n
        /\ w.level[n] \in Nat /\ w.level[ch] \in Nat /\ w.level[n] = w.level[ch] + 1
        /\ LeastOf(DOMAIN w.kids[ch], k)
        /\ w.area[ch] = Share(w, n, k)
    BY <1>13, ChildEdge
  <2>2. w2.father[ch] = IF w.level[c] # 0 /\ \E i \in DOMAIN w.kids[c] : p <= i /\ w.kids[c][i] = ch
                          THEN new ELSE w.father[ch]
    BY <2>1 DEF SplitView
  <2>3. n # c => w2.father[ch] = n
    <3>1. ASSUME n # c, w.level[c] # 0, NEW i \in DOMAIN w.kids[c], w.kids[c][i] = ch
          PROVE  FALSE
      <4>1. w.father[ch] = c
        BY <3>1, ChildEdge
      <4> QED BY <2>1, <3>1, <4>1
    <3> QED BY <2>1, <2>2, <3>1
  <2>4. n = c /\ p <= k => w2.father[ch] = new
    BY <1>13, <2>2
  <2>5. n = c /\ k < p => w2.father[ch] = c
    <3>1. ASSUME n = c, k < p, NEW i \in DOMAIN w.kids[c], p <= i, w.kids[c][i] = ch
          PROVE  FALSE
      <4>1. LeastOf(DOMAIN w.kids[ch], i)
        BY <1>13, <3>1, ChildEdge
      <4>2. i = k
        BY <2>1, <4>1, <1>2 DEF LeastOf
      <4> QED BY <1>3, <2>1, <3>1, <4>2
    <3> QED BY <2>1, <2>2, <3>1
  <2>6. w2.level[n] = w2.level[ch] + 1
    BY <1>6, <2>1
  <2>7. LeastOf(DOMAIN w2.kids[ch], k)
    <3>1. CASE ch = f
      <4>1. k <= kc
        BY <1>1, <2>1, <3>1 DEF LeastOf
      <4> QED BY <1>3, <1>10, <2>1, <3>1, <4>1 DEF LeastOf
    <3>2. CASE ch # f
      BY <1>7, <1>13, <2>1, <3>2
    <3> QED BY <3>1, <3>2
  <2>8. w2.area[ch] = w.area[ch]
    BY <1>6, <1>13, <2>1
  <2> QED BY <1>6, <2>1, <2>3, <2>4, <2>5, <2>6, <2>7, <2>8
<1>14. ASSUME NEW n \in w.nodes, n # c, n # f, w.level[n] # 0, NEW k \in DOMAIN w.kids[n]
       PROVE  Edge(w2, n, k)
  <2>1. PICK ch : ch = w.kids[n][k]
    OBVIOUS
  <2>2. ch # c
    <3>1. w.father[ch] = n
      BY <1>14, <2>1, ChildEdge
    <3> QED BY <1>0, <1>14, <3>1
  <2>3. w2.kids[n] = w.kids[n] /\ Share(w, n, k) = Share(w2, n, k)
    BY <1>6, <1>7, <1>14 DEF Share
  <2> QED BY <1>13, <1>14, <2>1, <2>2, <2>3 DEF Edge
<1>15. ASSUME w.level[c] # 0, NEW k \in DOMAIN w2.kids[new]
       PROVE  Edge(w2, new, k)
  <2>1. k \in DOMAIN w.kids[c] /\ p <= k /\ w2.kids[new][k] = w.kids[c][k]
    BY <1>8
  <2>2. PICK ch : ch = w.kids[c][k]
    OBVIOUS
  <2>3. ch # c
    <3>1. w.level[c] = w.level[ch] + 1 /\ w.level[ch] \in Nat
      BY <1>15, <2>1, <2>2, ChildEdge
    <3> QED BY <3>1
  <2>4. /\ ch \in w2.nodes /\ ch # w2.root
        /\ w2.father[ch] = new
        /\ w2.level[c] = w2.level[ch] + 1
        /\ LeastOf(DOMAIN w2.kids[ch], k)
        /\ w2.area[ch] = Share(w, c, k)
    BY <1>13, <1>15, <2>1, <2>2, <2>3
  <2>5. Share(w, c, k)
          = Share(w2, new, k)
    <3>1. \A x \in Int : Chosen(DOMAIN w.kids[c], x, k)
                            <=> p <= x /\ Chosen({j \in DOMAIN w.kids[c] : p <= j}, x, k)
      <4>1. k \in Int
        BY <1>2, <2>1
      <4> QED BY <1>2, <1>3, <2>1, <4>1, ChosenOver
    <3> QED BY <1>2, <1>6, <1>8, <3>1 DEF Share
  <2> QED BY <1>6, <2>1, <2>2, <2>4, <2>5 DEF Edge
<1>16. ASSUME w.level[c] # 0, NEW k \in DOMAIN w2.kids[c]
       PROVE  Edge(w2, c, k)
  <2>1. k \in DOMAIN w.kids[c] /\ k < p /\ w2.kids[c][k] = w.kids[c][k]
    BY <1>9
  <2>2. PICK ch : ch = w.kids[c][k]
    OBVIOUS
  <2>3. ch # c
    <3>1. w.level[c] = w.level[ch] + 1 /\ w.level[ch] \in Nat
      BY <1>16, <2>1, <2>2, ChildEdge
    <3> QED BY <3>1
  <2>4. /\ ch \in w2.nodes /\ ch # w2.root
        /\ w2.father[ch] = c
        /\ w2.level[c] = w2.level[ch] + 1
        /\ LeastOf(DOMAIN w2.kids[ch], k)
        /\ w2.area[ch] = Share(w, c, k)
    BY <1>13, <1>16, <2>1, <2>2, <2>3
  <2>5. Share(w, c, k)
          = Share(w2, c, k)
    <3>1. \A x \in Int : Chosen(DOMAIN w.kids[c], x, k)
                            <=> x < p /\ Chosen({j \in DOMAIN w.kids[c] : j < p}, x, k)
      <4>1. k \in Int
        BY <1>2, <2>1
      <4> QED BY <1>2, <1>3, <2>1, <4>1, ChosenUnder
    <3> QED BY <1>2, <1>6, <1>9, <3>1 DEF Share
  <2> QED BY <2>1, <2>2, <2>4, <2>5 DEF Edge
<1>17. ASSUME NEW k \in DOMAIN w2.kids[f]
       PROVE  Edge(w2, f, k)
  <2>1. w.area[f] = w2.area[f] /\ w2.level[f] = w.level[f] /\ w.level[f] # 0
    BY <1>1, <1>6
  <2>2. CASE k = p
    <3>1. w2.kids[f][k] = new /\ w2.level[f] = w2.level[new] + 1 /\ w2.father[new] = f
          /\ new \in w2.nodes /\ new # w2.root
      BY <1>1, <1>6, <1>7, <1>10, <2>2 DEF Shape
    <3>2. LeastOf(DOMAIN w2.kids[new], k)
      BY <1>2, <1>8, <2>2 DEF LeastOf
    <3>3. w2.area[new] = Share(w2, f, k)
      <4>1. \A x \in Int : Chosen(DOMAIN w.kids[f] \cup {p}, x, p)
                             <=> p <= x /\ Chosen(DOMAIN w.kids[f], x, kc)
        BY <1>1, <1>2, <1>3, <1>4, ChosenAdded
      <4>2. w2.area[new] = {x \in w.area[c] : p <= x}
        BY <1>6
      <4>3. DOMAIN w2.kids[f] = DOMAIN w.kids[f] \cup {p}
        BY <1>10
      <4> QED BY <1>1, <1>2, <2>1, <2>2, <4>1, <4>2, <4>3 DEF Share
    <3> QED BY <3>1, <3>2, <3>3 DEF Edge
  <2>3. CASE k = kc
    <3>1. w2.kids[f][k] = c /\ w2.level[f] = w2.level[c] + 1
          /\ c \in w2.nodes /\ c # w2.root
      BY <1>1, <1>6, <1>10, <2>3
    <3>2. w2.father[c] = f
      <4>1. ASSUME w.level[c] # 0, NEW i \in DOMAIN w.kids[c], w.kids[c][i] = c
            PROVE  FALSE
        BY <4>1, <1>1, ChildEdge
      <4> QED BY <1>0, <4>1 DEF SplitView
    <3>3. LeastOf(DOMAIN w2.kids[c], k)
      BY <1>3, <1>9, <2>3 DEF LeastOf
    <3>4. w2.area[c] = Share(w2, f, k)
      <4>1. \A x \in Int : Chosen(DOMAIN w.kids[f] \cup {p}, x, kc)
                             <=> Chosen(DOMAIN w.kids[f], x, kc) /\ x < p
        BY <1>1, <1>2, <1>3, <1>4, ChosenPlus
      <4>2. w2.area[c] = {x \in w.area[c] : x < p}
        BY <1>6
      <4>3. DOMAIN w2.kids[f] = DOMAIN w.kids[f] \cup {p}
        BY <1>10
      <4> QED BY <1>1, <1>2, <2>1, <2>3, <4>1, <4>2, <4>3 DEF Share
    <3> QED BY <3>1, <3>2, <3>3, <3>4 DEF Edge
  <2>4. CASE k # kc /\ k # p
    <3>1. k \in DOMAIN w.kids[f] /\ w2.kids[f][k] = w.kids[f][k]
      BY <1>10, <2>4
    <3>2. PICK ch : ch = w.kids[f][k]
      OBVIOUS
    <3>3. ch # c
      <4>1. LeastOf(DOMAIN w.kids[ch], k)
        BY <2>1, <3>1, <3>2, <1>1, ChildEdge
      <4> QED BY <1>2, <1>3, <2>4, <4>1 DEF LeastOf
    <3>4. /\ ch \in w2.nodes /\ ch # w2.root
          /\ w2.father[ch] = f
          /\ w2.level[f] = w2.level[ch] + 1
          /\ LeastOf(DOMAIN w2.kids[ch], k)
          /\ w2.area[ch] = Share(w, f, k)
      BY <1>1, <1>13, <2>1, <3>1, <3>2, <3>3
    <3>5. Share(w, f, k)
            = Share(w2, f, k)
      <4>1. \A x \in Int : Chosen(DOMAIN w.kids[f] \cup {p}, x, k) <=> Chosen(DOMAIN w.kids[f], x, k)
        BY <1>1, <1>2, <1>3, <1>4, <2>4, <3>1, ChosenPlus
      <4> QED BY <1>2, <1>10, <2>1, <4>1 DEF Share
    <3> QED BY <3>1, <3>2, <3>4, <3>5 DEF Edge
  <2> QED BY <2>2, <2>3, <2>4
<1>18. ASSUME NEW n \in w2.nodes, w2.level[n] # 0, NEW k \in DOMAIN w2.kids[n]
       PROVE  Edge(w2, n, k)
  <2>1. CASE n = new
    BY <1>6, <1>15, <1>18, <2>1
  <2>2. CASE n = c
    BY <1>6, <1>16, <1>18, <2>2
  <2>3. CASE n = f
    BY <1>17, <1>18, <2>3
  <2>4. CASE n \in w.nodes /\ n # c /\ n # f
    BY <1>6, <1>7, <1>14, <1>18, <2>4
  <2> QED BY <1>6, <2>1, <2>2, <2>3, <2>4
<1>19. ASSUME NEW n \in w2.nodes, n # w2.root
       PROVE  Hangs(w2, n)
  <2>1. CASE n = new
    BY <1>1, <1>6, <1>7, <1>10, <2>1 DEF Hangs
  <2>2. CASE n \in w.nodes
    <3>1. PICK h : h = w.father[n]
      OBVIOUS
    <3>2. PICK k \in DOMAIN w.kids[h] : h \in w.nodes /\ w.kids[h][k] = n /\ w.level[h] # 0
      BY <1>6, <1>19, <2>2, <3>1 DEF Shape, Hangs
    <3>3. k \in Int
      BY <1>2, <3>2
    <3>4. CASE n = c
      <4>1. h = f
        BY <1>0, <3>1, <3>4
      <4>2. Edge(w2, f, kc) /\ w2.kids[f][kc] = c
        BY <1>1, <1>10, <1>17
      <4> QED BY <1>1, <1>6, <1>10, <3>4, <4>2 DEF Edge, Hangs
    <3>5. CASE n # c /\ h # c
      <4>1. w2.father[n] = h
        BY <1>13, <3>2, <3>5
      <4>2. k \in DOMAIN w2.kids[h] /\ w2.kids[h][k] = n
        BY <1>7, <1>10, <3>2, <3>5
      <4> QED BY <1>6, <3>2, <4>1, <4>2 DEF Hangs
    <3>6. CASE n # c /\ h = c
      <4>1. CASE p <= k
        <5>1. w2.father[n] = new
          BY <1>13, <3>2, <3>6, <4>1
        <5>2. k \in DOMAIN w2.kids[new] /\ w2.kids[new][k] = n
          BY <1>8, <3>2, <3>6, <4>1
        <5> QED BY <1>6, <3>2, <3>6, <5>1, <5>2 DEF Hangs
      <4>2. CASE k < p
        <5>1. w2.father[n] = c
          BY <1>13, <3>2, <3>6, <4>2
        <5>2. k \in DOMAIN w2.kids[c] /\ w2.kids[c][k] = n
          BY <1>9, <3>2, <3>6, <4>2
        <5> QED BY <1>6, <3>2, <3>6, <5>1, <5>2 DEF Hangs
      <4> QED BY <1>3, <3>3, <4>1, <4>2
    <3> QED BY <3>4, <3>5, <3>6
  <2> QED BY <1>6, <2>1, <2>2
<1> QED BY <1>11, <1>12, <1>18, <1>19 DEF Shape

-----------------------------------------------------------------------------
(* Where a search goes on when a key of a node is dropped.                 *)
LEMMA ChosenMinus ==
  ASSUME NEW K, K \subseteq Int, NEW kc \in Int, NEW k2 \in Int, kc \in K, k2 \in K, kc < k2,
         \A j \in K : j <= kc \/ k2 <= j, NEW x \in Int, NEW k \in Int, k \in K, k # k2
  PROVE  Chosen(K \ {k2}, x, k) <=> Chosen(K, x, k) \/ (k = kc /\ Chosen(K, x, k2))
<1>1. CASE k = kc
  BY <1>1 DEF Chosen
<1>2. CASE k # kc
  BY <1>2 DEF Chosen
<1> QED BY <1>1, <1>2

(* Where it goes on when the keys of two nodes are put together.           *)
LEMMA ChosenBoth ==
  ASSUME NEW K, NEW L, K \subseteq Int, L \subseteq Int, NEW kc \in Int, kc \in K,
         NEW k2 \in Int, LeastOf(L, k2), \A j \in K : j < k2, NEW x \in Int, NEW k \in Int
  PROVE  /\ k \in K => (Chosen(K \cup L, x, k) <=> x < k2 /\ Chosen(K, x, k))
         /\ k \in L => (Chosen(K \cup L, x, k) <=> k2 <= x /\ Chosen(L, x, k))
<1>1. CASE k \in K
  <2>1. k \notin L
    BY <1>1 DEF LeastOf
  <2>2. Chosen(K \cup L, x, k) <=> x < k2 /\ Chosen(K, x, k)
    BY <1>1 DEF Chosen, LeastOf
  <2> QED BY <1>1, <2>1, <2>2
<1>2. CASE k \in L
  <2>1. k \notin K
    BY <1>2 DEF LeastOf
  <2>2. Chosen(K \cup L, x, k) => k2 <= x /\ Chosen(L, x, k)
    BY <1>2 DEF Chosen, LeastOf
  <2>3. k2 <= x /\ Chosen(L, x, k) => Chosen(K \cup L, x, k)
    BY <1>2 DEF Chosen, LeastOf
  <2> QED BY <1>2, <2>1, <2>2, <2>3
<1> QED BY <1>1, <1>2

(* Node c2, the next child of its father behind c, is merged into c.       *)
MergeView(w, w2, c, c2, k2) ==
  /\ w2.nodes = w.nodes \ {c2}
  /\ w2.root = w.root
  /\ \A n \in w.nodes : n # c /\ n # c2 /\ n # w.father[c] => w2.kids[n] = w.kids[n]
  /\ w2.kids[c] = Both(w.kids[c], w.kids[c2])
  /\ w2.kids[w.father[c]] = Minus(w.kids[w.father[c]], k2)
  /\ \A n \in w.nodes :
       n # c2 => w2.father[n] = IF w.level[c] # 0 /\ \E k \in DOMAIN w.kids[c2] : w.kids[c2][k] = n
                                  THEN c ELSE w.father[n]
  /\ w2.level = [n \in w2.nodes |-> w.level[n]]
  /\ w2.area = [n \in w2.nodes |-> IF n = c THEN w.area[c] \cup w.area[c2] ELSE w.area[n]]

IsKid(w, n, k, ch) == ch = w.kids[n][k]

(* k and k2 are neighbours in K. *)
NextKey(K, k, k2) == k \in K /\ k2 \in K /\ k < k2 /\ \A j \in K : j <= k \/ k2 <= j

(* A merge keeps the shape. *)
LEMMA MergeShape ==
  ASSUME NEW w, Shape(w), NEW c \in w.nodes, c # w.root, NEW kc \in Int, LeastOf(DOMAIN w.kids[c], kc),
         NEW k2 \in Int, NextKey(DOMAIN w.kids[w.father[c]], kc, k2),
         NEW c2 \in w.nodes, IsKid(w, w.father[c], k2, c2),
         NEW w2, MergeView(w, w2, c, c2, k2)
  PROVE  Shape(w2)
<1>0. PICK f : f = w.father[c]
  OBVIOUS
<1>1. /\ f \in w.nodes /\ f # c
      /\ w.level[f] \in Nat /\ w.level[c] \in Nat
      /\ w.level[f] = w.level[c] + 1
      /\ kc \in DOMAIN w.kids[f]
      /\ w.kids[f][kc] = c
      /\ w.area[c] = Share(w, f, kc)
  BY <1>0, FatherKey
<1>2. k2 \in DOMAIN w.kids[f] /\ kc < k2 /\ \A j \in DOMAIN w.kids[f] : j <= kc \/ k2 <= j
  BY <1>0 DEF NextKey
<1>21. c2 = w.kids[f][k2]
  BY <1>0 DEF IsKid
<1>3. /\ c2 \in w.nodes /\ c2 # w.root /\ c2 # f
      /\ w.father[c2] = f
      /\ w.level[c2] = w.level[c]
      /\ LeastOf(DOMAIN w.kids[c2], k2)
      /\ w.area[c2] = Share(w, f, k2)
  <2>1. /\ c2 \in w.nodes /\ c2 # w.root
        /\ w.father[c2] = f
        /\ w.level[f] = w.level[c2] + 1 /\ w.level[c2] \in Nat
        /\ LeastOf(DOMAIN w.kids[c2], k2)
        /\ w.area[c2] = Share(w, f, k2)
    BY <1>1, <1>2, <1>21, ChildEdge
  <2>2. w.level[c2] = w.level[c]
    BY <1>1, <2>1
  <2>3. c2 # f
    BY <1>1, <2>1
  <2> QED BY <2>1, <2>2, <2>3
<1>4. /\ w.area[c] \subseteq Int /\ w.area[f] \subseteq Int /\ w.area[c2] \subseteq Int
      /\ \A n \in w.nodes : DOMAIN w.kids[n] \subseteq Int
      /\ DOMAIN w.kids[c] \subseteq w.area[c]
      /\ DOMAIN w.kids[c2] \subseteq w.area[c2]
      /\ DOMAIN w.kids[f] \subseteq w.area[f]
  BY <1>1, <1>3 DEF Shape
<1>5. /\ \A x \in w.area[c] : x < k2
      /\ \A x \in w.area[c2] : k2 <= x
  <2>1. \A x \in w.area[c] : Chosen(DOMAIN w.kids[f], x, kc)
    BY <1>1 DEF Share
  <2>2. \A x \in w.area[c2] : Chosen(DOMAIN w.kids[f], x, k2)
    BY <1>3 DEF Share
  <2>3. \A x \in w.area[c] : x < k2
    BY <1>2, <1>4, <2>1 DEF Chosen
  <2>4. \A x \in w.area[c2] : k2 <= x
    BY <1>1, <1>2, <1>4, <2>2 DEF Chosen
  <2> QED BY <2>3, <2>4
<1>6. c2 # c /\ \A j \in DOMAIN w.kids[c] : j < k2
  BY <1>2, <1>3, <1>4, <1>5 DEF LeastOf
<1>7. /\ w2.nodes = w.nodes \ {c2} /\ w2.root = w.root
      /\ \A n \in w2.nodes : w2.level[n] = w.level[n]
      /\ w2.area[c] = w.area[c] \cup w.area[c2]
      /\ \A n \in w2.nodes : n # c => w2.area[n] = w.area[n]
  BY <1>6 DEF MergeView
<1>8. /\ w2.kids[c] = Both(w.kids[c], w.kids[c2])
      /\ w2.kids[f] = Minus(w.kids[f], k2)
      /\ \A n \in w.nodes : n # c /\ n # c2 /\ n # f => w2.kids[n] = w.kids[n]
  BY <1>0 DEF MergeView
<1>9. /\ DOMAIN w2.kids[c] = DOMAIN w.kids[c] \cup DOMAIN w.kids[c2]
      /\ \A k \in DOMAIN w.kids[c] : w2.kids[c][k] = w.kids[c][k]
  BY <1>8 DEF Both
<1>10. \A k \in DOMAIN w.kids[c2] : w2.kids[c][k] = w.kids[c2][k] /\ k \notin DOMAIN w.kids[c]
  <2>1. \A k \in DOMAIN w.kids[c2] : k \notin DOMAIN w.kids[c]
    BY <1>3, <1>4, <1>6 DEF LeastOf
  <2> QED BY <1>8, <2>1 DEF Both
<1>11. /\ DOMAIN w2.kids[f] = DOMAIN w.kids[f] \ {k2}
       /\ \A k \in DOMAIN w.kids[f] : k # k2 => w2.kids[f][k] = w.kids[f][k]
  BY <1>8 DEF Minus
<1>12. w2.root \in w2.nodes /\ w2.level \in [w2.nodes -> Nat] /\ w2.area \in [w2.nodes -> SUBSET Int]
       /\ w2.area[w2.root] = Int /\ \A n \in w2.nodes : w2.level[n] <= w2.level[w2.root]
  <2>1. w2.level \in [w2.nodes -> Nat]
    BY <1>7 DEF MergeView, Shape
  <2>2. w2.area \in [w2.nodes -> SUBSET Int]
    BY <1>4, <1>7 DEF MergeView, Shape
  <2>3. w2.root \in w2.nodes
    BY <1>3, <1>7 DEF Shape
  <2>4. w2.area[w2.root] = Int
    BY <1>7, <2>3 DEF Shape
  <2>5. \A n \in w2.nodes : w2.level[n] <= w2.level[w2.root]
    BY <1>7, <2>3 DEF Shape
  <2> QED BY <2>1, <2>2, <2>3, <2>4, <2>5
<1>13. ASSUME NEW n \in w2.nodes
       PROVE  DOMAIN w2.kids[n] \subseteq w2.area[n]
  <2>1. CASE n = c
    BY <1>4, <1>7, <1>9, <2>1
  <2>2. CASE n = f
    BY <1>1, <1>3, <1>4, <1>7, <1>11, <2>2
  <2>3. CASE n # c /\ n # f
    BY <1>7, <1>8, <2>3 DEF Shape
  <2> QED BY <2>1, <2>2, <2>3
<1>14. ASSUME NEW n \in w.nodes, w.level[n] # 0, NEW k \in DOMAIN w.kids[n],
              NEW ch, ch = w.kids[n][k], ch # c, ch # c2
       PROVE  /\ ch \in w2.nodes /\ ch \in w.nodes /\ ch # w2.root
              /\ n # c2 => w2.father[ch] = n
              /\ n = c2 => w2.father[ch] = c
              /\ w.level[n] = w2.level[ch] + 1
              /\ LeastOf(DOMAIN w2.kids[ch], k)
              /\ k \in Int
              /\ w2.area[ch] = Share(w, n, k)
  <2>1. /\ k \in Int
        /\ ch \in w.nodes /\ ch # w.root
        /\ w.father[ch] = n
        /\ w.level[n] \in Nat /\ w.level[ch] \in Nat /\ w.level[n] = w.level[ch] + 1
        /\ LeastOf(DOMAIN w.kids[ch], k)
        /\ w.area[ch] = Share(w, n, k)
    BY <1>14, ChildEdge
  <2>2. w2.father[ch] = IF w.level[c] # 0 /\ \E i \in DOMAIN w.kids[c2] : w.kids[c2][i] = ch
                          THEN c ELSE w.father[ch]
    BY <1>14, <2>1 DEF MergeView
  <2>3. n # c2 => w2.father[ch] = n
    <3>1. ASSUME n # c2, w.level[c] # 0, NEW i \in DOMAIN w.kids[c2], w.kids[c2][i] = ch
          PROVE  FALSE
      <4>1. w.father[ch] = c2
        BY <1>3, <3>1, ChildEdge
      <4> QED BY <2>1, <3>1, <4>1
    <3> QED BY <2>1, <2>2, <3>1
  <2>4. n = c2 => w2.father[ch] = c
    BY <1>3, <1>14, <2>2
  <2>5. ch \in w2.nodes /\ w2.level[ch] = w.level[ch] /\ w2.area[ch] = w.area[ch]
    BY <1>7, <1>14, <2>1
  <2>6. LeastOf(DOMAIN w2.kids[ch], k)
    <3>1. CASE ch = f
      <4>1. k <= kc
        BY <1>1, <2>1, <3>1 DEF LeastOf
      <4> QED BY <1>2, <1>11, <2>1, <3>1, <4>1 DEF LeastOf
    <3>2. CASE ch # f
      BY <1>8, <1>14, <2>1, <3>2
    <3> QED BY <3>1, <3>2
  <2> QED BY <1>7, <2>1, <2>3, <2>4, <2>5, <2>6
<1>15. ASSUME NEW n \in w2.nodes, n # c, n # f, w.level[n] # 0, NEW k \in DOMAIN w.kids[n]
       PROVE  Edge(w2, n, k)
  <2>1. PICK ch : ch = w.kids[n][k]
    OBVIOUS
  <2>2. n \in w.nodes /\ n # c2
    BY <1>7
  <2>3. ch # c /\ ch # c2
    <3>1. w.father[ch] = n
      BY <1>15, <2>1, <2>2, ChildEdge
    <3> QED BY <1>0, <1>3, <1>15, <3>1
  <2>4. w2.kids[n] = w.kids[n] /\ Share(w, n, k) = Share(w2, n, k) /\ w2.level[n] = w.level[n]
    BY <1>7, <1>8, <1>15, <2>2 DEF Share
  <2>5. /\ ch \in w2.nodes /\ ch # w2.root
        /\ w2.father[ch] = n
        /\ w.level[n] = w2.level[ch] + 1
        /\ LeastOf(DOMAIN w2.kids[ch], k)
        /\ w2.area[ch] = Share(w, n, k)
    BY <1>14, <1>15, <2>1, <2>2, <2>3
  <2> QED BY <2>1, <2>4, <2>5 DEF Edge
<1>16. ASSUME NEW n \in {c, c2}, w.level[c] # 0, NEW k \in DOMAIN w.kids[n]
       PROVE  Edge(w2, c, k)
  <2>1. PICK ch : ch = w.kids[n][k]
    OBVIOUS
  <2>2. n \in w.nodes /\ w.level[n] # 0 /\ w.level[n] = w.level[c]
    BY <1>3, <1>16
  <2>3. ch # c /\ ch # c2
    <3>1. w.level[n] = w.level[ch] + 1 /\ w.level[ch] \in Nat
      BY <2>1, <2>2, ChildEdge
    <3>2. w.level[ch] # w.level[c] /\ w.level[ch] # w.level[c2]
      BY <1>3, <2>2, <3>1
    <3> QED BY <3>2
  <2>4. /\ ch \in w2.nodes /\ ch # w2.root
        /\ w2.father[ch] = c
        /\ w.level[n] = w2.level[ch] + 1
        /\ LeastOf(DOMAIN w2.kids[ch], k)
        /\ w2.area[ch] = Share(w, n, k) /\ k \in Int
    <3>1. CASE n = c
      BY <1>6, <1>14, <1>16, <2>1, <2>2, <2>3, <3>1
    <3>2. CASE n = c2
      BY <1>14, <1>16, <2>1, <2>2, <2>3, <3>2
    <3> QED BY <3>1, <3>2
  <2>5. Share(w, n, k) = Share(w2, c, k)
    <3>1. \A x \in Int :
            /\ k \in DOMAIN w.kids[c] =>
                 (Chosen(DOMAIN w2.kids[c], x, k) <=> x < k2 /\ Chosen(DOMAIN w.kids[c], x, k))
            /\ k \in DOMAIN w.kids[c2] =>
                 (Chosen(DOMAIN w2.kids[c], x, k) <=> k2 <= x /\ Chosen(DOMAIN w.kids[c2], x, k))
      <4>1. kc \in DOMAIN w.kids[c]
        BY DEF LeastOf
      <4>2. PICK K : K = DOMAIN w.kids[c]
        OBVIOUS
      <4>3. PICK L : L = DOMAIN w.kids[c2]
        OBVIOUS
      <4>4. K \subseteq Int /\ L \subseteq Int /\ LeastOf(L, k2) /\ kc \in K /\ \A j \in K : j < k2
        BY <1>3, <1>4, <1>6, <4>1, <4>2, <4>3
      <4>5. \A x \in Int : /\ k \in K => (Chosen(K \cup L, x, k) <=> x < k2 /\ Chosen(K, x, k))
                           /\ k \in L => (Chosen(K \cup L, x, k) <=> k2 <= x /\ Chosen(L, x, k))
        BY <2>4, <4>4, ChosenBoth
      <4> QED BY <1>9, <4>2, <4>3, <4>5
    <3>2. CASE n = c
      BY <1>4, <1>5, <1>7, <1>16, <3>1, <3>2 DEF Share
    <3>3. CASE n = c2
      BY <1>4, <1>5, <1>7, <1>16, <3>1, <3>3 DEF Share
    <3> QED BY <3>2, <3>3
  <2>6. w2.kids[c][k] = ch /\ w2.level[c] = w.level[n]
    BY <1>3, <1>6, <1>7, <1>9, <1>10, <2>1
  <2> QED BY <2>4, <2>5, <2>6 DEF Edge
<1>17. ASSUME NEW k \in DOMAIN w2.kids[f]
       PROVE  Edge(w2, f, k)
  <2>1. w.area[f] = w2.area[f] /\ w2.level[f] = w.level[f] /\ w.level[f] # 0 /\ f \in w2.nodes
    BY <1>1, <1>3, <1>7
  <2>2. k \in Int /\ k \in DOMAIN w.kids[f] /\ k # k2 /\ w2.kids[f][k] = w.kids[f][k]
    BY <1>1, <1>4, <1>11
  <2>3. \A x \in Int : Chosen(DOMAIN w2.kids[f], x, k)
                         <=> Chosen(DOMAIN w.kids[f], x, k) \/ (k = kc /\ Chosen(DOMAIN w.kids[f], x, k2))
    <3>1. PICK K : K = DOMAIN w.kids[f]
      OBVIOUS
    <3>2. /\ K \subseteq Int /\ kc \in K /\ k2 \in K /\ kc < k2
          /\ \A j \in K : j <= kc \/ k2 <= j
          /\ k \in K
      BY <1>1, <1>2, <1>4, <2>2, <3>1
    <3>3. \A x \in Int : Chosen(K \ {k2}, x, k) <=> Chosen(K, x, k) \/ (k = kc /\ Chosen(K, x, k2))
      BY <2>2, <3>2, ChosenMinus
    <3> QED BY <1>11, <3>1, <3>3
  <2>4. CASE k = kc
    <3>1. w2.kids[f][k] = c /\ w2.level[f] = w2.level[c] + 1 /\ c \in w2.nodes /\ c # w2.root
      BY <1>1, <1>6, <1>7, <2>1, <2>2, <2>4
    <3>2. w2.father[c] = f
      <4>1. ASSUME w.level[c] # 0, NEW i \in DOMAIN w.kids[c2], w.kids[c2][i] = c
            PROVE  FALSE
        BY <4>1, <1>1, <1>3, ChildEdge
      <4> QED BY <1>0, <1>6, <4>1 DEF MergeView
    <3>3. LeastOf(DOMAIN w2.kids[c], k)
      <4>1. \A j \in DOMAIN w.kids[c2] : kc <= j
        BY <1>2, <1>3, <1>4 DEF LeastOf
      <4> QED BY <1>9, <2>4, <4>1 DEF LeastOf
    <3>4. w2.area[c] = Share(w2, f, k)
      BY <1>1, <1>3, <1>4, <1>7, <2>1, <2>3, <2>4 DEF Share
    <3> QED BY <3>1, <3>2, <3>3, <3>4 DEF Edge
  <2>5. CASE k # kc
    <3>1. PICK ch : ch = w.kids[f][k]
      OBVIOUS
    <3>2. ch # c /\ ch # c2
      <4>1. LeastOf(DOMAIN w.kids[ch], k) /\ ch \in w.nodes
        BY <1>1, <2>1, <2>2, <3>1, ChildEdge
      <4> QED BY <1>3, <1>4, <2>2, <2>5, <4>1 DEF LeastOf
    <3>3. /\ ch \in w2.nodes /\ ch # w2.root
          /\ w2.father[ch] = f
          /\ w.level[f] = w2.level[ch] + 1
          /\ LeastOf(DOMAIN w2.kids[ch], k)
          /\ w2.area[ch] = Share(w, f, k)
      BY <1>1, <1>3, <1>14, <2>1, <2>2, <3>1, <3>2
    <3>4. Share(w, f, k) = Share(w2, f, k)
      BY <1>4, <2>1, <2>3, <2>5 DEF Share
    <3> QED BY <2>1, <2>2, <3>1, <3>3, <3>4 DEF Edge
  <2> QED BY <2>4, <2>5
<1>18. ASSUME NEW n \in w2.nodes, w2.level[n] # 0, NEW k \in DOMAIN w2.kids[n]
       PROVE  Edge(w2, n, k)
  <2>1. CASE n = c
    BY <1>7, <1>9, <1>16, <1>18, <2>1
  <2>2. CASE n = f
    BY <1>17, <1>18, <2>2
  <2>3. CASE n # c /\ n # f
    BY <1>7, <1>8, <1>15, <1>18, <2>3
  <2> QED BY <2>1, <2>2, <2>3
<1>19. ASSUME NEW n \in w2.nodes, n # w2.root
       PROVE  Hangs(w2, n)
  <2>1. n \in w.nodes /\ n # c2 /\ n # w.root
    BY <1>7, <1>19
  <2>2. PICK h : h = w.father[n]
    OBVIOUS
  <2>3. PICK k \in DOMAIN w.kids[h] : h \in w.nodes /\ w.kids[h][k] = n /\ w.level[h] # 0
    BY <2>1, <2>2 DEF Shape, Hangs
  <2>4. CASE n = c
    <3>1. kc \in DOMAIN w2.kids[f] /\ w2.kids[f][kc] = c
      BY <1>1, <1>2, <1>11
    <3>2. Edge(w2, f, kc)
      BY <1>17, <3>1
    <3> QED BY <1>1, <1>3, <1>7, <2>4, <3>1, <3>2 DEF Edge, Hangs
  <2>5. CASE n # c /\ h # c2
    <3>1. w2.father[n] = h /\ h \in w2.nodes
      BY <1>7, <1>14, <2>1, <2>3, <2>5
    <3>2. w2.level[h] # 0
      BY <1>7, <2>3, <3>1
    <3>3. k \in DOMAIN w2.kids[h] /\ w2.kids[h][k] = n
      <4>1. CASE h = f
        BY <1>11, <1>21, <2>1, <2>3, <4>1
      <4>2. CASE h = c
        BY <1>9, <2>3, <4>2
      <4>3. CASE h # c /\ h # f
        BY <1>8, <2>3, <2>5, <4>3
      <4> QED BY <4>1, <4>2, <4>3
    <3> QED BY <3>1, <3>2, <3>3 DEF Hangs
  <2>6. CASE n # c /\ h = c2
    <3>1. w2.father[n] = c
      BY <1>14, <2>1, <2>3, <2>6
    <3>2. k \in DOMAIN w2.kids[c] /\ w2.kids[c][k] = n
      BY <1>9, <1>10, <2>3, <2>6
    <3>3. c \in w2.nodes /\ w2.level[c] # 0
      BY <1>3, <1>6, <1>7, <2>3, <2>6
    <3> QED BY <3>1, <3>2, <3>3 DEF Hangs
  <2> QED BY <2>4, <2>5, <2>6
<1> QED BY <1>12, <1>13, <1>18, <1>19 DEF Shape

-----------------------------------------------------------------------------
(* A new root is put above the old one; k is the smallest key of that.     *)
GrowView(w, w2, new, k) ==
  /\ w2.nodes = w.nodes \cup {new}
  /\ w2.root = new
  /\ \A n \in w.nodes : w2.kids[n] = w.kids[n]
  /\ w2.kids[new] = [j \in {k} |-> w.root]
  /\ \A n \in w.nodes : w2.father[n] = IF n = w.root THEN new ELSE w.father[n]
  /\ w2.level = [n \in w2.nodes |-> IF n = new THEN w.level[w.root] + 1 ELSE w.level[n]]
  /\ w2.area = [n \in w2.nodes |-> IF n = new THEN Int ELSE w.area[n]]

(* A new root keeps the shape. *)
LEMMA GrowShape ==
  ASSUME NEW w, Shape(w), NEW new, new \notin w.nodes,
         NEW k \in Int, LeastOf(DOMAIN w.kids[w.root], k),
         NEW w2, GrowView(w, w2, new, k)
  PROVE  Shape(w2)
<1>0. PICK r \in w.nodes : r = w.root
  BY DEF Shape
<1>1. /\ w2.nodes = w.nodes \cup {new} /\ w2.root = new
      /\ \A n \in w.nodes : w2.level[n] = w.level[n] /\ w2.area[n] = w.area[n] /\ w2.kids[n] = w.kids[n]
      /\ w2.level[new] = w.level[r] + 1 /\ w2.area[new] = Int
  BY <1>0 DEF GrowView
<1>2. DOMAIN w2.kids[new] = {k} /\ w2.kids[new][k] = r
  BY <1>0 DEF GrowView
<1>3. w.level[r] \in Nat /\ w.area[r] = Int /\ LeastOf(DOMAIN w.kids[r], k)
  BY <1>0 DEF Shape
<1>4. /\ w2.level \in [w2.nodes -> Nat] /\ w2.area \in [w2.nodes -> SUBSET Int]
  <2>1. w2.level \in [w2.nodes -> Nat]
    BY <1>0, <1>3 DEF GrowView, Shape
  <2>2. w2.area \in [w2.nodes -> SUBSET Int]
    BY DEF GrowView, Shape
  <2> QED BY <2>1, <2>2
<1>5. \A n \in w2.nodes : w2.level[n] <= w2.level[w2.root]
  BY <1>0, <1>1, <1>3 DEF Shape
<1>6. \A n \in w2.nodes : DOMAIN w2.kids[n] \subseteq w2.area[n]
  BY <1>1, <1>2 DEF Shape
<1>7. ASSUME NEW n \in w.nodes, w.level[n] # 0, NEW j \in DOMAIN w.kids[n]
      PROVE  Edge(w2, n, j)
  <2>1. PICK ch : ch = w.kids[n][j]
    OBVIOUS
  <2>2. /\ ch \in w.nodes /\ ch # r
        /\ w.father[ch] = n
        /\ w.level[n] = w.level[ch] + 1
        /\ LeastOf(DOMAIN w.kids[ch], j)
        /\ w.area[ch] = Share(w, n, j)
    BY <1>0, <1>7, <2>1, ChildEdge
  <2>3. w2.father[ch] = n
    BY <1>0, <2>2 DEF GrowView
  <2>4. Share(w, n, j) = Share(w2, n, j)
    BY <1>1 DEF Share
  <2>5. ch \in w2.nodes /\ ch # w2.root /\ w2.level[n] = w2.level[ch] + 1
    BY <1>1, <2>2
  <2> QED BY <1>1, <2>1, <2>2, <2>3, <2>4, <2>5 DEF Edge
<1>8. Edge(w2, new, k)
  <2>1. w2.father[r] = new
    BY <1>0 DEF GrowView
  <2>2. w2.area[r] = Share(w2, new, k)
    BY <1>1, <1>2, <1>3 DEF Share, Chosen
  <2>3. r # new
    BY <1>0
  <2> QED BY <1>1, <1>2, <1>3, <2>1, <2>2, <2>3 DEF Edge
<1>9. ASSUME NEW n \in w2.nodes, w2.level[n] # 0, NEW j \in DOMAIN w2.kids[n]
      PROVE  Edge(w2, n, j)
  BY <1>1, <1>2, <1>7, <1>8, <1>9
<1>10. ASSUME NEW n \in w2.nodes, n # w2.root
       PROVE  Hangs(w2, n)
  <2>1. CASE n = r
    BY <1>1, <1>2, <1>3, <1>8, <2>1 DEF Hangs, Edge
  <2>2. CASE n # r
    <3>1. n \in w.nodes /\ Hangs(w, n)
      BY <1>0, <1>1, <1>10, <2>2 DEF Shape
    <3>2. w2.father[n] = w.father[n]
      BY <1>0, <2>2, <3>1 DEF GrowView
    <3> QED BY <1>1, <3>1, <3>2 DEF Hangs
  <2> QED BY <2>1, <2>2
<1> QED BY <1>1, <1>4, <1>5, <1>6, <1>9, <1>10 DEF Shape

(* The root gives way to its only child c.                                 *)
ShrinkView(w, w2, c) ==
  /\ w2.nodes = w.nodes \ {w.root}
  /\ w2.root = c
  /\ \A n \in w2.nodes : w2.kids[n] = w.kids[n] /\ w2.father[n] = w.father[n]
  /\ w2.level = [n \in w2.nodes |-> w.level[n]]
  /\ w2.area = [n \in w2.nodes |-> w.area[n]]

(* The root's only child has the shape as well. *)
LEMMA ShrinkShape ==
  ASSUME NEW w, Shape(w), w.level[w.root] # 0, NEW k \in Int, DOMAIN w.kids[w.root] = {k},
         NEW c, IsKid(w, w.root, k, c), NEW w2, ShrinkView(w, w2, c)
  PROVE  Shape(w2)
<1>0. PICK r \in w.nodes : r = w.root
  BY DEF Shape
<1>1. /\ c \in w.nodes /\ c # r
      /\ w.level[r] \in Nat /\ w.level[c] \in Nat /\ w.level[r] = w.level[c] + 1
      /\ w.area[c] = Share(w, r, k)
  <2>1. k \in DOMAIN w.kids[r] /\ c = w.kids[r][k] /\ w.level[r] # 0
    BY <1>0 DEF IsKid
  <2> QED BY <1>0, <2>1, ChildEdge
<1>2. /\ w2.nodes = w.nodes \ {r} /\ w2.root = c
      /\ \A n \in w2.nodes : /\ w2.level[n] = w.level[n] /\ w2.area[n] = w.area[n]
                             /\ w2.kids[n] = w.kids[n] /\ w2.father[n] = w.father[n]
  BY <1>0 DEF ShrinkView
<1>3. w2.area[c] = Int
  <2>1. Share(w, r, k) = Int
    BY <1>0 DEF Share, Chosen, Shape
  <2> QED BY <1>1, <1>2, <2>1
<1>4. w2.level \in [w2.nodes -> Nat] /\ w2.area \in [w2.nodes -> SUBSET Int]
  BY <1>0 DEF ShrinkView, Shape
<1>5. ASSUME NEW n \in w2.nodes, n # c
      PROVE  Hangs(w2, n) /\ w2.level[n] <= w2.level[c]
  <2>1. n \in w.nodes /\ n # w.root
    BY <1>0, <1>2
  <2>2. Hangs(w, n)
    BY <2>1 DEF Shape
  <2>3. PICK h : h = w.father[n]
    OBVIOUS
  <2>4. PICK j \in DOMAIN w.kids[h] : h \in w.nodes /\ w.level[h] # 0 /\ w.kids[h][j] = n
    BY <2>2, <2>3 DEF Hangs
  <2>5. h # r
    <3>1. SUFFICES ASSUME h = r PROVE FALSE
      OBVIOUS
    <3>2. j = k /\ n = c
      BY <1>0, <2>4, <3>1 DEF IsKid
    <3> QED BY <1>5, <3>2
  <2>6. Hangs(w2, n)
    BY <1>2, <2>3, <2>4, <2>5 DEF Hangs
  <2>7. w.level[n] # w.level[r]
    <3>1. w.level[h] = w.level[n] + 1 /\ w.level[n] \in Nat
      BY <2>4, ChildEdge
    <3>2. w.level[h] <= w.level[r]
      BY <1>0, <2>4 DEF Shape
    <3> QED BY <1>1, <3>1, <3>2
  <2>8. w.level[n] <= w.level[r] /\ w.level[n] \in Nat
    BY <1>0, <2>1 DEF Shape
  <2>9. c \in w2.nodes
    BY <1>1, <1>2
  <2> QED BY <1>1, <1>2, <2>6, <2>7, <2>8, <2>9
<1>6. ASSUME NEW n \in w2.nodes, w2.level[n] # 0, NEW j \in DOMAIN w2.kids[n]
      PROVE  Edge(w2, n, j)
  <2>1. PICK ch : ch = w.kids[n][j]
    OBVIOUS
  <2>0. n \in w.nodes /\ n # r /\ w.level[n] # 0 /\ j \in DOMAIN w.kids[n]
    BY <1>2, <1>6
  <2>2. /\ ch \in w.nodes /\ ch # w.root
        /\ w.father[ch] = n
        /\ w.level[n] = w.level[ch] + 1
        /\ LeastOf(DOMAIN w.kids[ch], j)
        /\ w.area[ch] = Share(w, n, j)
    BY <2>0, <2>1, ChildEdge
  <2>3. ch # c
    <3>1. w.father[c] = r
      <4>1. k \in DOMAIN w.kids[r] /\ c = w.kids[r][k] /\ w.level[r] # 0
        BY <1>0 DEF IsKid
      <4> QED BY <4>1, ChildEdge
    <3> QED BY <2>0, <2>2, <3>1
  <2>4. Share(w, n, j) = Share(w2, n, j)
    BY <1>2 DEF Share
  <2>5. ch \in w2.nodes
    BY <1>0, <1>2, <2>2
  <2> QED BY <1>2, <1>6, <2>1, <2>2, <2>3, <2>4, <2>5 DEF Edge
<1>7. c \in w2.nodes /\ \A n \in w2.nodes : w2.level[n] <= w2.level[c]
  <2>1. c \in w2.nodes /\ w2.level[c] \in Nat
    BY <1>1, <1>2
  <2> QED BY <1>5, <2>1
<1>8. \A n \in w2.nodes : DOMAIN w2.kids[n] \subseteq w2.area[n]
  BY <1>2 DEF Shape
<1> QED BY <1>2, <1>3, <1>4, <1>5, <1>6, <1>7, <1>8 DEF Shape

-----------------------------------------------------------------------------
(* The tree as it was, but for the keys of its nodes.                      *)
SameTree(w, w2) ==
  /\ w2.nodes = w.nodes
  /\ w2.root = w.root
  /\ \A n \in w.nodes : w2.father[n] = w.father[n]
  /\ w2.level = w.level

(* The keys of one leaf change.                                            *)
LeafView(w, w2, leaf) ==
  /\ SameTree(w, w2)
  /\ w2.area = w.area
  /\ \A n \in w.nodes : n # leaf => w2.kids[n] = w.kids[n]

(* A leaf may change as long as its smallest key stays. *)
LEMMA LeafShape ==
  ASSUME NEW w, Shape(w), NEW leaf \in w.nodes, w.level[leaf] = 0,
         NEW w2, LeafView(w, w2, leaf),
         DOMAIN w2.kids[leaf] \subseteq w.area[leaf],
         leaf # w.root =>
           \A k \in Int : LeastOf(DOMAIN w.kids[leaf], k) => LeastOf(DOMAIN w2.kids[leaf], k)
  PROVE  Shape(w2)
<1>1. /\ w2.nodes = w.nodes /\ w2.root = w.root /\ w2.level = w.level /\ w2.area = w.area
      /\ \A n \in w.nodes : w2.father[n] = w.father[n]
      /\ \A n \in w.nodes : n # leaf => w2.kids[n] = w.kids[n]
  BY DEF LeafView, SameTree
<1>2. ASSUME NEW n \in w2.nodes, w2.level[n] # 0, NEW k \in DOMAIN w2.kids[n]
      PROVE  Edge(w2, n, k)
  <2>1. n \in w.nodes /\ w.level[n] # 0 /\ n # leaf /\ w2.kids[n] = w.kids[n]
    BY <1>1, <1>2
  <2>2. PICK ch : ch = w.kids[n][k]
    OBVIOUS
  <2>3. /\ ch \in w.nodes /\ ch # w.root /\ k \in Int
        /\ w.father[ch] = n
        /\ w.level[n] = w.level[ch] + 1
        /\ LeastOf(DOMAIN w.kids[ch], k)
        /\ w.area[ch] = Share(w, n, k)
    BY <1>2, <2>1, <2>2, ChildEdge
  <2>4. LeastOf(DOMAIN w2.kids[ch], k)
    BY <1>1, <2>3
  <2>5. Share(w, n, k) = Share(w2, n, k)
    BY <1>1, <2>1 DEF Share
  <2> QED BY <1>1, <2>1, <2>2, <2>3, <2>4, <2>5 DEF Edge
<1>3. ASSUME NEW n \in w2.nodes, n # w2.root
      PROVE  Hangs(w2, n)
  <2>1. Hangs(w, n)
    BY <1>1, <1>3 DEF Shape
  <2>2. PICK h : h = w.father[n]
    OBVIOUS
  <2>3. h \in w.nodes /\ w.level[h] # 0 /\ \E k \in DOMAIN w.kids[h] : w.kids[h][k] = n
    BY <2>1, <2>2 DEF Hangs
  <2>4. h # leaf /\ w2.father[n] = h
    BY <1>1, <1>3, <2>2, <2>3
  <2> QED BY <1>1, <2>3, <2>4 DEF Hangs
<1>4. \A n \in w2.nodes : DOMAIN w2.kids[n] \subseteq w2.area[n]
  BY <1>1 DEF Shape
<1> QED BY <1>1, <1>2, <1>3, <1>4 DEF Shape

(* Key x is put into the leaf that a search for it leads to, and into the  *)
(* inner nodes above, where it is smaller than all others.                 *)
Undercuts(w, n, x) == w.level[n] # 0 /\ x \in w.area[n] /\ \A j \in DOMAIN w.kids[n] : x < j

IsLowered(F, G, x) == \E k \in Int : LeastOf(DOMAIN F, k) /\ G = Renamed(F, k, x)

PutView(w, w2, leaf, x, r) ==
  /\ SameTree(w, w2)
  /\ w2.area = w.area
  /\ w2.kids[leaf] = Plus(w.kids[leaf], x, r)
  /\ \A n \in w.nodes : Undercuts(w, n, x) => IsLowered(w.kids[n], w2.kids[n], x)
  /\ \A n \in w.nodes : n # leaf /\ ~Undercuts(w, n, x) => w2.kids[n] = w.kids[n]

(* Where a search goes on when x takes the place of the smallest key. *)
LEMMA ChosenLowered ==
  ASSUME NEW K, K \subseteq Int, NEW k \in Int, LeastOf(K, k), NEW x \in Int, x < k,
         NEW y \in Int
  PROVE  /\ Chosen((K \ {k}) \cup {x}, y, x) <=> Chosen(K, y, k)
         /\ \A j \in K : j # k => (Chosen((K \ {k}) \cup {x}, y, j) <=> Chosen(K, y, j))
<1>1. Chosen((K \ {k}) \cup {x}, y, x) <=> Chosen(K, y, k)
  BY DEF Chosen, LeastOf
<1>2. ASSUME NEW j \in K, j # k
      PROVE  Chosen((K \ {k}) \cup {x}, y, j) <=> Chosen(K, y, j)
  <2>1. j \in Int /\ k < j
    BY <1>2 DEF LeastOf
  <2> QED BY <1>2, <2>1 DEF Chosen, LeastOf
<1> QED BY <1>1, <1>2

(* What a node with x undercut becomes.                                    *)
Lowered(F, G, k, x) ==
  /\ k \in Int /\ LeastOf(DOMAIN F, k) /\ x < k
  /\ DOMAIN G = (DOMAIN F \ {k}) \cup {x}
  /\ G[x] = F[k]
  /\ \A j \in DOMAIN F : j # k => G[j] = F[j]
  /\ LeastOf(DOMAIN G, x)

(* A node that x undercuts is lowered to it. *)
LEMMA LoweredNode ==
  ASSUME NEW w, Shape(w), NEW n \in w.nodes, NEW x \in Int, Undercuts(w, n, x),
         NEW G, IsLowered(w.kids[n], G, x)
  PROVE  \E k : Lowered(w.kids[n], G, k, x)
<1>1. PICK k \in Int : LeastOf(DOMAIN w.kids[n], k) /\ G = Renamed(w.kids[n], k, x)
  BY DEF IsLowered
<1>2. DOMAIN w.kids[n] \subseteq Int
  BY DEF Shape
<1>3. x < k
  BY <1>1 DEF Undercuts, LeastOf
<1>4. DOMAIN G = (DOMAIN w.kids[n] \ {k}) \cup {x} /\ G[x] = w.kids[n][k]
  BY <1>1 DEF Renamed
<1>5. \A j \in DOMAIN w.kids[n] : j # k => G[j] = w.kids[n][j]
  BY <1>1 DEF Renamed, Undercuts
<1>6. LeastOf(DOMAIN G, x)
  BY <1>2, <1>4 DEF LeastOf, Undercuts
<1>7. Lowered(w.kids[n], G, k, x)
  BY <1>1, <1>3, <1>4, <1>5, <1>6 DEF Lowered
<1> QED BY <1>7

(* Putting a record in keeps the shape. *)
LEMMA PutShape ==
  ASSUME NEW w, Shape(w), NEW leaf \in w.nodes, w.level[leaf] = 0,
         NEW x \in Int, x \in w.area[leaf], x \notin DOMAIN w.kids[leaf],
         NEW r, NEW w2, PutView(w, w2, leaf, x, r)
  PROVE  Shape(w2)
<1>1. /\ w2.nodes = w.nodes /\ w2.root = w.root /\ w2.level = w.level /\ w2.area = w.area
      /\ \A n \in w.nodes : w2.father[n] = w.father[n]
      /\ \A n \in w.nodes : Undercuts(w, n, x) => IsLowered(w.kids[n], w2.kids[n], x)
      /\ \A n \in w.nodes : n # leaf /\ ~Undercuts(w, n, x) => w2.kids[n] = w.kids[n]
      /\ DOMAIN w2.kids[leaf] = DOMAIN w.kids[leaf] \cup {x}
  BY DEF PutView, SameTree, Plus
<1>2. \A n \in w.nodes : DOMAIN w.kids[n] \subseteq w.area[n] /\ w.area[n] \subseteq Int
  BY DEF Shape
(* The smallest key of a child follows that of its father's key for it.    *)
<1>3. ASSUME NEW ch \in w.nodes, NEW k \in Int, LeastOf(DOMAIN w.kids[ch], k)
      PROVE  /\ x \in w.area[ch] /\ x < k => LeastOf(DOMAIN w2.kids[ch], x)
             /\ ~(x \in w.area[ch] /\ x < k) => LeastOf(DOMAIN w2.kids[ch], k)
  <2>1. CASE Undercuts(w, ch, x)
    <3>1. LeastOf(DOMAIN w2.kids[ch], x)
      BY <1>1, <2>1, LoweredNode DEF Lowered
    <3>2. x \in w.area[ch] /\ x < k
      BY <1>3, <2>1 DEF Undercuts, LeastOf
    <3> QED BY <3>1, <3>2
  <2>2. CASE ch # leaf /\ ~Undercuts(w, ch, x)
    <3>1. w2.kids[ch] = w.kids[ch]
      BY <1>1, <2>2
    <3>2. ~(x \in w.area[ch] /\ x < k)
      <4>1. SUFFICES ASSUME x \in w.area[ch], x < k PROVE FALSE
        OBVIOUS
      <4>2. w.level[ch] = 0
        BY <1>2, <1>3, <2>2, <4>1 DEF Undercuts, LeastOf
      <4> QED BY <2>2, <4>1, <4>2, SameLevelApart
    <3> QED BY <1>3, <3>1, <3>2
  <2>3. CASE ch = leaf
    BY <1>1, <1>2, <1>3, <2>3 DEF LeastOf
  <2> QED BY <2>1, <2>2, <2>3
<1>4. ASSUME NEW n \in w.nodes, w.level[n] # 0, NEW k \in DOMAIN w.kids[n], NEW j \in Int,
             \/ j = k /\ ~(Undercuts(w, n, x) /\ LeastOf(DOMAIN w.kids[n], k))
             \/ j = x /\ Undercuts(w, n, x) /\ LeastOf(DOMAIN w.kids[n], k)
      PROVE  Edge(w2, n, j) /\ j \in DOMAIN w2.kids[n] /\ w2.kids[n][j] = w.kids[n][k]
  <2>1. PICK ch : ch = w.kids[n][k]
    OBVIOUS
  <2>2. /\ ch \in w.nodes /\ ch # w.root /\ k \in Int
        /\ w.father[ch] = n
        /\ w.level[n] = w.level[ch] + 1
        /\ LeastOf(DOMAIN w.kids[ch], k)
        /\ w.area[ch] = Share(w, n, k)
    BY <1>4, <2>1, ChildEdge
  <2>3. n # leaf
    BY <1>4
  <2>4. x \in w.area[ch] /\ x < k <=> Undercuts(w, n, x) /\ LeastOf(DOMAIN w.kids[n], k)
    <3>1. ASSUME x \in w.area[ch], x < k
          PROVE  Undercuts(w, n, x) /\ LeastOf(DOMAIN w.kids[n], k)
      <4>1. x \in w.area[n] /\ Chosen(DOMAIN w.kids[n], x, k)
        BY <2>2, <3>1 DEF Share
      <4> QED BY <1>2, <1>4, <2>2, <3>1, <4>1 DEF Undercuts, Chosen, LeastOf
    <3>2. ASSUME Undercuts(w, n, x), LeastOf(DOMAIN w.kids[n], k)
          PROVE  x \in w.area[ch] /\ x < k
      <4>1. x \in w.area[n] /\ x < k
        BY <1>4, <3>2 DEF Undercuts
      <4>2. Chosen(DOMAIN w.kids[n], x, k)
        BY <1>2, <1>4, <2>2, <3>2 DEF Undercuts, Chosen, LeastOf
      <4> QED BY <2>2, <4>1, <4>2 DEF Share
    <3> QED BY <3>1, <3>2
  <2>5. LeastOf(DOMAIN w2.kids[ch], j)
    BY <1>3, <1>4, <2>2, <2>4
  <2>6. /\ j \in DOMAIN w2.kids[n] /\ w2.kids[n][j] = ch
        /\ \A y \in Int : Chosen(DOMAIN w2.kids[n], y, j) <=> Chosen(DOMAIN w.kids[n], y, k)
    <3>1. CASE ~Undercuts(w, n, x)
      BY <1>1, <1>4, <2>1, <2>3, <3>1
    <3>2. CASE Undercuts(w, n, x)
      <4>1. PICK G : G = w2.kids[n]
        OBVIOUS
      <4>2. PICK i \in Int :
              /\ LeastOf(DOMAIN w.kids[n], i) /\ x < i
              /\ DOMAIN G = (DOMAIN w.kids[n] \ {i}) \cup {x}
              /\ G[x] = w.kids[n][i]
              /\ \A h \in DOMAIN w.kids[n] : h # i => G[h] = w.kids[n][h]
        <5>1. IsLowered(w.kids[n], G, x)
          BY <1>1, <3>2, <4>1
        <5>2. PICK i : Lowered(w.kids[n], G, i, x)
          BY <3>2, <5>1, LoweredNode
        <5> QED BY <5>2 DEF Lowered
      <4>3. PICK K : K = DOMAIN w.kids[n]
        OBVIOUS
      <4>4. \A y \in Int : /\ Chosen((K \ {i}) \cup {x}, y, x) <=> Chosen(K, y, i)
                           /\ \A h \in K : h # i => (Chosen((K \ {i}) \cup {x}, y, h) <=> Chosen(K, y, h))
        <5>1. K \subseteq Int /\ LeastOf(K, i) /\ x < i
          BY <1>2, <4>2, <4>3
        <5> QED BY <5>1, ChosenLowered
      <4>5. LeastOf(DOMAIN w.kids[n], k) <=> k = i
        BY <1>2, <1>4, <2>2, <4>2 DEF LeastOf
      <4>6. CASE k = i
        BY <1>4, <2>1, <3>2, <4>1, <4>2, <4>3, <4>4, <4>5, <4>6
      <4>7. CASE k # i
        BY <1>4, <2>1, <3>2, <4>1, <4>2, <4>3, <4>4, <4>5, <4>7
      <4> QED BY <4>6, <4>7
    <3> QED BY <3>1, <3>2
  <2>7. Share(w2, n, j) = Share(w, n, k)
    <3>1. w2.area[n] = w.area[n] /\ w.area[n] \subseteq Int
      BY <1>1, <1>2
    <3> QED BY <2>6, <3>1 DEF Share
  <2> QED BY <1>1, <2>1, <2>2, <2>5, <2>6, <2>7 DEF Edge
<1>5. ASSUME NEW n \in w2.nodes, w2.level[n] # 0, NEW j \in DOMAIN w2.kids[n]
      PROVE  Edge(w2, n, j)
  <2>1. n \in w.nodes /\ w.level[n] # 0 /\ n # leaf
    BY <1>1, <1>5
  <2>2. CASE ~Undercuts(w, n, x)
    <3>1. j \in DOMAIN w.kids[n] /\ j \in Int
      BY <1>1, <1>2, <1>5, <2>1, <2>2
    <3> QED BY <1>4, <2>1, <2>2, <3>1
  <2>3. CASE Undercuts(w, n, x)
    <3>1. PICK k \in Int : LeastOf(DOMAIN w.kids[n], k) /\ DOMAIN w2.kids[n] = (DOMAIN w.kids[n] \ {k}) \cup {x}
      <4>1. PICK k : Lowered(w.kids[n], w2.kids[n], k, x)
        BY <1>1, <2>1, <2>3, LoweredNode
      <4> QED BY <4>1 DEF Lowered
    <3>2. CASE j = x
      <4>1. k \in DOMAIN w.kids[n]
        BY <3>1 DEF LeastOf
      <4> QED BY <1>4, <2>1, <2>3, <3>1, <3>2, <4>1
    <3>3. CASE j # x
      <4>1. j \in DOMAIN w.kids[n] /\ j # k /\ j \in Int
        BY <1>2, <1>5, <2>1, <3>1, <3>3
      <4>2. ~LeastOf(DOMAIN w.kids[n], j)
        BY <3>1, <4>1 DEF LeastOf
      <4> QED BY <1>4, <2>1, <4>1, <4>2
    <3> QED BY <3>2, <3>3
  <2> QED BY <2>2, <2>3
<1>6. ASSUME NEW n \in w2.nodes, n # w2.root
      PROVE  Hangs(w2, n)
  <2>1. Hangs(w, n)
    BY <1>1, <1>6 DEF Shape
  <2>2. PICK h : h = w.father[n]
    OBVIOUS
  <2>3. h \in w.nodes /\ w.level[h] # 0
    BY <2>1, <2>2 DEF Hangs
  <2>4. PICK k \in DOMAIN w.kids[h] : w.kids[h][k] = n
    BY <2>1, <2>2 DEF Hangs
  <2>5. \E j \in DOMAIN w2.kids[h] : w2.kids[h][j] = n
    <3>1. k \in Int
      BY <1>2, <2>3
    <3>2. CASE Undercuts(w, h, x) /\ LeastOf(DOMAIN w.kids[h], k)
      BY <1>4, <2>3, <2>4, <3>2
    <3>3. CASE ~(Undercuts(w, h, x) /\ LeastOf(DOMAIN w.kids[h], k))
      BY <1>4, <2>3, <2>4, <3>1, <3>3
    <3> QED BY <3>2, <3>3
  <2> QED BY <1>1, <1>6, <2>2, <2>3, <2>5 DEF Hangs
<1>7. ASSUME NEW n \in w2.nodes
      PROVE  DOMAIN w2.kids[n] \subseteq w2.area[n]
  <2>1. CASE n = leaf
    BY <1>1, <1>2, <2>1
  <2>2. CASE Undercuts(w, n, x)
    <3>1. PICK k \in Int : DOMAIN w2.kids[n] = (DOMAIN w.kids[n] \ {k}) \cup {x}
      <4>1. PICK k : Lowered(w.kids[n], w2.kids[n], k, x)
        BY <1>1, <1>7, <2>2, LoweredNode
      <4> QED BY <4>1 DEF Lowered
    <3> QED BY <1>1, <1>2, <1>7, <2>2, <3>1 DEF Undercuts
  <2>3. CASE n # leaf /\ ~Undercuts(w, n, x)
    BY <1>1, <1>2, <1>7, <2>3
  <2> QED BY <2>1, <2>2, <2>3
<1> QED BY <1>1, <1>5, <1>6, <1>7 DEF Shape

-----------------------------------------------------------------------------
(* The smallest key k of a leaf is taken out, and k2 is the smallest one   *)
(* then: the nodes above have k2 where they had k, and what is between     *)
(* the two is looked for where the numbers below k are.                    *)
Back(x, k, k2) == IF k <= x /\ x < k2 THEN k - 1 ELSE x

IsRaised(F, G, k, k2) ==
  IF k \in DOMAIN F THEN G = Renamed(F, k, k2) ELSE G = F

RaiseView(w, w2, leaf, k, k2) ==
  /\ SameTree(w, w2)
  /\ w2.area = [n \in w.nodes |-> {x \in Int : Back(x, k, k2) \in w.area[n]}]
  /\ w2.kids[leaf] = Minus(w.kids[leaf], k)
  /\ \A n \in w.nodes : w.level[n] # 0 => IsRaised(w.kids[n], w2.kids[n], k, k2)
  /\ \A n \in w.nodes : w.level[n] = 0 /\ n # leaf => w2.kids[n] = w.kids[n]

RaisedKey(j, k, k2) == IF j = k THEN k2 ELSE j

RaisedKeys(K, k, k2) == IF k \in K THEN (K \ {k}) \cup {k2} ELSE K

(* A search for x in the raised keys goes on where one for Back did. *)
LEMMA ChosenRaised ==
  ASSUME NEW K, K \subseteq Int, NEW k \in Int, NEW k2 \in Int, k < k2,
         \A i \in K : i <= k \/ k2 < i, NEW j \in K, NEW x \in Int
  PROVE  /\ RaisedKey(j, k, k2) \in RaisedKeys(K, k, k2)
         /\ Chosen(RaisedKeys(K, k, k2), x, RaisedKey(j, k, k2)) <=> Chosen(K, Back(x, k, k2), j)
<1>0. j \in Int
  OBVIOUS
<1>1. \A i \in K : i # k => (i <= x <=> i <= Back(x, k, k2))
  BY DEF Back
<1>2. k2 <= x <=> k <= Back(x, k, k2)
  BY DEF Back
<1>3. Back(x, k, k2) \in Int
  BY DEF Back
<1>4. PICK y \in Int : y = Back(x, k, k2)
  BY <1>3
<1>5. CASE k \notin K
  <2>1. RaisedKeys(K, k, k2) = K /\ RaisedKey(j, k, k2) = j /\ \A i \in K : i # k
    BY <1>5 DEF RaisedKeys, RaisedKey
  <2>2. \A i \in K : i <= x <=> i <= y
    BY <1>1, <1>4, <2>1
  <2>3. Chosen(K, x, j) <=> Chosen(K, y, j)
    BY <2>2 DEF Chosen
  <2> QED BY <1>4, <2>1, <2>3
<1>6. CASE k \in K /\ j = k
  <2>1. RaisedKeys(K, k, k2) = (K \ {k}) \cup {k2} /\ RaisedKey(j, k, k2) = k2
    BY <1>6 DEF RaisedKeys, RaisedKey
  <2>2. Chosen((K \ {k}) \cup {k2}, x, k2) <=> Chosen(K, y, k)
    BY <1>1, <1>2, <1>4, <1>6 DEF Chosen
  <2> QED BY <1>4, <1>6, <2>1, <2>2
<1>7. CASE k \in K /\ j # k
  <2>1. RaisedKeys(K, k, k2) = (K \ {k}) \cup {k2} /\ RaisedKey(j, k, k2) = j
    BY <1>7 DEF RaisedKeys, RaisedKey
  <2>2. j <= x <=> j <= y
    BY <1>1, <1>4, <1>7
  <2>3. \A i \in K : i # k => (i <= x <=> i <= y)
    BY <1>1, <1>4
  <2>4. k2 <= x <=> k <= y
    BY <1>2, <1>4
  <2>5. k2 <= j <=> k <= j
    BY <1>0, <1>7
  <2>6. j <= k2 <=> j <= k
    BY <1>0, <1>7
  <2>7. Chosen((K \ {k}) \cup {k2}, x, j) <=> Chosen(K, y, j)
    BY <1>0, <1>7, <2>2, <2>3, <2>4, <2>5, <2>6 DEF Chosen
  <2>8. j \in (K \ {k}) \cup {k2}
    BY <1>7
  <2> QED BY <1>4, <2>1, <2>7, <2>8
<1> QED BY <1>5, <1>6, <1>7

(* No inner node has a key between two neighbouring keys of a leaf.        *)
LEMMA NoInnerKeyBetween ==
  ASSUME NEW w, Shape(w), NEW leaf \in w.nodes, w.level[leaf] = 0,
         NEW k \in Int, NEW k2 \in Int, LeastOf(DOMAIN w.kids[leaf], k), k2 \in DOMAIN w.kids[leaf],
         NEW n \in w.nodes, w.level[n] # 0, NEW j \in DOMAIN w.kids[n]
  PROVE  j <= k \/ k2 < j
<1>1. j \in Int
  BY DEF Shape
<1> SUFFICES ASSUME k < j, j <= k2 PROVE FALSE
  BY <1>1
<1>2. PICK l \in w.nodes : w.level[l] = 0 /\ LeastOf(DOMAIN w.kids[l], j)
  BY InnerKeyIsInLeaf
<1>3. j \in w.area[l]
  BY <1>2 DEF Shape, LeastOf
<1>4. k \in w.area[leaf] /\ k2 \in w.area[leaf]
  BY DEF Shape, LeastOf
<1>5. j \in w.area[leaf]
  BY <1>1, <1>4, AreaConvex DEF Convex
<1>6. l = leaf
  BY <1>1, <1>2, <1>3, <1>5, SameLevelApart
<1>7. j <= k
  BY <1>2, <1>6 DEF LeastOf
<1> QED BY <1>1, <1>7

(* What the keys of the nodes are afterwards.                              *)
LEMMA RaisedNodes ==
  ASSUME NEW w, Shape(w), NEW leaf \in w.nodes, w.level[leaf] = 0,
         NEW k \in Int, NEW k2 \in Int, NextKey(DOMAIN w.kids[leaf], k, k2),
         LeastOf(DOMAIN w.kids[leaf], k),
         NEW w2, RaiseView(w, w2, leaf, k, k2), NEW n \in w.nodes, n # leaf
  PROVE  /\ DOMAIN w2.kids[n] = RaisedKeys(DOMAIN w.kids[n], k, k2)
         /\ \A j \in DOMAIN w.kids[n] : w2.kids[n][RaisedKey(j, k, k2)] = w.kids[n][j]
<1>1. PICK F : F = w.kids[n]
  OBVIOUS
<1>2. PICK G : G = w2.kids[n]
  OBVIOUS
<1>3. CASE w.level[n] # 0
  <2>1. IsRaised(F, G, k, k2)
    BY <1>1, <1>2, <1>3 DEF RaiseView
  <2>2. \A j \in DOMAIN F : j <= k \/ k2 < j
    <3>1. k2 \in DOMAIN w.kids[leaf]
      BY DEF NextKey
    <3> QED BY <1>1, <1>3, <3>1, NoInnerKeyBetween
  <2>3. k < k2 /\ DOMAIN F \subseteq Int
    BY <1>1 DEF NextKey, Shape
  <2>4. DOMAIN G = RaisedKeys(DOMAIN F, k, k2)
    BY <2>1 DEF IsRaised, RaisedKeys, Renamed
  <2>5. ASSUME NEW j \in DOMAIN F
        PROVE  G[RaisedKey(j, k, k2)] = F[j]
    <3>1. j # k2
      BY <2>2, <2>3
    <3> QED BY <2>1, <2>5, <3>1 DEF IsRaised, RaisedKey, Renamed
  <2> QED BY <1>1, <1>2, <2>4, <2>5
<1>4. CASE w.level[n] = 0
  <2>1. G = F
    BY <1>1, <1>2, <1>4 DEF RaiseView
  <2>2. k \notin DOMAIN F
    <3>1. SUFFICES ASSUME k \in DOMAIN w.kids[n] PROVE FALSE
      BY <1>1
    <3>2. k \in w.area[n] /\ k \in w.area[leaf]
      BY <3>1 DEF Shape, LeastOf
    <3> QED BY <1>4, <3>2, SameLevelApart
  <2>3. \A j \in DOMAIN F : RaisedKey(j, k, k2) = j
    BY <2>2 DEF RaisedKey
  <2>4. RaisedKeys(DOMAIN F, k, k2) = DOMAIN F
    BY <2>2 DEF RaisedKeys
  <2> QED BY <1>1, <1>2, <2>1, <2>3, <2>4
<1>5. w.level[n] \in Nat
  BY DEF Shape
<1> QED BY <1>3, <1>4

(* The smallest key is raised with the others. *)
LEMMA RaisedLeast ==
  ASSUME NEW K, K \subseteq Int, NEW k \in Int, NEW k2 \in Int, k < k2,
         k \in K => \A i \in K : i <= k \/ k2 < i, NEW j \in Int, LeastOf(K, j)
  PROVE  LeastOf(RaisedKeys(K, k, k2), RaisedKey(j, k, k2))
BY DEF LeastOf, RaisedKeys, RaisedKey

(* Raising the keys keeps the shape. *)
LEMMA RaiseShape ==
  ASSUME NEW w, Shape(w), NEW leaf \in w.nodes, w.level[leaf] = 0,
         NEW k \in Int, NEW k2 \in Int, NextKey(DOMAIN w.kids[leaf], k, k2),
         LeastOf(DOMAIN w.kids[leaf], k),
         NEW w2, RaiseView(w, w2, leaf, k, k2)
  PROVE  Shape(w2)
<1>1. /\ w2.nodes = w.nodes /\ w2.root = w.root /\ w2.level = w.level
      /\ \A n \in w.nodes : w2.father[n] = w.father[n]
      /\ DOMAIN w2.kids[leaf] = DOMAIN w.kids[leaf] \ {k}
  BY DEF RaiseView, SameTree, Minus
<1>2. \A n \in w.nodes : DOMAIN w.kids[n] \subseteq w.area[n] /\ w.area[n] \subseteq Int
  BY DEF Shape
<1>3. k < k2 /\ k \in DOMAIN w.kids[leaf] /\ k2 \in DOMAIN w.kids[leaf]
      /\ LeastOf(DOMAIN w2.kids[leaf], k2)
  <2>1. PICK K : K = DOMAIN w.kids[leaf]
    OBVIOUS
  <2>2. K \subseteq Int
    BY <1>2, <2>1
  <2>3. NextKey(K, k, k2) /\ LeastOf(K, k)
    BY <2>1
  <2>4. k < k2 /\ k \in K /\ k2 \in K
    BY <2>3 DEF NextKey
  <2>5. LeastOf(K \ {k}, k2)
    <3>1. ASSUME NEW j \in Int, j \in K, j # k
          PROVE  k2 <= j
      BY <2>3, <3>1 DEF NextKey, LeastOf
    <3>2. k2 \in K \ {k} /\ \A j \in K \ {k} : k2 <= j
      BY <2>2, <2>4, <3>1
    <3> QED BY <3>2 DEF LeastOf
  <2> QED BY <1>1, <2>1, <2>4, <2>5
<1>4. \A n \in w.nodes : w.level[n] # 0 =>
        \A j \in DOMAIN w.kids[n] : j <= k \/ k2 < j
  BY <1>3, NoInnerKeyBetween
<1>5. \A n \in w.nodes : w.level[n] = 0 /\ k \in DOMAIN w.kids[n] => n = leaf
  BY <1>2, <1>3, SameLevelApart
<1>6. \A n \in w.nodes : n # leaf => DOMAIN w2.kids[n] = RaisedKeys(DOMAIN w.kids[n], k, k2)
  BY RaisedNodes
(* The key of a node's father for it is renamed as its smallest key is.    *)
<1>7. ASSUME NEW n \in w.nodes, NEW j \in Int, LeastOf(DOMAIN w.kids[n], j)
      PROVE  LeastOf(DOMAIN w2.kids[n], RaisedKey(j, k, k2))
  <2>1. CASE n = leaf
    <3>1. j = k
      BY <1>2, <1>7, <2>1 DEF LeastOf
    <3> QED BY <1>3, <2>1, <3>1 DEF RaisedKey
  <2>2. CASE n # leaf
    <3>1. PICK K : K = DOMAIN w.kids[n]
      OBVIOUS
    <3>2. k \in K => \A i \in K : i <= k \/ k2 < i
      BY <1>4, <1>5, <2>2, <3>1
    <3>3. LeastOf(RaisedKeys(K, k, k2), RaisedKey(j, k, k2))
      BY <1>2, <1>3, <1>7, <3>1, <3>2, RaisedLeast
    <3> QED BY <1>6, <2>2, <3>1, <3>3
  <2> QED BY <2>1, <2>2
<1>8. ASSUME NEW n \in w.nodes, w.level[n] # 0, NEW j \in DOMAIN w.kids[n]
      PROVE  /\ Edge(w2, n, RaisedKey(j, k, k2))
             /\ RaisedKey(j, k, k2) \in DOMAIN w2.kids[n]
             /\ w2.kids[n][RaisedKey(j, k, k2)] = w.kids[n][j]
  <2>1. PICK ch : ch = w.kids[n][j]
    OBVIOUS
  <2>2. /\ ch \in w.nodes /\ ch # w.root /\ j \in Int
        /\ w.father[ch] = n
        /\ w.level[n] = w.level[ch] + 1
        /\ LeastOf(DOMAIN w.kids[ch], j)
        /\ w.area[ch] = Share(w, n, j)
    BY <1>8, <2>1, ChildEdge
  <2>3. n # leaf
    BY <1>8
  <2>4. PICK i \in Int : i = RaisedKey(j, k, k2)
    BY <2>2 DEF RaisedKey
  <2>5. PICK K : K = DOMAIN w.kids[n]
    OBVIOUS
  <2>6. /\ DOMAIN w2.kids[n] = RaisedKeys(K, k, k2)
        /\ w2.kids[n][i] = ch
    BY <2>1, <2>3, <2>4, <2>5, RaisedNodes
  <2>7. /\ i \in RaisedKeys(K, k, k2)
        /\ \A x \in Int : Chosen(RaisedKeys(K, k, k2), x, i) <=> Chosen(K, Back(x, k, k2), j)
    <3>1. \A h \in K : h <= k \/ k2 < h
      BY <1>4, <1>8, <2>5
    <3>2. K \subseteq Int /\ j \in K
      BY <1>2, <2>5
    <3> QED BY <1>3, <2>4, <3>1, <3>2, ChosenRaised
  <2>8. w2.area[ch] = Share(w2, n, i)
    <3>1. w2.area[ch] = {x \in Int : Back(x, k, k2) \in Share(w, n, j)}
      BY <2>2 DEF RaiseView
    <3>2. w2.area[n] = {x \in Int : Back(x, k, k2) \in w.area[n]}
      BY DEF RaiseView
    <3>3. Share(w2, n, i) = {x \in w2.area[n] : Chosen(RaisedKeys(K, k, k2), x, i)}
      BY <2>6 DEF Share
    <3>4. Share(w, n, j) = {y \in w.area[n] : Chosen(K, y, j)}
      BY <2>5 DEF Share
    <3> QED BY <2>7, <3>1, <3>2, <3>3, <3>4
  <2>9. LeastOf(DOMAIN w2.kids[ch], i)
    BY <1>7, <2>2, <2>4
  <2>10. Edge(w2, n, i)
    BY <1>1, <2>2, <2>6, <2>8, <2>9 DEF Edge
  <2> QED BY <2>1, <2>4, <2>6, <2>7, <2>10
<1>9. ASSUME NEW n \in w2.nodes, w2.level[n] # 0, NEW i \in DOMAIN w2.kids[n]
      PROVE  Edge(w2, n, i)
  <2>1. n \in w.nodes /\ w.level[n] # 0 /\ n # leaf
    BY <1>1, <1>9
  <2>2. i \in RaisedKeys(DOMAIN w.kids[n], k, k2)
    BY <1>6, <1>9, <2>1
  <2>3. \E j \in DOMAIN w.kids[n] : i = RaisedKey(j, k, k2)
    BY <2>2 DEF RaisedKeys, RaisedKey
  <2> QED BY <1>8, <2>1, <2>3
<1>10. ASSUME NEW n \in w2.nodes, n # w2.root
       PROVE  Hangs(w2, n)
  <2>1. Hangs(w, n)
    BY <1>1, <1>10 DEF Shape
  <2>2. PICK h : h = w.father[n]
    OBVIOUS
  <2>3. h \in w.nodes /\ w.level[h] # 0
    BY <2>1, <2>2 DEF Hangs
  <2>4. PICK j \in DOMAIN w.kids[h] : w.kids[h][j] = n
    BY <2>1, <2>2 DEF Hangs
  <2>5. \E i \in DOMAIN w2.kids[h] : w2.kids[h][i] = n
    BY <1>8, <2>3, <2>4
  <2> QED BY <1>1, <1>10, <2>2, <2>3, <2>5 DEF Hangs
<1>11. ASSUME NEW n \in w.nodes, NEW i \in DOMAIN w2.kids[n]
       PROVE  i \in w2.area[n]
  <2>0. w2.area[n] = {x \in Int : Back(x, k, k2) \in w.area[n]}
    BY DEF RaiseView
  <2>1. CASE n = leaf
    <3>1. i \in DOMAIN w.kids[leaf] /\ i # k
      BY <1>1, <1>11, <2>1
    <3>2. k2 <= i /\ i \in Int
      BY <1>2, <3>1 DEF NextKey, LeastOf
    <3>3. Back(i, k, k2) = i
      BY <3>2 DEF Back
    <3> QED BY <1>2, <2>0, <2>1, <3>1, <3>2, <3>3
  <2>2. CASE n # leaf
    <3>1. i \in RaisedKeys(DOMAIN w.kids[n], k, k2)
      BY <1>6, <1>11, <2>2
    <3>2. PICK j \in DOMAIN w.kids[n] : i = RaisedKey(j, k, k2)
      BY <3>1 DEF RaisedKeys, RaisedKey
    <3>3. j \in Int /\ j \in w.area[n]
      BY <1>2
    <3>4. CASE j = k
      <4>1. i = k2 /\ Back(k2, k, k2) = k2
        BY <1>3, <3>2, <3>4 DEF RaisedKey, Back
      <4>2. k \in w.area[leaf] /\ k2 \in w.area[leaf] /\ w.level[leaf] <= w.level[n]
        BY <1>2, <1>3 DEF Shape
      <4>3. w.area[leaf] \subseteq w.area[n]
        BY <3>3, <3>4, <4>2, AreasNested
      <4> QED BY <2>0, <4>1, <4>2, <4>3
    <3>5. CASE j # k
      <4>1. i = j
        BY <3>2, <3>5 DEF RaisedKey
      <4>2. ~(k < j /\ j < k2)
        <5>1. CASE w.level[n] # 0
          BY <1>3, <1>4, <3>3, <5>1
        <5>2. CASE w.level[n] = 0
          <6> SUFFICES ASSUME k < j, j < k2 PROVE FALSE
            OBVIOUS
          <6>1. j \in w.area[leaf]
            BY <1>2, <1>3, <3>3, AreaConvex DEF Convex
          <6> QED BY <2>2, <3>3, <5>2, <6>1, SameLevelApart
        <5> QED BY <5>1, <5>2
      <4>3. Back(j, k, k2) = j
        BY <3>3, <3>5, <4>2 DEF Back
      <4> QED BY <2>0, <3>3, <4>1, <4>3
    <3> QED BY <3>4, <3>5
  <2> QED BY <2>1, <2>2
<1>12. /\ w2.area \in [w2.nodes -> SUBSET Int]
       /\ w2.area[w2.root] = Int
  <2>1. w2.area \in [w2.nodes -> SUBSET Int]
    BY <1>1 DEF RaiseView
  <2>2. w.root \in w.nodes /\ w.area[w.root] = Int
    BY DEF Shape
  <2>3. \A x \in Int : Back(x, k, k2) \in Int
    BY DEF Back
  <2>4. w2.area[w.root] = {x \in Int : Back(x, k, k2) \in w.area[w.root]}
    BY <2>2 DEF RaiseView
  <2> QED BY <1>1, <2>1, <2>2, <2>3, <2>4
<1>13. \A n \in w2.nodes : DOMAIN w2.kids[n] \subseteq w2.area[n]
  BY <1>1, <1>11
<1>14. /\ w2.root \in w2.nodes
       /\ w2.level \in [w2.nodes -> Nat]
       /\ \A n \in w2.nodes : w2.level[n] <= w2.level[w2.root]
  BY <1>1 DEF Shape
<1> QED BY <1>9, <1>10, <1>12, <1>13, <1>14 DEF Shape

-----------------------------------------------------------------------------
(* The arrays key and child of a node: ks is in ascending order, and Kids  *)
(* is the function that takes each key to the child beside it.             *)
Kids(ks, cs) == [k \in Range(ks) |-> cs[CHOOSE i \in DOMAIN ks : ks[i] = k]]

Ascending(ks) == \A i, j \in 1..Len(ks) : i < j => ks[i] < ks[j]

Arrays(C, ks, cs) ==
  ks \in Seq(Keys) /\ cs \in Seq(C) /\ Len(cs) = Len(ks) /\ Ascending(ks)

(* F takes the keys of ks to what is beside them in cs.                    *)
Pairs(F, ks, cs) ==
  /\ F = [k \in DOMAIN F |-> F[k]]
  /\ \A k \in DOMAIN F : \E i \in 1..Len(ks) : ks[i] = k
  /\ \A i \in 1..Len(ks) : ks[i] \in DOMAIN F /\ F[ks[i]] = cs[i]

(* What is in a sequence. *)
LEMMA RangeIs ==
  ASSUME NEW S, NEW s \in Seq(S)
  PROVE  /\ \A k : k \in Range(s) <=> \E i \in 1..Len(s) : s[i] = k
         /\ Range(s) \subseteq S
<1>1. DOMAIN s = 1..Len(s)
  OBVIOUS
<1>2. Range(s) = {s[i] : i \in 1..Len(s)}
  BY <1>1 DEF Range
<1> QED BY <1>2

(* Positions have the order of the keys at them. *)
LEMMA AscendingUnique ==
  ASSUME NEW ks \in Seq(Keys), Ascending(ks), NEW i \in 1..Len(ks), NEW j \in 1..Len(ks)
  PROVE  /\ ks[i] \in Int
         /\ ks[i] = ks[j] => i = j
         /\ ks[i] < ks[j] => i < j
         /\ ks[i] <= ks[j] => i <= j
<1>1. ks[i] \in Int /\ ks[j] \in Int
  <2>1. ks[i] \in Keys /\ ks[j] \in Keys
    BY ElementOfSeq
  <2> QED BY <2>1, TreeConstants
<1>2. i < j => ks[i] < ks[j]
  BY DEF Ascending
<1>3. j < i => ks[j] < ks[i]
  BY DEF Ascending
<1> QED BY <1>1, <1>2, <1>3

(* Kids takes each key to what is beside it, ... *)
LEMMA KidsArePairs ==
  ASSUME NEW C, NEW ks, NEW cs, Arrays(C, ks, cs)
  PROVE  Pairs(Kids(ks, cs), ks, cs)
<1>1. PICK F : F = Kids(ks, cs)
  OBVIOUS
<1>2. F = [k \in Range(ks) |-> cs[CHOOSE i \in DOMAIN ks : ks[i] = k]]
  BY <1>1 DEF Kids
<1>3. ks \in Seq(Keys) /\ Ascending(ks)
  BY DEF Arrays
<1>4. /\ \A k : k \in Range(ks) <=> \E i \in 1..Len(ks) : ks[i] = k
      /\ DOMAIN ks = 1..Len(ks)
  BY <1>3, RangeIs
<1>5. ASSUME NEW i \in 1..Len(ks)
      PROVE  ks[i] \in DOMAIN F /\ F[ks[i]] = cs[i]
  <2>1. ks[i] \in Range(ks)
    BY <1>4
  <2>2. PICK p : p = CHOOSE q \in DOMAIN ks : ks[q] = ks[i]
    OBVIOUS
  <2>3. p \in DOMAIN ks /\ ks[p] = ks[i]
    BY <1>4, <2>2
  <2>4. p = i
    BY <1>3, <1>4, <2>3, AscendingUnique
  <2>5. F[ks[i]] = cs[CHOOSE q \in DOMAIN ks : ks[q] = ks[i]]
    BY <1>2, <2>1
  <2> QED BY <1>2, <2>1, <2>2, <2>4, <2>5
<1>6. DOMAIN F = Range(ks) /\ F = [k \in DOMAIN F |-> F[k]]
  BY <1>2
<1> QED BY <1>1, <1>4, <1>5, <1>6 DEF Pairs

(* ... and is the only function that does. *)
LEMMA PairsAreKids ==
  ASSUME NEW C, NEW ks, NEW cs, Arrays(C, ks, cs), NEW F, Pairs(F, ks, cs)
  PROVE  F = Kids(ks, cs)
<1>1. PICK G : G = Kids(ks, cs)
  OBVIOUS
<1>2. Pairs(G, ks, cs)
  BY <1>1, KidsArePairs
<1>3. /\ F = [k \in DOMAIN F |-> F[k]] /\ G = [k \in DOMAIN G |-> G[k]]
      /\ \A k \in DOMAIN F : \E i \in 1..Len(ks) : ks[i] = k
      /\ \A k \in DOMAIN G : \E i \in 1..Len(ks) : ks[i] = k
      /\ \A i \in 1..Len(ks) : ks[i] \in DOMAIN F /\ F[ks[i]] = cs[i]
      /\ \A i \in 1..Len(ks) : ks[i] \in DOMAIN G /\ G[ks[i]] = cs[i]
  BY <1>2 DEF Pairs
<1>4. DOMAIN F = DOMAIN G
  BY <1>3
<1>5. \A k \in DOMAIN F : F[k] = G[k]
  BY <1>3
<1> QED BY <1>1, <1>3, <1>4, <1>5

(* The elements of t are those of s and e at i.                            *)
InsertedAt(t, s, i, e) ==
  /\ Len(t) = Len(s) + 1
  /\ \A k \in 1..Len(s) + 1 :
       t[k] = IF k < i THEN s[k] ELSE IF k = i THEN e ELSE s[k - 1]

(* What InsertAt does. *)
LEMMA InsertAtElements ==
  ASSUME NEW S, NEW s \in Seq(S), NEW e \in S, NEW i \in 1..Len(s) + 1
  PROVE  InsertAt(s, i, e) \in Seq(S) /\ InsertedAt(InsertAt(s, i, e), s, i, e)
<1>0. PICK t : t = InsertAt(s, i, e)
  OBVIOUS
<1> DEFINE a == SubSeq(s, 1, i - 1)
           z == SubSeq(s, i, Len(s))
<1>1. /\ a \in Seq(S) /\ Len(a) = i - 1
      /\ \A k \in 1..i - 1 : a[k] = s[k]
  OBVIOUS
<1>2. /\ z \in Seq(S) /\ Len(z) = Len(s) - i + 1
      /\ \A k \in 1..Len(s) - i + 1 : z[k] = s[i + k - 1]
  OBVIOUS
<1>3. t = a \o <<e>> \o z
  BY <1>0 DEF InsertAt
<1> HIDE DEF a, z
<1> DEFINE h == a \o <<e>>
<1>4. /\ h \in Seq(S) /\ Len(h) = i
      /\ \A k \in 1..i : h[k] = IF k < i THEN s[k] ELSE e
  BY <1>1
<1>5. t = h \o z
  BY <1>3
<1> HIDE DEF h
<1>6. t \in Seq(S) /\ Len(t) = Len(s) + 1
  <2>1. t \in Seq(S) /\ Len(t) = Len(h) + Len(z)
    <3> HIDE DEF z
    <3> QED BY <1>2, <1>4, <1>5, ConcatProperties, ZenonT(60)
  <2>2. Len(s) \in Nat
    OBVIOUS
  <2> QED BY <1>2, <1>4, <2>1, <2>2
<1>7. ASSUME NEW k \in 1..Len(s) + 1
      PROVE  t[k] = IF k < i THEN s[k] ELSE IF k = i THEN e ELSE s[k - 1]
  <2>1. CASE k <= i
    BY <1>2, <1>4, <1>5, <2>1
  <2>2. CASE i < k
    <3>1. t[k] = z[k - i]
      BY <1>2, <1>4, <1>5, <2>2
    <3> QED BY <1>2, <2>2, <3>1
  <2> QED BY <2>1, <2>2
<1> QED BY <1>0, <1>6, <1>7 DEF InsertedAt

(* The elements of t are those of s but the one at i. *)
OmitsAt(t, s, i) ==
  /\ Len(t) = Len(s) - 1
  /\ \A k \in 1..Len(s) - 1 : t[k] = IF k < i THEN s[k] ELSE s[k + 1]

(* What RemoveAt does. *)
LEMMA RemoveAtElements ==
  ASSUME NEW S, NEW s \in Seq(S), NEW i \in 1..Len(s)
  PROVE  RemoveAt(s, i) \in Seq(S) /\ OmitsAt(RemoveAt(s, i), s, i)
<1>0. PICK t : t = RemoveAt(s, i)
  OBVIOUS
<1> DEFINE a == SubSeq(s, 1, i - 1)
           z == SubSeq(s, i + 1, Len(s))
<1>1. /\ a \in Seq(S) /\ Len(a) = i - 1
      /\ \A k \in 1..i - 1 : a[k] = s[k]
  OBVIOUS
<1>2. /\ z \in Seq(S) /\ Len(z) = Len(s) - i
      /\ \A k \in 1..Len(s) - i : z[k] = s[i + k]
  OBVIOUS
<1>3. t = a \o z
  BY <1>0 DEF RemoveAt
<1> HIDE DEF a, z
<1>4. t \in Seq(S) /\ Len(t) = Len(s) - 1
  <2>1. t \in Seq(S) /\ Len(t) = Len(a) + Len(z)
    BY <1>1, <1>2, <1>3, ConcatProperties, ZenonT(60)
  <2>2. Len(s) \in Nat
    OBVIOUS
  <2> QED BY <1>1, <1>2, <2>1, <2>2
<1>5. ASSUME NEW k \in 1..Len(s) - 1
      PROVE  t[k] = IF k < i THEN s[k] ELSE s[k + 1]
  <2>1. CASE k < i
    BY <1>1, <1>2, <1>3, <2>1
  <2>2. CASE i <= k
    <3>1. t[k] = z[k - (i - 1)]
      BY <1>1, <1>2, <1>3, <2>2
    <3> QED BY <1>2, <2>2, <3>1
  <2> QED BY <2>1, <2>2
<1> QED BY <1>0, <1>4, <1>5 DEF OmitsAt

-----------------------------------------------------------------------------
(* What the operations on the arrays of a node do to its keys and kids.    *)
LEMMA InsertKids ==
  ASSUME NEW C, NEW ks, NEW cs, Arrays(C, ks, cs), NEW k \in Keys, NEW v \in C,
         NEW i \in 1..Len(ks) + 1,
         \A j \in 1..Len(ks) : (j < i => ks[j] < k) /\ (i <= j => k < ks[j])
  PROVE  /\ Arrays(C, InsertAt(ks, i, k), InsertAt(cs, i, v))
         /\ Len(InsertAt(ks, i, k)) = Len(ks) + 1
         /\ Kids(InsertAt(ks, i, k), InsertAt(cs, i, v)) = Plus(Kids(ks, cs), k, v)
<1>1. PICK k2 : k2 = InsertAt(ks, i, k)
  OBVIOUS
<1>2. PICK c2 : c2 = InsertAt(cs, i, v)
  OBVIOUS
<1>3. ks \in Seq(Keys) /\ cs \in Seq(C) /\ Len(cs) = Len(ks) /\ Ascending(ks) /\ k \in Int
      /\ Len(ks) \in Nat
  BY TreeConstants DEF Arrays
<1>4. /\ k2 \in Seq(Keys) /\ Len(k2) = Len(ks) + 1
      /\ \A j \in 1..Len(ks) + 1 : k2[j] = IF j < i THEN ks[j] ELSE IF j = i THEN k ELSE ks[j - 1]
  <2>1. k2 \in Seq(Keys) /\ InsertedAt(k2, ks, i, k)
    BY <1>1, <1>3, InsertAtElements
  <2> QED BY <2>1 DEF InsertedAt
<1>5. /\ c2 \in Seq(C) /\ Len(c2) = Len(ks) + 1
      /\ \A j \in 1..Len(ks) + 1 : c2[j] = IF j < i THEN cs[j] ELSE IF j = i THEN v ELSE cs[j - 1]
  <2>1. c2 \in Seq(C) /\ InsertedAt(c2, cs, i, v)
    BY <1>2, <1>3, InsertAtElements
  <2> QED BY <1>3, <2>1 DEF InsertedAt
<1>6. PICK n \in Nat : n = Len(ks)
  BY <1>3
<1>7. \A j \in 1..n : ks[j] \in Int
  BY <1>3, <1>6, AscendingUnique
<1>8. Ascending(k2)
  <2> SUFFICES ASSUME NEW a \in 1..n + 1, NEW b \in 1..n + 1, a < b
               PROVE  k2[a] < k2[b]
    BY <1>4, <1>6 DEF Ascending
  <2>1. \A x, y \in 1..n : x < y => ks[x] < ks[y]
    BY <1>3, <1>6 DEF Ascending
  <2>2. CASE b < i
    <3>1. a \in 1..n /\ b \in 1..n
      BY <1>6, <2>2
    <3> QED BY <1>4, <1>6, <2>1, <2>2, <3>1
  <2>3. CASE b = i
    <3>1. a \in 1..n
      BY <1>6, <2>3
    <3> QED BY <1>4, <1>6, <2>3, <3>1
  <2>4. CASE i < b
    <3>1. b - 1 \in 1..n /\ k2[b] = ks[b - 1]
      BY <1>4, <1>6, <2>4
    <3>2. CASE a < i
      <4>1. a \in 1..n /\ a < b - 1 /\ k2[a] = ks[a]
        BY <1>4, <1>6, <2>4, <3>2
      <4> QED BY <2>1, <3>1, <4>1
    <3>3. CASE a = i
      <4>1. i <= b - 1 /\ k2[a] = k
        BY <1>4, <1>6, <2>4, <3>3
      <4> QED BY <1>6, <3>1, <4>1
    <3>4. CASE i < a
      <4>1. a - 1 \in 1..n /\ a - 1 < b - 1 /\ k2[a] = ks[a - 1]
        BY <1>4, <1>6, <3>4
      <4> QED BY <2>1, <3>1, <4>1
    <3> QED BY <3>2, <3>3, <3>4
  <2> QED BY <2>2, <2>3, <2>4
<1>9. Arrays(C, k2, c2)
  BY <1>4, <1>5, <1>8 DEF Arrays
<1>10. PICK F : F = Kids(ks, cs)
  OBVIOUS
<1>11. PICK G : G = Plus(F, k, v)
  OBVIOUS
<1>12. /\ \A x \in DOMAIN F : \E j \in 1..n : ks[j] = x
       /\ \A j \in 1..n : ks[j] \in DOMAIN F /\ F[ks[j]] = cs[j]
  BY <1>6, <1>10, KidsArePairs DEF Pairs
<1>13. /\ G = [x \in DOMAIN G |-> G[x]] /\ DOMAIN G = DOMAIN F \cup {k} /\ G[k] = v
       /\ \A x \in DOMAIN F : x # k => G[x] = F[x]
  BY <1>11 DEF Plus
<1>14. Pairs(G, k2, c2)
  <2>1. ASSUME NEW x \in DOMAIN G
        PROVE  \E j \in 1..n + 1 : k2[j] = x
    <3>1. CASE x = k
      BY <1>4, <1>6, <3>1
    <3>2. CASE x # k
      <4>1. PICK j \in 1..n : ks[j] = x
        BY <1>12, <1>13, <2>1, <3>2
      <4>2. CASE j < i
        BY <1>4, <1>6, <4>1, <4>2
      <4>3. CASE i <= j
        <5>1. j + 1 \in 1..n + 1 /\ k2[j + 1] = ks[j]
          BY <1>4, <1>6, <4>3
        <5> QED BY <4>1, <5>1
      <4> QED BY <1>6, <4>2, <4>3
    <3> QED BY <3>1, <3>2
  <2>2. ASSUME NEW j \in 1..n + 1
        PROVE  k2[j] \in DOMAIN G /\ G[k2[j]] = c2[j]
    <3>1. CASE j = i
      BY <1>4, <1>5, <1>6, <1>13, <3>1
    <3>2. CASE j < i
      <4>1. j \in 1..n /\ k2[j] = ks[j] /\ c2[j] = cs[j] /\ ks[j] < k
        BY <1>4, <1>5, <1>6, <3>2
      <4>2. ks[j] # k
        BY <1>3, <1>7, <4>1
      <4> QED BY <1>12, <1>13, <4>1, <4>2
    <3>3. CASE i < j
      <4>1. j - 1 \in 1..n /\ k2[j] = ks[j - 1] /\ c2[j] = cs[j - 1] /\ k < ks[j - 1]
        BY <1>4, <1>5, <1>6, <3>3
      <4>2. ks[j - 1] # k
        BY <1>3, <1>7, <4>1
      <4> QED BY <1>12, <1>13, <4>1, <4>2
    <3> QED BY <1>6, <3>1, <3>2, <3>3
  <2> QED BY <1>4, <1>6, <1>13, <2>1, <2>2 DEF Pairs
<1>15. G = Kids(k2, c2)
  BY <1>9, <1>14, PairsAreKids
<1> QED BY <1>1, <1>2, <1>4, <1>9, <1>10, <1>11, <1>15

(* The entry at position i is taken out. *)
LEMMA RemoveKids ==
  ASSUME NEW C, NEW ks, NEW cs, Arrays(C, ks, cs), NEW i \in 1..Len(ks)
  PROVE  /\ Arrays(C, RemoveAt(ks, i), RemoveAt(cs, i))
         /\ Len(RemoveAt(ks, i)) = Len(ks) - 1
         /\ Kids(RemoveAt(ks, i), RemoveAt(cs, i)) = Minus(Kids(ks, cs), ks[i])
<1>1. PICK k2 : k2 = RemoveAt(ks, i)
  OBVIOUS
<1>2. PICK c2 : c2 = RemoveAt(cs, i)
  OBVIOUS
<1>3. ks \in Seq(Keys) /\ cs \in Seq(C) /\ Len(cs) = Len(ks) /\ Ascending(ks) /\ Len(ks) \in Nat
  BY DEF Arrays
<1>4. /\ k2 \in Seq(Keys) /\ Len(k2) = Len(ks) - 1
      /\ \A j \in 1..Len(ks) - 1 : k2[j] = IF j < i THEN ks[j] ELSE ks[j + 1]
  <2>1. k2 \in Seq(Keys) /\ OmitsAt(k2, ks, i)
    BY <1>1, <1>3, RemoveAtElements
  <2> QED BY <2>1 DEF OmitsAt
<1>5. /\ c2 \in Seq(C) /\ Len(c2) = Len(ks) - 1
      /\ \A j \in 1..Len(ks) - 1 : c2[j] = IF j < i THEN cs[j] ELSE cs[j + 1]
  <2>1. c2 \in Seq(C) /\ OmitsAt(c2, cs, i)
    BY <1>2, <1>3, RemoveAtElements
  <2> QED BY <1>3, <2>1 DEF OmitsAt
<1>6. PICK n \in Nat : n = Len(ks)
  BY <1>3
<1>7. \A x, y \in 1..n : x < y => ks[x] < ks[y]
  BY <1>3, <1>6 DEF Ascending
<1>8. Ascending(k2)
  <2> SUFFICES ASSUME NEW a \in 1..n - 1, NEW b \in 1..n - 1, a < b
               PROVE  k2[a] < k2[b]
    BY <1>4, <1>6 DEF Ascending
  <2>0. i \in 1..n /\ \A j \in 1..n - 1 : k2[j] = ks[IF j < i THEN j ELSE j + 1]
    BY <1>4, <1>6
  <2>1. PICK x \in 1..n : x = (IF a < i THEN a ELSE a + 1) /\ k2[a] = ks[x]
    BY <2>0
  <2>2. PICK y \in 1..n : y = (IF b < i THEN b ELSE b + 1) /\ k2[b] = ks[y]
    BY <2>0
  <2>3. x < y
    BY <2>1, <2>2
  <2> QED BY <1>7, <2>1, <2>2, <2>3
<1>9. Arrays(C, k2, c2)
  BY <1>4, <1>5, <1>8 DEF Arrays
<1>10. PICK F : F = Kids(ks, cs)
  OBVIOUS
<1>11. PICK G : G = Minus(F, ks[i])
  OBVIOUS
<1>12. /\ \A x \in DOMAIN F : \E j \in 1..n : ks[j] = x
       /\ \A j \in 1..n : ks[j] \in DOMAIN F /\ F[ks[j]] = cs[j]
  BY <1>6, <1>10, KidsArePairs DEF Pairs
<1>13. /\ G = [x \in DOMAIN G |-> G[x]] /\ DOMAIN G = DOMAIN F \ {ks[i]}
       /\ \A x \in DOMAIN G : G[x] = F[x]
  BY <1>11 DEF Minus
<1>14. Pairs(G, k2, c2)
  <2>1. ASSUME NEW x \in DOMAIN G
        PROVE  \E j \in 1..n - 1 : k2[j] = x
    <3>1. PICK j \in 1..n : ks[j] = x /\ j # i
      BY <1>12, <1>13, <2>1
    <3>2. CASE j < i
      BY <1>4, <1>6, <3>1, <3>2
    <3>3. CASE i < j
      <4>1. j - 1 \in 1..n - 1 /\ k2[j - 1] = ks[j]
        BY <1>4, <1>6, <3>3
      <4> QED BY <3>1, <4>1
    <3> QED BY <1>6, <3>1, <3>2, <3>3
  <2>2. ASSUME NEW j \in 1..n - 1
        PROVE  k2[j] \in DOMAIN G /\ G[k2[j]] = c2[j]
    <3>1. PICK x \in 1..n : x # i /\ k2[j] = ks[x] /\ c2[j] = cs[x]
      <4>1. PICK x \in 1..n : x = IF j < i THEN j ELSE j + 1
        BY <1>6
      <4> QED BY <1>4, <1>5, <1>6, <4>1
    <3>2. ks[x] # ks[i]
      BY <1>3, <1>6, <3>1, AscendingUnique
    <3> QED BY <1>12, <1>13, <3>1, <3>2
  <2> QED BY <1>4, <1>6, <1>13, <2>1, <2>2 DEF Pairs
<1>15. G = Kids(k2, c2)
  BY <1>9, <1>14, PairsAreKids
<1> QED BY <1>1, <1>2, <1>4, <1>9, <1>10, <1>11, <1>15

(* The lower part of the arrays, up to position m. *)
LEMMA UnderKids ==
  ASSUME NEW C, NEW ks, NEW cs, Arrays(C, ks, cs), NEW m \in 1..Len(ks) - 1
  PROVE  /\ Arrays(C, SubSeq(ks, 1, m), SubSeq(cs, 1, m))
         /\ Len(SubSeq(ks, 1, m)) = m
         /\ Kids(SubSeq(ks, 1, m), SubSeq(cs, 1, m)) = Under(Kids(ks, cs), ks[m + 1])
<1>1. PICK k2 : k2 = SubSeq(ks, 1, m)
  OBVIOUS
<1>2. PICK c2 : c2 = SubSeq(cs, 1, m)
  OBVIOUS
<1>3. ks \in Seq(Keys) /\ cs \in Seq(C) /\ Len(cs) = Len(ks) /\ Ascending(ks) /\ Len(ks) \in Nat
  BY DEF Arrays
<1>4. k2 \in Seq(Keys) /\ Len(k2) = m /\ \A j \in 1..m : k2[j] = ks[j]
  BY <1>1, <1>3
<1>5. c2 \in Seq(C) /\ Len(c2) = m /\ \A j \in 1..m : c2[j] = cs[j]
  BY <1>2, <1>3
<1>6. PICK n \in Nat : n = Len(ks)
  BY <1>3
<1>7. \A x, y \in 1..n : x < y => ks[x] < ks[y]
  BY <1>3, <1>6 DEF Ascending
<1>8. Ascending(k2)
  BY <1>4, <1>6, <1>7 DEF Ascending
<1>9. Arrays(C, k2, c2)
  BY <1>4, <1>5, <1>8 DEF Arrays
<1>10. PICK F : F = Kids(ks, cs)
  OBVIOUS
<1>11. PICK G : G = Under(F, ks[m + 1])
  OBVIOUS
<1>12. /\ \A x \in DOMAIN F : \E j \in 1..n : ks[j] = x
       /\ \A j \in 1..n : ks[j] \in DOMAIN F /\ F[ks[j]] = cs[j]
  BY <1>6, <1>10, KidsArePairs DEF Pairs
<1>13. /\ G = [x \in DOMAIN G |-> G[x]] /\ DOMAIN G = {x \in DOMAIN F : x < ks[m + 1]}
       /\ \A x \in DOMAIN G : G[x] = F[x]
  BY <1>11 DEF Under
<1>14. Pairs(G, k2, c2)
  <2>1. ASSUME NEW x \in DOMAIN G
        PROVE  \E j \in 1..m : k2[j] = x
    <3>1. PICK j \in 1..n : ks[j] = x /\ ks[j] < ks[m + 1]
      BY <1>12, <1>13, <2>1
    <3>2. j < m + 1
      BY <1>3, <1>6, <3>1, AscendingUnique
    <3> QED BY <1>4, <3>1, <3>2
  <2>2. ASSUME NEW j \in 1..m
        PROVE  k2[j] \in DOMAIN G /\ G[k2[j]] = c2[j]
    BY <1>4, <1>5, <1>6, <1>7, <1>12, <1>13
  <2> QED BY <1>4, <1>13, <2>1, <2>2 DEF Pairs
<1>15. G = Kids(k2, c2)
  BY <1>9, <1>14, PairsAreKids
<1> QED BY <1>1, <1>2, <1>4, <1>9, <1>10, <1>11, <1>15

(* The upper part, from position m on. *)
LEMMA OverKids ==
  ASSUME NEW C, NEW ks, NEW cs, Arrays(C, ks, cs), NEW m \in 1..Len(ks)
  PROVE  /\ Arrays(C, SubSeq(ks, m, Len(ks)), SubSeq(cs, m, Len(ks)))
         /\ Len(SubSeq(ks, m, Len(ks))) = Len(ks) - m + 1
         /\ SubSeq(ks, m, Len(ks))[1] = ks[m]
         /\ Kids(SubSeq(ks, m, Len(ks)), SubSeq(cs, m, Len(ks))) = Over(Kids(ks, cs), ks[m])
<1>1. PICK k2 : k2 = SubSeq(ks, m, Len(ks))
  OBVIOUS
<1>2. PICK c2 : c2 = SubSeq(cs, m, Len(ks))
  OBVIOUS
<1>3. ks \in Seq(Keys) /\ cs \in Seq(C) /\ Len(cs) = Len(ks) /\ Ascending(ks) /\ Len(ks) \in Nat
  BY DEF Arrays
<1>6. PICK n \in Nat : n = Len(ks)
  BY <1>3
<1>4. k2 \in Seq(Keys) /\ Len(k2) = n - m + 1 /\ \A j \in 1..n - m + 1 : k2[j] = ks[j + m - 1]
  BY <1>1, <1>3, <1>6
<1>5. c2 \in Seq(C) /\ Len(c2) = n - m + 1 /\ \A j \in 1..n - m + 1 : c2[j] = cs[j + m - 1]
  BY <1>2, <1>3, <1>6
<1>7. \A x, y \in 1..n : x < y => ks[x] < ks[y]
  BY <1>3, <1>6 DEF Ascending
<1>8. Ascending(k2)
  <2> SUFFICES ASSUME NEW a \in 1..n - m + 1, NEW b \in 1..n - m + 1, a < b
               PROVE  k2[a] < k2[b]
    BY <1>4, <1>6 DEF Ascending
  <2>1. a + m - 1 \in 1..n /\ b + m - 1 \in 1..n /\ a + m - 1 < b + m - 1
    BY <1>6
  <2> QED BY <1>4, <1>7, <2>1
<1>9. Arrays(C, k2, c2)
  BY <1>4, <1>5, <1>8 DEF Arrays
<1>10. PICK F : F = Kids(ks, cs)
  OBVIOUS
<1>11. PICK G : G = Over(F, ks[m])
  OBVIOUS
<1>12. /\ \A x \in DOMAIN F : \E j \in 1..n : ks[j] = x
       /\ \A j \in 1..n : ks[j] \in DOMAIN F /\ F[ks[j]] = cs[j]
  BY <1>6, <1>10, KidsArePairs DEF Pairs
<1>13. /\ G = [x \in DOMAIN G |-> G[x]] /\ DOMAIN G = {x \in DOMAIN F : ks[m] <= x}
       /\ \A x \in DOMAIN G : G[x] = F[x]
  BY <1>11 DEF Over
<1>14. Pairs(G, k2, c2)
  <2>1. ASSUME NEW x \in DOMAIN G
        PROVE  \E j \in 1..n - m + 1 : k2[j] = x
    <3>1. PICK j \in 1..n : ks[j] = x /\ ks[m] <= ks[j]
      BY <1>12, <1>13, <2>1
    <3>2. m <= j
      BY <1>3, <1>6, <3>1, AscendingUnique
    <3>3. j - m + 1 \in 1..n - m + 1 /\ (j - m + 1) + m - 1 = j
      BY <1>6, <3>2
    <3> QED BY <1>4, <3>1, <3>3
  <2>2. ASSUME NEW j \in 1..n - m + 1
        PROVE  k2[j] \in DOMAIN G /\ G[k2[j]] = c2[j]
    <3>1. PICK i \in 1..n : i = j + m - 1 /\ m <= i
      BY <1>6
    <3>2. ks[m] <= ks[i]
      <4>1. m = i \/ ks[m] < ks[i]
        BY <1>6, <1>7, <3>1
      <4>2. ks[m] \in Int /\ ks[i] \in Int
        BY <1>3, <1>6, AscendingUnique
      <4> QED BY <4>1, <4>2
    <3>3. k2[j] = ks[i] /\ c2[j] = cs[i]
      BY <1>4, <1>5, <3>1
    <3>4. ks[i] \in DOMAIN F /\ F[ks[i]] = cs[i]
      BY <1>12
    <3>5. ks[i] \in DOMAIN G /\ G[ks[i]] = F[ks[i]]
      BY <1>13, <3>2, <3>4
    <3> QED BY <3>3, <3>4, <3>5
  <2> QED BY <1>4, <1>13, <2>1, <2>2 DEF Pairs
<1>15. G = Kids(k2, c2)
  BY <1>9, <1>14, PairsAreKids
<1>16. k2[1] = ks[m]
  <2>1. 1 \in 1..n - m + 1
    BY <1>6
  <2>2. k2[1] = ks[1 + m - 1]
    BY <1>4, <2>1
  <2>3. 1 + m - 1 = m
    BY <1>6
  <2> QED BY <2>2, <2>3
<1> QED BY <1>1, <1>2, <1>4, <1>6, <1>9, <1>10, <1>11, <1>15, <1>16

(* The arrays of a node and of its right neighbour, one behind the other. *)
LEMMA BothKids ==
  ASSUME NEW C, NEW ks, NEW cs, Arrays(C, ks, cs), NEW lk, NEW lc, Arrays(C, lk, lc),
         \A i \in 1..Len(ks) : \A j \in 1..Len(lk) : ks[i] < lk[j]
  PROVE  /\ Arrays(C, ks \o lk, cs \o lc)
         /\ Len(ks \o lk) = Len(ks) + Len(lk)
         /\ Kids(ks \o lk, cs \o lc) = Both(Kids(ks, cs), Kids(lk, lc))
<1>1. PICK k2 : k2 = ks \o lk
  OBVIOUS
<1>2. PICK c2 : c2 = cs \o lc
  OBVIOUS
<1>3. ks \in Seq(Keys) /\ cs \in Seq(C) /\ Len(cs) = Len(ks) /\ Ascending(ks) /\ Len(ks) \in Nat
  BY DEF Arrays
<1>4. lk \in Seq(Keys) /\ lc \in Seq(C) /\ Len(lc) = Len(lk) /\ Ascending(lk) /\ Len(lk) \in Nat
  BY DEF Arrays
<1>5. PICK n \in Nat : n = Len(ks)
  BY <1>3
<1>6. PICK m \in Nat : m = Len(lk)
  BY <1>4
<1>7. /\ k2 \in Seq(Keys) /\ Len(k2) = n + m
      /\ \A i \in 1..n : k2[i] = ks[i]
      /\ \A i \in 1..m : k2[n + i] = lk[i]
  BY <1>1, <1>3, <1>4, <1>5, <1>6
<1>8. /\ c2 \in Seq(C) /\ Len(c2) = n + m
      /\ \A i \in 1..n : c2[i] = cs[i]
      /\ \A i \in 1..m : c2[n + i] = lc[i]
  <2>0. Len(cs) = n /\ Len(lc) = m /\ cs \in Seq(C) /\ lc \in Seq(C)
    BY <1>3, <1>4, <1>5, <1>6
  <2>1. /\ c2 \in Seq(C) /\ Len(c2) = Len(cs) + Len(lc)
        /\ \A i \in 1..Len(cs) + Len(lc) : c2[i] = IF i <= Len(cs) THEN cs[i] ELSE lc[i - Len(cs)]
    <3>1. cs \in Seq(C) /\ lc \in Seq(C)
      BY <2>0
    <3> QED BY <1>2, <3>1, ConcatProperties, ZenonT(60)
  <2>2. \A i \in 1..n : c2[i] = cs[i]
    BY <2>0, <2>1
  <2>3. ASSUME NEW i \in 1..m
        PROVE  c2[n + i] = lc[i]
    <3>1. n + i \in 1..n + m /\ ~(n + i <= n) /\ (n + i) - n = i
      OBVIOUS
    <3> QED BY <2>0, <2>1, <3>1
  <2> QED BY <2>0, <2>1, <2>2, <2>3
<1>9. \A x, y \in 1..n : x < y => ks[x] < ks[y]
  BY <1>3, <1>5 DEF Ascending
<1>10. \A x, y \in 1..m : x < y => lk[x] < lk[y]
  BY <1>4, <1>6 DEF Ascending
<1>11. \A i \in 1..n + m : i \in 1..n \/ \E j \in 1..m : i = n + j
  <2> SUFFICES ASSUME NEW i \in 1..n + m, i \notin 1..n PROVE \E j \in 1..m : i = n + j
    OBVIOUS
  <2>1. i - n \in 1..m /\ i = n + (i - n)
    OBVIOUS
  <2> QED BY <2>1
<1>12. Ascending(k2)
  <2> SUFFICES ASSUME NEW a \in 1..n + m, NEW b \in 1..n + m, a < b
               PROVE  k2[a] < k2[b]
    BY <1>7 DEF Ascending
  <2>1. CASE b \in 1..n
    <3>1. a \in 1..n
      BY <2>1
    <3> QED BY <1>7, <1>9, <2>1, <3>1
  <2>2. ASSUME NEW j \in 1..m, b = n + j
        PROVE  k2[a] < k2[b]
    <3>1. CASE a \in 1..n
      BY <1>5, <1>6, <1>7, <2>2, <3>1
    <3>2. ASSUME NEW i \in 1..m, a = n + i
          PROVE  k2[a] < k2[b]
      <4>1. i < j
        BY <2>2, <3>2
      <4> QED BY <1>7, <1>10, <2>2, <3>2, <4>1
    <3> QED BY <1>11, <3>1, <3>2
  <2> QED BY <1>11, <2>1, <2>2
<1>13. Arrays(C, k2, c2)
  BY <1>7, <1>8, <1>12 DEF Arrays
<1>14. PICK F : F = Kids(ks, cs)
  OBVIOUS
<1>15. PICK H : H = Kids(lk, lc)
  OBVIOUS
<1>16. PICK G : G = Both(F, H)
  OBVIOUS
<1>17. /\ \A x \in DOMAIN F : \E j \in 1..n : ks[j] = x
       /\ \A j \in 1..n : ks[j] \in DOMAIN F /\ F[ks[j]] = cs[j]
  BY <1>5, <1>14, KidsArePairs DEF Pairs
<1>18. /\ \A x \in DOMAIN H : \E j \in 1..m : lk[j] = x
       /\ \A j \in 1..m : lk[j] \in DOMAIN H /\ H[lk[j]] = lc[j]
  BY <1>6, <1>15, KidsArePairs DEF Pairs
<1>19. /\ G = [x \in DOMAIN G |-> G[x]] /\ DOMAIN G = DOMAIN F \cup DOMAIN H
       /\ \A x \in DOMAIN F : G[x] = F[x]
       /\ \A x \in DOMAIN H : x \notin DOMAIN F => G[x] = H[x]
  BY <1>16 DEF Both
<1>20. Pairs(G, k2, c2)
  <2>1. ASSUME NEW x \in DOMAIN G
        PROVE  \E j \in 1..n + m : k2[j] = x
    <3>1. CASE x \in DOMAIN F
      <4>1. PICK j \in 1..n : ks[j] = x
        BY <1>17, <3>1
      <4>2. j \in 1..n + m /\ k2[j] = x
        BY <1>7, <4>1
      <4> QED BY <4>2
    <3>2. CASE x \in DOMAIN H
      <4>1. PICK j \in 1..m : lk[j] = x
        BY <1>18, <3>2
      <4>2. n + j \in 1..n + m /\ k2[n + j] = x
        BY <1>7, <4>1
      <4> QED BY <4>2
    <3> QED BY <1>19, <2>1, <3>1, <3>2
  <2>2. ASSUME NEW j \in 1..n
        PROVE  k2[j] \in DOMAIN G /\ G[k2[j]] = c2[j]
    <3>1. k2[j] = ks[j] /\ c2[j] = cs[j]
      BY <1>7, <1>8
    <3>2. ks[j] \in DOMAIN F /\ F[ks[j]] = cs[j]
      BY <1>17
    <3> QED BY <1>19, <3>1, <3>2
  <2>3. ASSUME NEW j \in 1..m
        PROVE  k2[n + j] \in DOMAIN G /\ G[k2[n + j]] = c2[n + j]
    <3>1. lk[j] \notin DOMAIN F
      <4>1. SUFFICES ASSUME NEW i \in 1..n, ks[i] = lk[j] PROVE FALSE
        BY <1>17
      <4>2. ks[i] < lk[j] /\ ks[i] \in Int
        BY <1>3, <1>5, <1>6, AscendingUnique
      <4> QED BY <4>1, <4>2
    <3>2. lk[j] \in DOMAIN H /\ H[lk[j]] = lc[j]
      BY <1>18
    <3>3. k2[n + j] = lk[j] /\ c2[n + j] = lc[j]
      BY <1>7, <1>8
    <3> QED BY <1>19, <3>1, <3>2, <3>3
  <2>4. ASSUME NEW j \in 1..n + m
        PROVE  k2[j] \in DOMAIN G /\ G[k2[j]] = c2[j]
    BY <1>11, <2>2, <2>3
  <2> QED BY <1>7, <1>19, <2>1, <2>4 DEF Pairs
<1>21. G = Kids(k2, c2)
  BY <1>13, <1>20, PairsAreKids
<1> QED BY <1>1, <1>2, <1>5, <1>6, <1>7, <1>13, <1>14, <1>15, <1>16, <1>21

(* k2 is ks but for x at position i. *)
ReplacedAt(k2, ks, i, x) ==
  Len(k2) = Len(ks) /\ \A j \in 1..Len(ks) : k2[j] = IF j = i THEN x ELSE ks[j]

(* A key is replaced by another that has its place in the order. *)
LEMMA RenameKids ==
  ASSUME NEW C, NEW ks, NEW cs, Arrays(C, ks, cs), NEW i \in 1..Len(ks), NEW x \in Keys,
         \A j \in 1..Len(ks) : (j < i => ks[j] < x) /\ (i < j => x < ks[j]),
         NEW k2 \in Seq(Keys), ReplacedAt(k2, ks, i, x)
  PROVE  /\ Arrays(C, k2, cs)
         /\ Kids(k2, cs) = Renamed(Kids(ks, cs), ks[i], x)
<1>1. ks \in Seq(Keys) /\ cs \in Seq(C) /\ Len(cs) = Len(ks) /\ Ascending(ks) /\ Len(ks) \in Nat
  BY DEF Arrays
<1>2. PICK n \in Nat : n = Len(ks)
  BY <1>1
<1>3. Len(k2) = n /\ \A j \in 1..n : k2[j] = IF j = i THEN x ELSE ks[j]
  BY <1>2 DEF ReplacedAt
<1>4. \A a, b \in 1..n : a < b => ks[a] < ks[b]
  BY <1>1, <1>2 DEF Ascending
<1>5. Ascending(k2)
  <2> SUFFICES ASSUME NEW a \in 1..n, NEW b \in 1..n, a < b
               PROVE  k2[a] < k2[b]
    BY <1>3 DEF Ascending
  <2>1. CASE a = i
    <3>1. k2[a] = x /\ k2[b] = ks[b] /\ x < ks[b]
      BY <1>2, <1>3, <2>1
    <3> QED BY <3>1
  <2>2. CASE b = i
    <3>1. k2[b] = x /\ k2[a] = ks[a] /\ ks[a] < x
      BY <1>2, <1>3, <2>2
    <3> QED BY <3>1
  <2>3. CASE a # i /\ b # i
    <3>1. k2[a] = ks[a] /\ k2[b] = ks[b]
      BY <1>3, <2>3
    <3> QED BY <1>4, <3>1
  <2> QED BY <2>1, <2>2, <2>3
<1>6. Arrays(C, k2, cs)
  BY <1>1, <1>2, <1>3, <1>5 DEF Arrays
<1>7. PICK F : F = Kids(ks, cs)
  OBVIOUS
<1>8. PICK k : k = ks[i]
  OBVIOUS
<1>9. PICK G : G = Renamed(F, k, x)
  OBVIOUS
<1>10. /\ \A y \in DOMAIN F : \E j \in 1..n : ks[j] = y
       /\ \A j \in 1..n : ks[j] \in DOMAIN F /\ F[ks[j]] = cs[j]
  BY <1>2, <1>7, KidsArePairs DEF Pairs
<1>11. /\ G = [y \in DOMAIN G |-> G[y]] /\ DOMAIN G = (DOMAIN F \ {k}) \cup {x}
       /\ G[x] = F[k]
       /\ \A y \in DOMAIN F : y # k /\ y # x => G[y] = F[y]
  BY <1>9 DEF Renamed
<1>12. ASSUME NEW j \in 1..n, j # i
       PROVE  ks[j] # x /\ ks[j] # k
  <2>1. ks[j] < x \/ x < ks[j]
    BY <1>2, <1>12
  <2>2. ks[j] \in Int /\ ks[j] # ks[i]
    BY <1>1, <1>2, <1>12, AscendingUnique
  <2>3. x \in Int
    BY TreeConstants
  <2> QED BY <1>8, <2>1, <2>2, <2>3
<1>13. Pairs(G, k2, cs)
  <2>1. ASSUME NEW y \in DOMAIN G
        PROVE  \E j \in 1..n : k2[j] = y
    <3>1. CASE y = x
      BY <1>2, <1>3, <3>1
    <3>2. CASE y # x
      <4>1. PICK j \in 1..n : ks[j] = y
        BY <1>10, <1>11, <2>1, <3>2
      <4>2. j # i
        BY <1>8, <1>11, <2>1, <3>2, <4>1
      <4>3. k2[j] = ks[j]
        BY <1>3, <4>2
      <4> QED BY <4>1, <4>3
    <3> QED BY <3>1, <3>2
  <2>2. ASSUME NEW j \in 1..n
        PROVE  k2[j] \in DOMAIN G /\ G[k2[j]] = cs[j]
    <3>1. CASE j = i
      BY <1>2, <1>3, <1>8, <1>10, <1>11, <3>1
    <3>2. CASE j # i
      <4>1. k2[j] = ks[j] /\ ks[j] # x /\ ks[j] # k
        BY <1>3, <1>12, <3>2
      <4> QED BY <1>10, <1>11, <4>1
    <3> QED BY <3>1, <3>2
  <2> QED BY <1>3, <1>11, <2>1, <2>2 DEF Pairs
<1>14. G = Kids(k2, cs)
  BY <1>6, <1>13, PairsAreKids
<1> QED BY <1>6, <1>7, <1>8, <1>9, <1>14

(* The child beside a key is replaced. *)
LEMMA ReplaceKid ==
  ASSUME NEW C, NEW ks, NEW cs, Arrays(C, ks, cs), NEW i \in 1..Len(ks), NEW v \in C,
         NEW c2 \in Seq(C), ReplacedAt(c2, cs, i, v)
  PROVE  /\ Arrays(C, ks, c2)
         /\ Kids(ks, c2) = Plus(Kids(ks, cs), ks[i], v)
<1>1. ks \in Seq(Keys) /\ cs \in Seq(C) /\ Len(cs) = Len(ks) /\ Ascending(ks) /\ Len(ks) \in Nat
  BY DEF Arrays
<1>2. PICK n \in Nat : n = Len(ks)
  BY <1>1
<1>3. Len(c2) = n /\ \A j \in 1..n : c2[j] = IF j = i THEN v ELSE cs[j]
  BY <1>1, <1>2 DEF ReplacedAt
<1>4. Arrays(C, ks, c2)
  BY <1>1, <1>2, <1>3 DEF Arrays
<1>5. PICK F : F = Kids(ks, cs)
  OBVIOUS
<1>6. PICK k : k = ks[i]
  OBVIOUS
<1>7. PICK G : G = Plus(F, k, v)
  OBVIOUS
<1>8. /\ \A y \in DOMAIN F : \E j \in 1..n : ks[j] = y
      /\ \A j \in 1..n : ks[j] \in DOMAIN F /\ F[ks[j]] = cs[j]
  BY <1>2, <1>5, KidsArePairs DEF Pairs
<1>9. /\ G = [y \in DOMAIN G |-> G[y]] /\ DOMAIN G = DOMAIN F \cup {k}
      /\ G[k] = v
      /\ \A y \in DOMAIN F : y # k => G[y] = F[y]
  BY <1>7 DEF Plus
<1>10. k \in DOMAIN F
  BY <1>2, <1>6, <1>8
<1>11. ASSUME NEW j \in 1..n
       PROVE  ks[j] \in DOMAIN G /\ G[ks[j]] = c2[j]
  <2>1. CASE j = i
    BY <1>3, <1>6, <1>9, <2>1
  <2>2. CASE j # i
    <3>1. ks[j] # k
      BY <1>1, <1>2, <1>6, <2>2, AscendingUnique
    <3> QED BY <1>3, <1>8, <1>9, <2>2, <3>1
  <2> QED BY <2>1, <2>2
<1>12. Pairs(G, ks, c2)
  BY <1>2, <1>8, <1>9, <1>10, <1>11 DEF Pairs
<1>13. G = Kids(ks, c2)
  BY <1>4, <1>12, PairsAreKids
<1> QED BY <1>4, <1>5, <1>6, <1>7, <1>13

-----------------------------------------------------------------------------
(* Binary_Search gives the position at which a search goes on.             *)
IsSearch(h, k, key) ==
  h = [lr \in (1..Len(k)) \X (1..Len(k) + 1) |->
        IF lr[1] >= lr[2] - 1 THEN lr[1]
        ELSE IF key < k[(lr[1] + lr[2]) \div 2] THEN h[<<lr[1], (lr[1] + lr[2]) \div 2>>]
        ELSE h[<<(lr[1] + lr[2]) \div 2, lr[2]>>]]

(* One halving of the interval. *)
Halves(h, k, key) ==
  \A l \in 1..Len(k) : \A r \in 1..Len(k) + 1 :
    h[<<l, r>>] = IF l >= r - 1 THEN l
                  ELSE IF key < k[(l + r) \div 2] THEN h[<<l, (l + r) \div 2>>]
                  ELSE h[<<(l + r) \div 2, r>>]

(* The recursion of Binary_Search halves the interval. *)
LEMMA SearchHalves ==
  ASSUME NEW k, NEW key, NEW h, IsSearch(h, k, key)
  PROVE  Halves(h, k, key)
<1> SUFFICES ASSUME NEW l \in 1..Len(k), NEW r \in 1..Len(k) + 1
             PROVE  h[<<l, r>>] = IF l >= r - 1 THEN l
                  ELSE IF key < k[(l + r) \div 2] THEN h[<<l, (l + r) \div 2>>]
                  ELSE h[<<(l + r) \div 2, r>>]
  BY DEF Halves
<1>1. <<l, r>> \in (1..Len(k)) \X (1..Len(k) + 1) /\ <<l, r>>[1] = l /\ <<l, r>>[2] = r
  OBVIOUS
<1>2. PICK lr : lr = <<l, r>>
  OBVIOUS
<1>3. lr \in (1..Len(k)) \X (1..Len(k) + 1) /\ lr[1] = l /\ lr[2] = r
  BY <1>1, <1>2
<1>4. h[lr] = IF lr[1] >= lr[2] - 1 THEN lr[1]
        ELSE IF key < k[(lr[1] + lr[2]) \div 2] THEN h[<<lr[1], (lr[1] + lr[2]) \div 2>>]
        ELSE h[<<(lr[1] + lr[2]) \div 2, lr[2]>>]
  BY <1>3 DEF IsSearch
<1> QED BY <1>2, <1>3, <1>4

(* Between the first key and the last one it searches. *)
LEMMA BinarySearchIs ==
  ASSUME NEW node, NEW key, node.key # <<>>, ~(key < node.key[1]), ~(node.key[Len(node.key)] <= key)
  PROVE  Binary_Search(node, key) = (CHOOSE h : IsSearch(h, node.key, key))[<<1, Len(node.key) + 1>>]
BY DEF Binary_Search, IsSearch

(* Where a search from l to r ends, when p is the last position whose key  *)
(* is not greater than the one looked for.                                 *)
Ends(p, l, r) ==
  IF l >= r - 1 THEN l ELSE IF p < l THEN l ELSE IF p >= r THEN r - 1 ELSE p

(* ks[p] is the last key that is not greater than x. *)
LastUpTo(ks, x, p) ==
  p \in 1..Len(ks) /\ \A j \in 1..Len(ks) : ks[j] <= x <=> j <= p

(* The recursion has a solution, ... *)
LEMMA SearchExists ==
  ASSUME NEW ks \in Seq(Keys), NEW x \in Int, NEW p, LastUpTo(ks, x, p)
  PROVE  \E h : IsSearch(h, ks, x)
<1>1. PICK n \in Nat : n = Len(ks)
  OBVIOUS
<1>2. \A j \in 1..n : ks[j] \in Int
  <2>1. \A j \in 1..n : ks[j] \in Keys
    BY <1>1
  <2> QED BY <2>1, TreeConstants
<1>3. p \in 1..n /\ \A j \in 1..n : x < ks[j] <=> p < j
  <2>1. p \in 1..n /\ \A j \in 1..n : ks[j] <= x <=> j <= p
    BY <1>1 DEF LastUpTo
  <2> QED BY <1>2, <2>1
<1> DEFINE h == [lr \in (1..n) \X (1..n + 1) |-> Ends(p, lr[1], lr[2])]
<1>4. \A l \in 1..n : \A r \in 1..n + 1 : h[<<l, r>>] = Ends(p, l, r)
  OBVIOUS
<1>5. ASSUME NEW lr \in (1..n) \X (1..n + 1)
      PROVE  h[lr] = IF lr[1] >= lr[2] - 1 THEN lr[1]
                     ELSE IF x < ks[(lr[1] + lr[2]) \div 2] THEN h[<<lr[1], (lr[1] + lr[2]) \div 2>>]
                     ELSE h[<<(lr[1] + lr[2]) \div 2, lr[2]>>]
  <2>1. PICK l \in 1..n : l = lr[1]
    OBVIOUS
  <2>2. PICK r \in 1..n + 1 : r = lr[2]
    OBVIOUS
  <2>3. h[lr] = Ends(p, l, r)
    BY <2>1, <2>2
  <2>4. CASE l >= r - 1
    BY <2>1, <2>2, <2>3, <2>4 DEF Ends
  <2>5. CASE l < r - 1
    <3>1. PICK mid \in 1..n : mid = (l + r) \div 2 /\ l < mid /\ mid < r
      <4>1. (l + r) \div 2 \in 1..n /\ l < (l + r) \div 2 /\ (l + r) \div 2 < r
        BY <2>5
      <4> QED BY <4>1
    <3>2. h[<<l, mid>>] = Ends(p, l, mid) /\ h[<<mid, r>>] = Ends(p, mid, r)
      BY <1>4, <3>1
    <3>3. x < ks[mid] <=> p < mid
      BY <1>3
    <3>4. p < mid => Ends(p, l, r) = Ends(p, l, mid)
      BY <1>3, <2>5, <3>1 DEF Ends
    <3>5. ~(p < mid) => Ends(p, l, r) = Ends(p, mid, r)
      BY <1>3, <2>5, <3>1 DEF Ends
    <3>6. Ends(p, l, r) = IF x < ks[mid] THEN h[<<l, mid>>] ELSE h[<<mid, r>>]
      BY <3>2, <3>3, <3>4, <3>5
    <3> HIDE DEF h
    <3> QED BY <2>1, <2>2, <2>3, <2>5, <3>1, <3>6
  <2> HIDE DEF h
  <2> QED BY <2>4, <2>5
<1>6. h = [lr \in (1..n) \X (1..n + 1) |-> h[lr]]
  OBVIOUS
<1> HIDE DEF h
<1>7. h = [lr \in (1..n) \X (1..n + 1) |->
             IF lr[1] >= lr[2] - 1 THEN lr[1]
                     ELSE IF x < ks[(lr[1] + lr[2]) \div 2] THEN h[<<lr[1], (lr[1] + lr[2]) \div 2>>]
                     ELSE h[<<(lr[1] + lr[2]) \div 2, lr[2]>>]]
  BY <1>5, <1>6
<1>8. IsSearch(h, ks, x)
  BY <1>1, <1>7 DEF IsSearch
<1> QED BY <1>8

(* ... and every solution ends at the last key up to x. *)
LEMMA SearchEnds ==
  ASSUME NEW ks \in Seq(Keys), NEW x \in Int, NEW p, LastUpTo(ks, x, p), NEW h, Halves(h, ks, x)
  PROVE  h[<<1, Len(ks) + 1>>] = p
<1>1. PICK n \in Nat : n = Len(ks)
  OBVIOUS
<1>2. \A j \in 1..n : ks[j] \in Int
  <2>1. \A j \in 1..n : ks[j] \in Keys
    BY <1>1
  <2> QED BY <2>1, TreeConstants
<1>3. p \in 1..n /\ \A j \in 1..n : x < ks[j] <=> p < j
  <2>1. p \in 1..n /\ \A j \in 1..n : ks[j] <= x <=> j <= p
    BY <1>1 DEF LastUpTo
  <2> QED BY <1>2, <2>1
<1>4. \A l \in 1..n : \A r \in 1..n + 1 :
        h[<<l, r>>] = IF l >= r - 1 THEN l
                      ELSE IF x < ks[(l + r) \div 2] THEN h[<<l, (l + r) \div 2>>]
                      ELSE h[<<(l + r) \div 2, r>>]
  BY <1>1 DEF Halves
<1> DEFINE Wrong(d) == \E l \in 1..n : \E r \in 1..n + 1 :
                         l <= p /\ p < r /\ d = r - l /\ h[<<l, r>>] # p
           Bad == {d \in Nat : Wrong(d)}
<1>5. SUFFICES ASSUME h[<<1, n + 1>>] # p PROVE FALSE
  BY <1>1
<1>6. n \in Bad
  <2>1. 1 \in 1..n /\ n + 1 \in 1..n + 1 /\ 1 <= p /\ p < n + 1 /\ n = (n + 1) - 1
    BY <1>3
  <2> QED BY <1>5, <2>1
<1>7. Bad \in SUBSET Nat /\ Bad # {}
  BY <1>6
<1>8. PICK d \in Bad : \A e \in Bad : d <= e
  <2> HIDE DEF Bad
  <2> QED BY <1>7, SmallestOf
<1>9. PICK l \in 1..n : Wrong(d) /\ \E r \in 1..n + 1 : l <= p /\ p < r /\ d = r - l /\ h[<<l, r>>] # p
  BY <1>8
<1>10. PICK r \in 1..n + 1 : l <= p /\ p < r /\ d = r - l /\ h[<<l, r>>] # p
  BY <1>9
<1>11. l < r - 1
  <2>1. SUFFICES ASSUME l >= r - 1 PROVE FALSE
    OBVIOUS
  <2>2. h[<<l, r>>] = IF l >= r - 1 THEN l
                      ELSE IF x < ks[(l + r) \div 2] THEN h[<<l, (l + r) \div 2>>]
                      ELSE h[<<(l + r) \div 2, r>>]
    BY <1>4
  <2>3. l = p
    BY <1>3, <1>10, <2>1
  <2> QED BY <1>10, <2>1, <2>2, <2>3
<1>12. PICK mid \in 1..n : mid = (l + r) \div 2 /\ l < mid /\ mid < r
  <2>1. (l + r) \div 2 \in 1..n /\ l < (l + r) \div 2 /\ (l + r) \div 2 < r
    BY <1>11
  <2> QED BY <2>1
<1>13. h[<<l, r>>] = IF p < mid THEN h[<<l, mid>>] ELSE h[<<mid, r>>]
  BY <1>3, <1>4, <1>11, <1>12
<1>14. CASE p < mid
  <2>1. h[<<l, mid>>] # p /\ mid - l \in Nat /\ mid - l < d /\ mid \in 1..n + 1
    BY <1>10, <1>12, <1>13, <1>14
  <2>2. mid - l \in Bad
    BY <1>10, <1>14, <2>1
  <2> HIDE DEF Bad
  <2> QED BY <1>7, <1>8, <2>1, <2>2
<1>15. CASE mid <= p
  <2>1. h[<<mid, r>>] # p /\ r - mid \in Nat /\ r - mid < d
    BY <1>3, <1>10, <1>12, <1>13, <1>15
  <2>2. r - mid \in Bad
    BY <1>10, <1>15, <2>1
  <2> HIDE DEF Bad
  <2> QED BY <1>7, <1>8, <2>1, <2>2
<1> QED BY <1>3, <1>12, <1>14, <1>15

(* There is a last key up to x unless all are greater. *)
LEMMA LastUpToExists ==
  ASSUME NEW ks \in Seq(Keys), Ascending(ks), NEW x \in Int, Len(ks) # 0, ks[1] <= x
  PROVE  \E p : LastUpTo(ks, x, p)
<1>1. PICK n \in Nat : n = Len(ks) /\ 1 \in 1..n
  OBVIOUS
<1>2. \A j \in 1..n : ks[j] \in Int
  <2>1. \A j \in 1..n : ks[j] \in Keys
    BY <1>1
  <2> QED BY <2>1, TreeConstants
<1>3. \A i, j \in 1..n : i < j => ks[i] < ks[j]
  BY <1>1 DEF Ascending
<1> DEFINE D == {d \in Nat : d <= n /\ \A j \in 1..n : j > d => ks[j] > x}
<1>4. n \in D
  OBVIOUS
<1>5. PICK p \in D : \A d \in D : p <= d
  <2>1. D \in SUBSET Nat /\ D # {}
    BY <1>4
  <2> HIDE DEF D
  <2> QED BY <2>1, SmallestOf
<1>6. p \in Nat /\ p <= n /\ \A j \in 1..n : j > p => ks[j] > x
  BY <1>5
<1>7. p # 0
  BY <1>1, <1>2, <1>6
<1>8. p \in 1..n /\ p - 1 \in Nat
  BY <1>6, <1>7
<1>9. ks[p] <= x
  <2>1. SUFFICES ASSUME x < ks[p] PROVE FALSE
    BY <1>2, <1>8
  <2>2. \A j \in 1..n : j > p - 1 => ks[j] > x
    BY <1>6, <1>8, <2>1
  <2>3. p - 1 \in D
    BY <1>6, <1>8, <2>2
  <2> HIDE DEF D
  <2> QED BY <1>5, <1>8, <2>3
<1>10. \A j \in 1..n : ks[j] <= x <=> j <= p
  <2> SUFFICES ASSUME NEW j \in 1..n PROVE ks[j] <= x <=> j <= p
    OBVIOUS
  <2>1. CASE j <= p
    <3>1. j = p \/ ks[j] < ks[p]
      BY <1>3, <1>8, <2>1
    <3> QED BY <1>2, <1>8, <1>9, <2>1, <3>1
  <2>2. CASE p < j
    BY <1>2, <1>6, <2>2
  <2> QED BY <1>8, <2>1, <2>2
<1> QED BY <1>1, <1>8, <1>10 DEF LastUpTo

(* The position found: of the last key up to x, or the first one. *)
LEMMA Searched ==
  ASSUME NEW node, NEW x \in Int, node.key \in Seq(Keys), Ascending(node.key), Len(node.key) # 0,
         NEW i, i = Binary_Search(node, x)
  PROVE  /\ i \in 1..Len(node.key)
         /\ \A j \in 1..Len(node.key) : (j <= i => node.key[j] <= x \/ i = 1) /\ (i < j => x < node.key[j])
<1>1. PICK ks \in Seq(Keys) : ks = node.key
  OBVIOUS
<1>2. PICK n \in Nat : n = Len(ks) /\ n # 0 /\ ks # <<>> /\ 1 \in 1..n
  BY <1>1
<1>3. \A j \in 1..n : ks[j] \in Int
  <2>1. \A j \in 1..n : ks[j] \in Keys
    BY <1>1, <1>2
  <2> QED BY <2>1, TreeConstants
<1>4. \A a, b \in 1..n : a < b => ks[a] < ks[b]
  BY <1>1, <1>2 DEF Ascending
<1>5. CASE x < ks[1]
  <2>1. i = 1
    BY <1>1, <1>2, <1>5 DEF Binary_Search
  <2>2. ASSUME NEW j \in 1..n
        PROVE  x < ks[j]
    <3>1. j = 1 \/ ks[1] < ks[j]
      BY <1>2, <1>4
    <3> QED BY <1>2, <1>3, <1>5, <3>1
  <2> QED BY <1>1, <1>2, <2>1, <2>2
<1>6. CASE ~(x < ks[1])
  <2>1. PICK p : LastUpTo(ks, x, p)
    BY <1>1, <1>2, <1>3, <1>6, LastUpToExists
  <2>2. p \in 1..n /\ \A j \in 1..n : ks[j] <= x <=> j <= p
    BY <1>2, <2>1 DEF LastUpTo
  <2>3. i = p
    <3>1. CASE ks[n] <= x
      <4>1. i = n
        BY <1>1, <1>2, <1>6, <3>1 DEF Binary_Search
      <4>2. n <= p
        BY <1>2, <2>2, <3>1
      <4> QED BY <2>2, <4>1, <4>2
    <3>2. CASE ~(ks[n] <= x)
      <4>1. PICK h : h = CHOOSE f : IsSearch(f, ks, x)
        OBVIOUS
      <4>2. IsSearch(h, ks, x)
        BY <2>1, <4>1, SearchExists
      <4>3. h[<<1, n + 1>>] = p
        BY <1>2, <2>1, <4>2, SearchHalves, SearchEnds
      <4>4. i = (CHOOSE f : IsSearch(f, ks, x))[<<1, n + 1>>]
        BY <1>1, <1>2, <1>6, <3>2, BinarySearchIs
      <4> QED BY <4>1, <4>3, <4>4
    <3> QED BY <3>1, <3>2
  <2>4. ASSUME NEW j \in 1..n
        PROVE  (j <= p => ks[j] <= x) /\ (p < j => x < ks[j])
    BY <1>3, <2>2
  <2> QED BY <1>1, <1>2, <2>2, <2>3, <2>4
<1> QED BY <1>5, <1>6

-----------------------------------------------------------------------------
(* The chain of the leaves: the next leaf is the one whose area begins     *)
(* where that of this leaf ends.                                           *)
Adjacent(w, m, n) == m # n /\ \E x \in Int : x \in w.area[m] /\ x + 1 \in w.area[n]

OnChain(w, m) ==
  /\ w.next[m] = NULL \/ Leaf(w, w.next[m])
  /\ w.last[m] = NULL \/ Leaf(w, w.last[m])

Linked(w) ==
  /\ NULL \notin w.nodes
  /\ \A n \in w.nodes : w.level[n] # 0 => w.next[n] = NULL /\ w.last[n] = NULL
  /\ \A m \in w.nodes : Leaf(w, m) => OnChain(w, m)
  /\ \A m, n \in w.nodes : Leaf(w, m) /\ Leaf(w, n) =>
       (w.next[m] = n <=> Adjacent(w, m, n))
  /\ \A m, n \in w.nodes : Leaf(w, m) /\ Leaf(w, n) =>
       (w.last[n] = m <=> Adjacent(w, m, n))

(* The chain stays as it was. *)
SameChain(w, w2) ==
  /\ NULL \notin w2.nodes
  /\ \A n : Leaf(w2, n) <=> Leaf(w, n)
  /\ \A n \in w2.nodes : w2.level[n] # 0 => w2.next[n] = NULL /\ w2.last[n] = NULL
  /\ \A n \in w2.nodes : Leaf(w, n) => w2.next[n] = w.next[n] /\ w2.last[n] = w.last[n]
  /\ \A m, n \in w2.nodes : Leaf(w, m) /\ Leaf(w, n) => (Adjacent(w2, m, n) <=> Adjacent(w, m, n))

(* Where the chain stays as it was, the leaves are linked as before. *)
LEMMA SameChainLinked ==
  ASSUME NEW w, Linked(w), NEW w2, SameChain(w, w2)
  PROVE  Linked(w2)
<1>1. \A n : Leaf(w2, n) => n \in w2.nodes /\ Leaf(w, n) /\ n \in w.nodes
  BY DEF SameChain, Leaf
<1>2. ASSUME NEW m \in w2.nodes, Leaf(w2, m)
      PROVE  OnChain(w2, m)
  <2>1. OnChain(w, m) /\ w2.next[m] = w.next[m] /\ w2.last[m] = w.last[m]
    BY <1>1, <1>2 DEF Linked, SameChain
  <2> QED BY <2>1 DEF OnChain, SameChain
<1>3. ASSUME NEW m \in w2.nodes, NEW n \in w2.nodes, Leaf(w2, m), Leaf(w2, n)
      PROVE  /\ w2.next[m] = n <=> Adjacent(w2, m, n)
             /\ w2.last[n] = m <=> Adjacent(w2, m, n)
  <2>1. Adjacent(w2, m, n) <=> Adjacent(w, m, n)
    BY <1>1, <1>3 DEF SameChain
  <2>2. w2.next[m] = w.next[m] /\ w2.last[n] = w.last[n]
    BY <1>1, <1>3 DEF SameChain
  <2>3. (w.next[m] = n <=> Adjacent(w, m, n)) /\ (w.last[n] = m <=> Adjacent(w, m, n))
    BY <1>1, <1>3 DEF Linked
  <2> QED BY <2>1, <2>2, <2>3
<1>4. /\ NULL \notin w2.nodes
      /\ \A n \in w2.nodes : w2.level[n] # 0 => w2.next[n] = NULL /\ w2.last[n] = NULL
  BY DEF SameChain
<1> QED BY <1>2, <1>3, <1>4 DEF Linked

(* A leaf is cut in two. *)
SplitLinks(w, w2, c, new) ==
  /\ \A n \in w2.nodes :
       w2.next[n] = IF n = new THEN w.next[c] ELSE IF n = c THEN new ELSE w.next[n]
  /\ \A n \in w2.nodes :
       w2.last[n] = IF n = new THEN c ELSE IF n = w.next[c] THEN new ELSE w.last[n]

(* A new leaf is linked in behind the one it was split from. *)
LEMMA SplitLinked ==
  ASSUME NEW w, Shape(w), Linked(w), NEW c \in w.nodes, w.level[c] = 0,
         NEW new, new \notin w.nodes, new # NULL,
         NEW p \in DOMAIN w.kids[c], NEW kc \in Int, LeastOf(DOMAIN w.kids[c], kc), kc # p,
         NEW w2, SplitView(w, w2, c, new, p), SplitLinks(w, w2, c, new)
  PROVE  Linked(w2)
<1>1. /\ w2.nodes = w.nodes \cup {new} /\ c # new /\ c \in w2.nodes /\ new \in w2.nodes
      /\ \A n \in w.nodes : w2.level[n] = w.level[n]
      /\ w2.level[new] = 0
      /\ \A n \in w.nodes : n # c => w2.area[n] = w.area[n]
      /\ w2.area[new] = {x \in w.area[c] : p <= x}
      /\ w2.area[c] = {x \in w.area[c] : x < p}
  BY DEF SplitView
<1>2. p \in Int /\ kc \in Int /\ kc < p /\ p \in w.area[c] /\ kc \in w.area[c]
  <2>1. DOMAIN w.kids[c] \subseteq w.area[c] /\ w.area[c] \subseteq Int
    BY DEF Shape
  <2>2. p \in Int /\ p \in w.area[c] /\ kc \in w.area[c] /\ kc <= p
    BY <2>1 DEF LeastOf
  <2> QED BY <2>2
<1>3. \A n \in w.nodes : w.area[n] \subseteq Int
  BY DEF Shape
<1>4. \A x \in Int : kc <= x /\ x <= p => x \in w.area[c]
  <2>1. Convex(w.area[c])
    BY AreaConvex
  <2> QED BY <1>2, <2>1 DEF Convex
<1>5. \A n : Leaf(w2, n) <=> Leaf(w, n) \/ n = new
  BY <1>1 DEF Leaf
<1>6. Leaf(w, c) /\ ~Leaf(w, new) /\ c # NULL
  BY DEF Leaf, Linked
<1>7. ~Adjacent(w2, new, c)
  <2>1. SUFFICES ASSUME NEW x \in Int, x \in w2.area[new], x + 1 \in w2.area[c] PROVE FALSE
    BY DEF Adjacent
  <2> QED BY <1>1, <1>2, <2>1
<1>8. Adjacent(w2, c, new)
  <2>1. p - 1 \in Int /\ p - 1 \in w2.area[c] /\ (p - 1) + 1 \in w2.area[new]
    BY <1>1, <1>2, <1>4
  <2> QED BY <1>1, <2>1 DEF Adjacent
<1>9. ASSUME NEW m, NEW n, Leaf(w, m), Leaf(w, n), m # c, n # c
      PROVE  Adjacent(w2, m, n) <=> Adjacent(w, m, n)
  <2>1. m \in w.nodes /\ n \in w.nodes
    BY <1>9 DEF Leaf
  <2> QED BY <1>1, <1>9, <2>1 DEF Adjacent
<1>10. ASSUME NEW n, Leaf(w, n), n # c
       PROVE  /\ Adjacent(w2, n, c) <=> Adjacent(w, n, c)
              /\ Adjacent(w2, new, n) <=> Adjacent(w, c, n)
              /\ ~Adjacent(w2, c, n)
              /\ ~Adjacent(w2, n, new)
  <2>1. n \in w.nodes /\ n # new /\ w.level[n] = w.level[c] /\ w2.area[n] = w.area[n]
    BY <1>1, <1>6, <1>10 DEF Leaf
  <2>2. \A x \in Int : ~(x \in w.area[n] /\ x \in w.area[c])
    BY <1>10, <2>1, SameLevelApart
  <2>3. \A x \in w.area[c] : \A y \in w.area[n] : \A z \in w.area[c] : ~(x <= y /\ y <= z)
    <3>1. Convex(w.area[c])
      BY AreaConvex
    <3> QED BY <1>3, <2>1, <2>2, <3>1 DEF Convex
  <2>4. ASSUME NEW x \in Int, x \in w.area[n], x + 1 \in w.area[c]
        PROVE  x + 1 < p
    BY <1>2, <1>4, <2>2, <2>3, <2>4
  <2>5. ASSUME NEW x \in Int, x \in w.area[c], x + 1 \in w.area[n]
        PROVE  p <= x
    BY <1>2, <1>4, <2>2, <2>3, <2>5
  <2>6. Adjacent(w2, n, c) <=> Adjacent(w, n, c)
    <3>1. Adjacent(w2, n, c) => Adjacent(w, n, c)
      BY <1>1, <2>1 DEF Adjacent
    <3>2. Adjacent(w, n, c) => Adjacent(w2, n, c)
      BY <1>1, <2>1, <2>4 DEF Adjacent
    <3> QED BY <3>1, <3>2
  <2>7. Adjacent(w2, new, n) <=> Adjacent(w, c, n)
    <3>1. Adjacent(w2, new, n) => Adjacent(w, c, n)
      BY <1>1, <1>10, <2>1 DEF Adjacent
    <3>2. Adjacent(w, c, n) => Adjacent(w2, new, n)
      BY <1>1, <2>1, <2>5 DEF Adjacent
    <3> QED BY <3>1, <3>2
  <2>8. ~Adjacent(w2, c, n)
    <3>1. SUFFICES ASSUME NEW x \in Int, x \in w2.area[c], x + 1 \in w2.area[n] PROVE FALSE
      BY DEF Adjacent
    <3>2. x \in w.area[c] /\ x < p /\ x + 1 \in w.area[n]
      BY <1>1, <2>1, <3>1
    <3> QED BY <1>2, <2>5, <3>2
  <2>9. ~Adjacent(w2, n, new)
    <3>1. SUFFICES ASSUME NEW x \in Int, x \in w2.area[n], x + 1 \in w2.area[new] PROVE FALSE
      BY DEF Adjacent
    <3>2. x \in w.area[n] /\ p <= x + 1 /\ x + 1 \in w.area[c]
      BY <1>1, <2>1, <3>1
    <3> QED BY <1>2, <2>4, <3>2
  <2> QED BY <2>6, <2>7, <2>8, <2>9
<1>11. \A n : ~Adjacent(w2, n, n)
  BY DEF Adjacent
<1>12. /\ \A n \in w2.nodes : w2.next[n] = IF n = new THEN w.next[c] ELSE IF n = c THEN new ELSE w.next[n]
       /\ \A n \in w2.nodes : w2.last[n] = IF n = new THEN c ELSE IF n = w.next[c] THEN new ELSE w.last[n]
  BY DEF SplitLinks
<1>13. /\ \A m, n : Leaf(w, m) /\ Leaf(w, n) => (w.next[m] = n <=> Adjacent(w, m, n))
       /\ \A m, n : Leaf(w, m) /\ Leaf(w, n) => (w.last[n] = m <=> Adjacent(w, m, n))
       /\ \A m : Leaf(w, m) => OnChain(w, m)
  BY DEF Linked, Leaf
<1>14. w.next[c] # new /\ w.next[c] # c
  BY <1>6, <1>13 DEF OnChain, Adjacent
<1>15. ASSUME NEW m, NEW n, Leaf(w2, m), Leaf(w2, n)
       PROVE  /\ w2.next[m] = n <=> Adjacent(w2, m, n)
              /\ w2.last[n] = m <=> Adjacent(w2, m, n)
  <2>0. m \in w2.nodes /\ n \in w2.nodes
    BY <1>15 DEF Leaf
  <2>1. CASE m = new /\ n = new
    BY <1>1, <1>11, <1>12, <1>14, <2>0, <2>1
  <2>2. CASE m = new /\ n = c
    <3>1. w2.next[m] = w.next[c] /\ w2.last[n] = w.last[c]
      BY <1>1, <1>12, <1>14, <2>0, <2>2
    <3>2. w.last[c] # new
      BY <1>6, <1>13 DEF OnChain, Leaf
    <3> QED BY <1>7, <1>14, <2>2, <3>1, <3>2
  <2>3. CASE m = new /\ Leaf(w, n) /\ n # c
    <3>1. n # new
      BY <1>6, <2>3
    <3>2. w2.next[m] = w.next[c]
      BY <1>12, <2>0, <2>3
    <3>3. w2.last[n] = new <=> w.next[c] = n
      <4>1. w.last[n] # new
        BY <1>6, <1>13, <2>3 DEF OnChain
      <4> QED BY <1>12, <2>0, <3>1, <4>1
    <3> QED BY <1>6, <1>10, <1>13, <2>3, <3>2, <3>3
  <2>4. CASE m = c /\ n = new
    BY <1>1, <1>8, <1>12, <2>0, <2>4
  <2>5. CASE m = c /\ n = c
    <3>1. w2.next[c] = new /\ w2.last[c] = w.last[c]
      BY <1>1, <1>12, <1>14, <2>0
    <3>2. w.last[c] # c
      BY <1>6, <1>13 DEF Adjacent
    <3> QED BY <1>1, <1>11, <2>5, <3>1, <3>2
  <2>6. CASE m = c /\ Leaf(w, n) /\ n # c
    <3>1. n # new /\ w2.next[m] = new
      BY <1>1, <1>6, <1>12, <2>0, <2>6
    <3>2. w2.last[n] # c
      <4>1. CASE n = w.next[c]
        BY <1>1, <1>12, <2>0, <3>1, <4>1
      <4>2. CASE n # w.next[c]
        <5>1. w2.last[n] = w.last[n]
          BY <1>12, <2>0, <3>1, <4>2
        <5> QED BY <1>6, <1>13, <2>6, <4>2, <5>1
      <4> QED BY <4>1, <4>2
    <3> QED BY <1>10, <2>6, <3>1, <3>2
  <2>7. CASE Leaf(w, m) /\ m # c /\ n = new
    <3>1. m # new /\ w2.next[m] = w.next[m] /\ w2.last[n] = c
      BY <1>6, <1>12, <2>0, <2>7
    <3>2. w.next[m] # new
      BY <1>6, <1>13, <2>7 DEF OnChain
    <3> QED BY <1>10, <2>7, <3>1, <3>2
  <2>8. CASE Leaf(w, m) /\ m # c /\ Leaf(w, n)
    <3>1. m # new /\ n # new
      BY <1>6, <2>8
    <3>2. w2.next[m] = w.next[m]
      BY <1>12, <2>0, <2>8, <3>1
    <3>3. Adjacent(w2, m, n) <=> Adjacent(w, m, n)
      BY <1>9, <1>10, <2>8
    <3>4. w2.last[n] = m <=> w.last[n] = m
      <4>1. CASE n = w.next[c]
        <5>1. w2.last[n] = new
          BY <1>12, <2>0, <3>1, <4>1
        <5>2. w.last[n] = c
          BY <1>6, <1>13, <2>8, <4>1
        <5> QED BY <2>8, <3>1, <5>1, <5>2
      <4>2. CASE n # w.next[c]
        BY <1>12, <2>0, <3>1, <4>2
      <4> QED BY <4>1, <4>2
    <3> QED BY <1>13, <2>8, <3>2, <3>3, <3>4
  <2> QED BY <1>5, <1>15, <2>1, <2>2, <2>3, <2>4, <2>5, <2>6, <2>7, <2>8
<1>16. ASSUME NEW m \in w2.nodes, Leaf(w2, m)
       PROVE  OnChain(w2, m)
  <2>1. w2.next[m] = NULL \/ Leaf(w2, w2.next[m])
    BY <1>5, <1>6, <1>12, <1>13, <1>16 DEF OnChain
  <2>2. w2.last[m] = NULL \/ Leaf(w2, w2.last[m])
    BY <1>5, <1>6, <1>12, <1>13, <1>16 DEF OnChain
  <2> QED BY <2>1, <2>2 DEF OnChain
<1>17. ASSUME NEW n \in w2.nodes, w2.level[n] # 0
       PROVE  w2.next[n] = NULL /\ w2.last[n] = NULL
  <2>1. n \in w.nodes /\ n # new /\ n # c /\ w.level[n] # 0
    BY <1>1, <1>17
  <2>2. w.next[n] = NULL /\ w.last[n] = NULL
    BY <2>1 DEF Linked
  <2>3. n # w.next[c]
    BY <1>6, <1>13, <2>1 DEF OnChain, Leaf, Linked
  <2> QED BY <1>12, <2>1, <2>2, <2>3
<1>18. NULL \notin w2.nodes
  BY <1>1 DEF Linked
<1> QED BY <1>15, <1>16, <1>17, <1>18 DEF Linked

(* Two neighbouring leaves become one. *)
MergeLinks(w, w2, c, c2) ==
  /\ \A n \in w2.nodes : w2.next[n] = IF n = c THEN w.next[c2] ELSE w.next[n]
  /\ \A n \in w2.nodes : w2.last[n] = IF n = w.next[c2] THEN c ELSE w.last[n]

(* Neighbouring keys of a node lead to adjacent areas. *)
LEMMA NeighboursAdjacent ==
  ASSUME NEW w, Shape(w), NEW f \in w.nodes, w.level[f] # 0,
         NEW kc \in Int, NEW k2 \in Int, NextKey(DOMAIN w.kids[f], kc, k2),
         NEW c, IsKid(w, f, kc, c), NEW c2, IsKid(w, f, k2, c2)
  PROVE  /\ Adjacent(w, c, c2)
         /\ \E x \in Int : x \in w.area[c] /\ x + 1 \in w.area[c2] /\ x + 1 = k2
<1>1. PICK K : K = DOMAIN w.kids[f]
  OBVIOUS
<1>2. kc \in K /\ k2 \in K /\ kc < k2 /\ \A j \in K : j <= kc \/ k2 <= j
  BY <1>1 DEF NextKey
<1>3. K \subseteq w.area[f] /\ w.area[f] \subseteq Int
  BY <1>1 DEF Shape
<1>4. /\ w.area[c] = Share(w, f, kc) /\ c \in w.nodes
      /\ LeastOf(DOMAIN w.kids[c], kc)
  BY <1>1, <1>2, ChildEdge DEF IsKid
<1>5. /\ w.area[c2] = Share(w, f, k2) /\ c2 \in w.nodes
      /\ LeastOf(DOMAIN w.kids[c2], k2)
  BY <1>1, <1>2, ChildEdge DEF IsKid
<1>6. k2 - 1 \in w.area[f]
  <2>1. Convex(w.area[f])
    BY AreaConvex
  <2> QED BY <1>2, <1>3, <2>1 DEF Convex
<1>7. Chosen(K, k2 - 1, kc) /\ Chosen(K, k2, k2)
  <2>1. \A j \in K : j \in Int /\ (j <= k2 - 1 => j <= kc)
    BY <1>2, <1>3
  <2>2. Chosen(K, k2 - 1, kc)
    BY <1>2, <2>1 DEF Chosen
  <2>3. Chosen(K, k2, k2)
    BY <1>2 DEF Chosen
  <2> QED BY <2>2, <2>3
<1>8. k2 - 1 \in w.area[c] /\ k2 \in w.area[c2]
  BY <1>1, <1>2, <1>3, <1>4, <1>5, <1>6, <1>7 DEF Share
<1>9. c # c2
  <2>1. ~LeastOf(DOMAIN w.kids[c], k2)
    BY <1>2, <1>4 DEF LeastOf
  <2> QED BY <1>5, <2>1
<1>10. PICK x \in Int : x = k2 - 1 /\ x + 1 = k2
  OBVIOUS
<1> QED BY <1>8, <1>9, <1>10 DEF Adjacent

(* A leaf that was merged into its neighbour is linked out. *)
LEMMA MergeLinked ==
  ASSUME NEW w, Shape(w), Linked(w), NEW c \in w.nodes, c # w.root, w.level[c] = 0,
         NEW kc \in Int, LeastOf(DOMAIN w.kids[c], kc),
         NEW k2 \in Int, NextKey(DOMAIN w.kids[w.father[c]], kc, k2),
         NEW c2 \in w.nodes, IsKid(w, w.father[c], k2, c2),
         NEW w2, MergeView(w, w2, c, c2, k2), MergeLinks(w, w2, c, c2)
  PROVE  Linked(w2)
<1>0. PICK f : f = w.father[c]
  OBVIOUS
<1>1. /\ f \in w.nodes /\ w.level[f] # 0 /\ w.level[c2] = 0
      /\ IsKid(w, f, kc, c)
      /\ LeastOf(DOMAIN w.kids[c2], k2)
  <2>1. /\ f \in w.nodes /\ w.level[f] \in Nat /\ w.level[f] = w.level[c] + 1
        /\ kc \in DOMAIN w.kids[f] /\ w.kids[f][kc] = c
    BY <1>0, FatherKey
  <2>2. k2 \in DOMAIN w.kids[f] /\ c2 = w.kids[f][k2]
    BY <1>0 DEF NextKey, IsKid
  <2>3. w.level[f] # 0
    BY <2>1
  <2>4. w.level[f] = w.level[c2] + 1 /\ LeastOf(DOMAIN w.kids[c2], k2) /\ w.level[c2] \in Nat
    BY <2>1, <2>2, <2>3, ChildEdge
  <2>5. w.level[c2] = 0
    BY <2>1, <2>4
  <2>6. IsKid(w, f, kc, c)
    BY <2>1 DEF IsKid
  <2> QED BY <2>1, <2>3, <2>4, <2>5, <2>6
<1>2. Adjacent(w, c, c2) /\ \E x \in Int : x \in w.area[c] /\ x + 1 \in w.area[c2] /\ x + 1 = k2
  BY <1>0, <1>1, NeighboursAdjacent
<1>3. PICK b \in Int : b \in w.area[c] /\ b + 1 \in w.area[c2]
  BY <1>2
<1>4. c # c2 /\ Leaf(w, c) /\ Leaf(w, c2) /\ c # NULL /\ c2 # NULL
  BY <1>1, <1>2 DEF Adjacent, Leaf, Linked
<1>5. /\ w2.nodes = w.nodes \ {c2} /\ c \in w2.nodes
      /\ \A n \in w2.nodes : w2.level[n] = w.level[n]
      /\ \A n \in w2.nodes : n # c => w2.area[n] = w.area[n]
      /\ w2.area[c] = w.area[c] \cup w.area[c2]
  BY <1>4 DEF MergeView
<1>6. \A n \in w.nodes : w.area[n] \subseteq Int
  BY DEF Shape
<1>7. \A n : Leaf(w2, n) <=> Leaf(w, n) /\ n # c2
  BY <1>5 DEF Leaf
<1>8. /\ \A m, n : Leaf(w, m) /\ Leaf(w, n) => (w.next[m] = n <=> Adjacent(w, m, n))
      /\ \A m, n : Leaf(w, m) /\ Leaf(w, n) => (w.last[n] = m <=> Adjacent(w, m, n))
      /\ \A m : Leaf(w, m) => OnChain(w, m)
  BY DEF Linked, Leaf
<1>9. /\ \A n \in w2.nodes : w2.next[n] = IF n = c THEN w.next[c2] ELSE w.next[n]
      /\ \A n \in w2.nodes : w2.last[n] = IF n = w.next[c2] THEN c ELSE w.last[n]
  BY DEF MergeLinks
<1>10. w.next[c] = c2 /\ w.last[c2] = c
  BY <1>2, <1>4, <1>8
<1>11. ASSUME NEW n, Leaf(w, n), n # c, n # c2
       PROVE  /\ Adjacent(w2, c, n) <=> Adjacent(w, c2, n)
              /\ Adjacent(w2, n, c) <=> Adjacent(w, n, c)
  <2>1. n \in w2.nodes /\ n \in w.nodes /\ w2.area[n] = w.area[n]
    BY <1>5, <1>11 DEF Leaf
  <2>2. ~Adjacent(w, c, n)
    BY <1>4, <1>8, <1>10, <1>11
  <2>3. ~Adjacent(w, n, c2)
    BY <1>4, <1>8, <1>10, <1>11
  <2>4. Adjacent(w2, c, n) <=> Adjacent(w, c, n) \/ Adjacent(w, c2, n)
    BY <1>5, <1>11, <2>1 DEF Adjacent
  <2>5. Adjacent(w2, n, c) <=> Adjacent(w, n, c) \/ Adjacent(w, n, c2)
    BY <1>5, <1>11, <2>1 DEF Adjacent
  <2> QED BY <2>2, <2>3, <2>4, <2>5
<1>12. ASSUME NEW m, NEW n, Leaf(w, m), Leaf(w, n), m # c, m # c2, n # c, n # c2
       PROVE  Adjacent(w2, m, n) <=> Adjacent(w, m, n)
  <2>1. m \in w2.nodes /\ n \in w2.nodes
    BY <1>5, <1>12 DEF Leaf
  <2> QED BY <1>5, <1>12, <2>1 DEF Adjacent
<1>13. w.next[c2] # c
  <2>1. SUFFICES ASSUME Adjacent(w, c2, c) PROVE FALSE
    BY <1>4, <1>8
  <2>2. PICK x \in Int : x \in w.area[c2] /\ x + 1 \in w.area[c]
    BY <2>1 DEF Adjacent
  <2>3. Convex(w.area[c]) /\ Convex(w.area[c2])
    BY AreaConvex
  <2>4. \A y \in Int : ~(y \in w.area[c] /\ y \in w.area[c2])
    BY <1>1, <1>4, SameLevelApart
  <2>5. CASE b <= x
    <3>1. x \in w.area[c] \/ x < b
      BY <1>3, <2>2, <2>3, <2>5 DEF Convex
    <3> QED BY <2>2, <2>4, <2>5, <3>1
  <2>6. CASE x < b
    <3>1. b \in w.area[c2]
      BY <1>3, <2>2, <2>3, <2>6 DEF Convex
    <3> QED BY <1>3, <2>4, <3>1
  <2> QED BY <2>5, <2>6
<1>14. ASSUME NEW m, NEW n, Leaf(w2, m), Leaf(w2, n)
       PROVE  /\ w2.next[m] = n <=> Adjacent(w2, m, n)
              /\ w2.last[n] = m <=> Adjacent(w2, m, n)
  <2>0. /\ m \in w2.nodes /\ n \in w2.nodes
        /\ Leaf(w, m) /\ Leaf(w, n) /\ m # c2 /\ n # c2
    BY <1>7, <1>14 DEF Leaf
  <2>1. CASE m = c /\ n = c
    <3>1. ~Adjacent(w2, m, n)
      BY <2>1 DEF Adjacent
    <3>2. w.last[c] # c
      BY <1>4, <1>8 DEF Adjacent
    <3> QED BY <1>9, <1>13, <2>0, <2>1, <3>1, <3>2
  <2>2. CASE m = c /\ n # c
    <3>1. w2.next[m] = w.next[c2] /\ (Adjacent(w2, m, n) <=> Adjacent(w, c2, n))
      BY <1>9, <1>11, <2>0, <2>2
    <3>2. w.next[c2] = n <=> Adjacent(w, c2, n)
      BY <1>4, <1>8, <2>0
    <3>3. w2.last[n] = c <=> w.next[c2] = n
      <4>1. w.last[n] # c
        BY <1>4, <1>8, <1>10, <2>0
      <4> QED BY <1>9, <2>0, <4>1
    <3> QED BY <2>2, <3>1, <3>2, <3>3
  <2>3. CASE m # c /\ n = c
    <3>1. w2.next[m] = w.next[m] /\ w2.last[n] = w.last[n]
      BY <1>9, <1>13, <2>0, <2>3
    <3> QED BY <1>8, <1>11, <2>0, <2>3, <3>1
  <2>4. CASE m # c /\ n # c
    <3>1. w2.next[m] = w.next[m] /\ (Adjacent(w2, m, n) <=> Adjacent(w, m, n))
      BY <1>9, <1>12, <2>0, <2>4
    <3>2. w2.last[n] = m <=> w.last[n] = m
      <4>1. CASE n = w.next[c2]
        <5>1. w.last[n] = c2
          BY <1>4, <1>8, <2>0, <4>1
        <5> QED BY <1>9, <2>0, <2>4, <4>1, <5>1
      <4>2. CASE n # w.next[c2]
        BY <1>9, <2>0, <4>2
      <4> QED BY <4>1, <4>2
    <3> QED BY <1>8, <2>0, <3>1, <3>2
  <2> QED BY <2>1, <2>2, <2>3, <2>4
<1>15. ASSUME NEW m \in w2.nodes, Leaf(w2, m)
       PROVE  OnChain(w2, m)
  <2>1. Leaf(w, m) /\ m # c2
    BY <1>7, <1>15
  <2>2. w2.next[m] = NULL \/ Leaf(w2, w2.next[m])
    <3>1. CASE m = c
      <4>1. w.next[c2] # c2 /\ (w.next[c2] = NULL \/ Leaf(w, w.next[c2]))
        BY <1>4, <1>8 DEF OnChain, Adjacent
      <4> QED BY <1>7, <1>9, <1>15, <3>1, <4>1
    <3>2. CASE m # c
      <4>1. w.next[m] # c2
        BY <1>4, <1>8, <1>10, <2>1, <3>2
      <4>2. w.next[m] = NULL \/ Leaf(w, w.next[m])
        BY <1>8, <2>1 DEF OnChain
      <4> QED BY <1>7, <1>9, <1>15, <3>2, <4>1, <4>2
    <3> QED BY <3>1, <3>2
  <2>3. w2.last[m] = NULL \/ Leaf(w2, w2.last[m])
    <3>1. CASE m = w.next[c2]
      BY <1>4, <1>7, <1>9, <1>15, <3>1
    <3>2. CASE m # w.next[c2]
      <4>1. w.last[m] # c2
        BY <1>4, <1>8, <2>1, <3>2
      <4>2. w.last[m] = NULL \/ Leaf(w, w.last[m])
        BY <1>8, <2>1 DEF OnChain
      <4> QED BY <1>7, <1>9, <1>15, <3>2, <4>1, <4>2
    <3> QED BY <3>1, <3>2
  <2> QED BY <2>2, <2>3 DEF OnChain
<1>16. ASSUME NEW n \in w2.nodes, w2.level[n] # 0
       PROVE  w2.next[n] = NULL /\ w2.last[n] = NULL
  <2>1. n \in w.nodes /\ n # c /\ w.level[n] # 0
    BY <1>5, <1>16
  <2>2. w.next[n] = NULL /\ w.last[n] = NULL
    BY <2>1 DEF Linked
  <2>3. n # w.next[c2]
    BY <1>4, <1>8, <2>1 DEF OnChain, Leaf, Linked
  <2> QED BY <1>9, <1>16, <2>1, <2>2, <2>3
<1>17. NULL \notin w2.nodes
  BY <1>5 DEF Linked
<1> QED BY <1>14, <1>15, <1>16, <1>17 DEF Linked

-----------------------------------------------------------------------------
(* What leaves the chain as it was.                                        *)
LEMMA RaiseAdjacent ==
  ASSUME NEW w, Shape(w), NEW leaf \in w.nodes, w.level[leaf] = 0,
         NEW k \in Int, NEW k2 \in Int, NextKey(DOMAIN w.kids[leaf], k, k2),
         LeastOf(DOMAIN w.kids[leaf], k),
         NEW w2, RaiseView(w, w2, leaf, k, k2),
         NEW m, NEW n, Leaf(w, m), Leaf(w, n)
  PROVE  Adjacent(w2, m, n) <=> Adjacent(w, m, n)
<1>1. /\ m \in w.nodes /\ n \in w.nodes /\ w.level[m] = 0 /\ w.level[n] = 0
  BY DEF Leaf
<1>2. /\ w2.area[m] = {x \in Int : Back(x, k, k2) \in w.area[m]}
      /\ w2.area[n] = {x \in Int : Back(x, k, k2) \in w.area[n]}
  BY <1>1 DEF RaiseView
<1>3. k < k2 /\ k \in w.area[leaf] /\ k2 \in w.area[leaf]
  BY DEF NextKey, Shape
<1>4. \A x \in Int : k <= x /\ x <= k2 => x \in w.area[leaf]
  <2>1. Convex(w.area[leaf])
    BY AreaConvex
  <2> QED BY <1>3, <2>1 DEF Convex
<1>5. /\ \A x \in Int : x \in w.area[m] /\ x \in w.area[leaf] => m = leaf
      /\ \A x \in Int : x \in w.area[n] /\ x \in w.area[leaf] => n = leaf
      /\ \A x \in Int : x \in w.area[m] /\ x \in w.area[n] => m = n
  BY <1>1, SameLevelApart
<1>6. ASSUME Adjacent(w, m, n)
      PROVE  Adjacent(w2, m, n)
  <2>1. PICK x \in Int : m # n /\ x \in w.area[m] /\ x + 1 \in w.area[n]
    BY <1>6 DEF Adjacent
  <2>2. CASE x + 1 = k
    <3>1. n = leaf
      BY <1>3, <1>5, <2>1, <2>2
    <3>2. PICK y \in Int : y = k2 - 1 /\ y + 1 = k2
      OBVIOUS
    <3>3. Back(y, k, k2) = x /\ Back(y + 1, k, k2) = k2
      BY <1>3, <2>2, <3>2 DEF Back
    <3>4. y \in w2.area[m] /\ y + 1 \in w2.area[n]
      BY <1>2, <1>3, <2>1, <3>1, <3>2, <3>3
    <3> QED BY <2>1, <3>4 DEF Adjacent
  <2>3. CASE x + 1 # k
    <3>1. ~(k <= x /\ x < k2)
      <4>1. SUFFICES ASSUME k <= x, x < k2 PROVE FALSE
        OBVIOUS
      <4>2. x \in w.area[leaf] /\ x + 1 \in w.area[leaf]
        BY <1>4, <4>1
      <4> QED BY <1>5, <2>1, <4>2
    <3>2. Back(x, k, k2) = x /\ Back(x + 1, k, k2) = x + 1
      BY <2>3, <3>1 DEF Back
    <3>3. x \in w2.area[m] /\ x + 1 \in w2.area[n]
      BY <1>2, <2>1, <3>2
    <3> QED BY <2>1, <3>3 DEF Adjacent
  <2> QED BY <2>2, <2>3
<1>7. ASSUME Adjacent(w2, m, n)
      PROVE  Adjacent(w, m, n)
  <2>1. PICK x \in Int : m # n /\ x \in w2.area[m] /\ x + 1 \in w2.area[n]
    BY <1>7 DEF Adjacent
  <2>2. Back(x, k, k2) \in w.area[m] /\ Back(x + 1, k, k2) \in w.area[n]
    BY <1>2, <2>1
  <2>3. CASE x + 1 = k2
    <3>1. Back(x, k, k2) = k - 1 /\ Back(x + 1, k, k2) = k2
      BY <1>3, <2>3 DEF Back
    <3>2. n = leaf
      BY <1>3, <1>5, <2>2, <3>1
    <3>3. PICK y \in Int : y = k - 1 /\ y + 1 = k
      OBVIOUS
    <3> QED BY <1>3, <2>1, <2>2, <3>1, <3>2, <3>3 DEF Adjacent
  <2>4. CASE x + 1 # k2 /\ k - 1 <= x /\ x < k2
    <3>1. Back(x, k, k2) = k - 1 /\ Back(x + 1, k, k2) = k - 1
      BY <1>3, <2>4 DEF Back
    <3> QED BY <1>5, <2>1, <2>2, <3>1
  <2>5. CASE ~(k - 1 <= x /\ x < k2)
    <3>1. Back(x, k, k2) = x /\ Back(x + 1, k, k2) = x + 1
      BY <1>3, <2>5 DEF Back
    <3> QED BY <2>1, <2>2, <3>1 DEF Adjacent
  <2> QED BY <2>3, <2>4, <2>5
<1> QED BY <1>6, <1>7

SameLinks(w, w2) ==
  \A n \in w.nodes : w2.next[n] = w.next[n] /\ w2.last[n] = w.last[n]

(* Raised keys leave the leaves linked. *)
LEMMA RaiseLinked ==
  ASSUME NEW w, Shape(w), Linked(w), NEW leaf \in w.nodes, w.level[leaf] = 0,
         NEW k \in Int, NEW k2 \in Int, NextKey(DOMAIN w.kids[leaf], k, k2),
         LeastOf(DOMAIN w.kids[leaf], k),
         NEW w2, RaiseView(w, w2, leaf, k, k2), SameLinks(w, w2)
  PROVE  Linked(w2)
<1>1. w2.nodes = w.nodes /\ w2.level = w.level
  BY DEF RaiseView, SameTree
<1>2. \A m, n : Leaf(w, m) /\ Leaf(w, n) => (Adjacent(w2, m, n) <=> Adjacent(w, m, n))
  BY RaiseAdjacent
<1>3. SameChain(w, w2)
  BY <1>1, <1>2 DEF SameChain, SameLinks, Leaf, Linked
<1> QED BY <1>3, SameChainLinked

(* The nodes, levels, areas and links are as before. *)
LEMMA SameAreasLinked ==
  ASSUME NEW w, Linked(w), NEW w2, SameTree(w, w2), w2.area = w.area, SameLinks(w, w2)
  PROVE  Linked(w2)
<1>1. w2.nodes = w.nodes /\ w2.level = w.level /\ w2.area = w.area
  BY DEF SameTree
<1>2. \A m, n : Adjacent(w2, m, n) <=> Adjacent(w, m, n)
  BY <1>1 DEF Adjacent
<1>3. SameChain(w, w2)
  BY <1>1, <1>2 DEF SameChain, SameLinks, Leaf, Linked
<1> QED BY <1>3, SameChainLinked

(* An inner node is cut in two. *)
LEMMA SplitInnerLinked ==
  ASSUME NEW w, Linked(w), NEW c \in w.nodes, w.level[c] # 0,
         NEW new, new \notin w.nodes, new # NULL, NEW p,
         NEW w2, SplitView(w, w2, c, new, p), SameLinks(w, w2),
         w2.next[new] = NULL, w2.last[new] = NULL
  PROVE  Linked(w2)
<1>1. /\ w2.nodes = w.nodes \cup {new}
      /\ \A n \in w.nodes : w2.level[n] = w.level[n]
      /\ w2.level[new] = w.level[c]
      /\ \A n \in w.nodes : n # c => w2.area[n] = w.area[n]
  BY DEF SplitView
<1>2. \A n : Leaf(w2, n) <=> Leaf(w, n)
  BY <1>1 DEF Leaf
<1>3. \A n : Leaf(w, n) => n \in w.nodes /\ w2.area[n] = w.area[n]
  BY <1>1 DEF Leaf
<1>4. \A m, n : Leaf(w, m) /\ Leaf(w, n) => (Adjacent(w2, m, n) <=> Adjacent(w, m, n))
  BY <1>3 DEF Adjacent
<1>5. \A n \in w2.nodes : w2.level[n] # 0 => w2.next[n] = NULL /\ w2.last[n] = NULL
  BY <1>1 DEF SameLinks, Linked
<1>6. NULL \notin w2.nodes
  BY <1>1 DEF Linked
<1>7. \A n \in w2.nodes : Leaf(w, n) => w2.next[n] = w.next[n] /\ w2.last[n] = w.last[n]
  BY <1>3 DEF SameLinks
<1>8. SameChain(w, w2)
  BY <1>2, <1>4, <1>5, <1>6, <1>7 DEF SameChain
<1> QED BY <1>8, SameChainLinked

(* Two inner nodes become one. *)
LEMMA MergeInnerLinked ==
  ASSUME NEW w, Linked(w), NEW c \in w.nodes, w.level[c] # 0, NEW k2,
         NEW c2 \in w.nodes, w.level[c2] # 0, c # c2,
         NEW w2, MergeView(w, w2, c, c2, k2),
         \A n \in w2.nodes : w2.next[n] = w.next[n] /\ w2.last[n] = w.last[n]
  PROVE  Linked(w2)
<1>1. /\ w2.nodes = w.nodes \ {c2}
      /\ \A n \in w2.nodes : w2.level[n] = w.level[n]
      /\ \A n \in w2.nodes : n # c => w2.area[n] = w.area[n]
  BY DEF MergeView
<1>2. \A n : Leaf(w2, n) <=> Leaf(w, n)
  BY <1>1 DEF Leaf
<1>3. \A n : Leaf(w, n) => n \in w2.nodes /\ w2.area[n] = w.area[n]
  BY <1>1 DEF Leaf
<1>4. \A m, n : Leaf(w, m) /\ Leaf(w, n) => (Adjacent(w2, m, n) <=> Adjacent(w, m, n))
  BY <1>3 DEF Adjacent
<1>5. \A n \in w2.nodes : w2.level[n] # 0 => w2.next[n] = NULL /\ w2.last[n] = NULL
  BY <1>1 DEF Linked
<1>6. NULL \notin w2.nodes
  BY <1>1 DEF Linked
<1>8. SameChain(w, w2)
  BY <1>2, <1>4, <1>5, <1>6 DEF SameChain
<1> QED BY <1>8, SameChainLinked

(* A new root leaves them linked. *)
LEMMA GrowLinked ==
  ASSUME NEW w, Shape(w), Linked(w), NEW new, new \notin w.nodes, new # NULL, NEW k,
         NEW w2, GrowView(w, w2, new, k), SameLinks(w, w2),
         w2.next[new] = NULL, w2.last[new] = NULL
  PROVE  Linked(w2)
<1>1. /\ w2.nodes = w.nodes \cup {new}
      /\ \A n \in w.nodes : w2.level[n] = w.level[n] /\ w2.area[n] = w.area[n]
      /\ w2.level[new] # 0
  <2>1. w.level[w.root] \in Nat
    BY DEF Shape
  <2>2. w2.level[new] = w.level[w.root] + 1
    BY DEF GrowView
  <2>3. /\ w2.nodes = w.nodes \cup {new}
        /\ \A n \in w.nodes : w2.level[n] = w.level[n] /\ w2.area[n] = w.area[n]
    BY DEF GrowView
  <2> QED BY <2>1, <2>2, <2>3
<1>2. \A n : Leaf(w2, n) <=> Leaf(w, n)
  BY <1>1 DEF Leaf
<1>3. \A n : Leaf(w, n) => n \in w.nodes /\ w2.area[n] = w.area[n]
  BY <1>1 DEF Leaf
<1>4. \A m, n : Leaf(w, m) /\ Leaf(w, n) => (Adjacent(w2, m, n) <=> Adjacent(w, m, n))
  BY <1>3 DEF Adjacent
<1>5. \A n \in w2.nodes : w2.level[n] # 0 => w2.next[n] = NULL /\ w2.last[n] = NULL
  BY <1>1 DEF SameLinks, Linked
<1>6. NULL \notin w2.nodes
  BY <1>1 DEF Linked
<1>7. \A n \in w2.nodes : Leaf(w, n) => w2.next[n] = w.next[n] /\ w2.last[n] = w.last[n]
  BY <1>3 DEF SameLinks
<1>8. SameChain(w, w2)
  BY <1>2, <1>4, <1>5, <1>6, <1>7 DEF SameChain
<1> QED BY <1>8, SameChainLinked

(* So does a root that gives way. *)
LEMMA ShrinkLinked ==
  ASSUME NEW w, Linked(w), w.level[w.root] # 0, NEW c,
         NEW w2, ShrinkView(w, w2, c),
         \A n \in w2.nodes : w2.next[n] = w.next[n] /\ w2.last[n] = w.last[n]
  PROVE  Linked(w2)
<1>1. /\ w2.nodes = w.nodes \ {w.root}
      /\ \A n \in w2.nodes : w2.level[n] = w.level[n] /\ w2.area[n] = w.area[n]
  BY DEF ShrinkView
<1>2. \A n : Leaf(w2, n) <=> Leaf(w, n)
  BY <1>1 DEF Leaf
<1>3. \A n : Leaf(w, n) => n \in w2.nodes /\ w2.area[n] = w.area[n]
  BY <1>1 DEF Leaf
<1>4. \A m, n : Leaf(w, m) /\ Leaf(w, n) => (Adjacent(w2, m, n) <=> Adjacent(w, m, n))
  BY <1>3 DEF Adjacent
<1>5. \A n \in w2.nodes : w2.level[n] # 0 => w2.next[n] = NULL /\ w2.last[n] = NULL
  BY <1>1 DEF Linked
<1>6. NULL \notin w2.nodes
  BY <1>1 DEF Linked
<1>8. SameChain(w, w2)
  BY <1>2, <1>4, <1>5, <1>6 DEF SameChain
<1> QED BY <1>8, SameChainLinked

-----------------------------------------------------------------------------
(* The records: r is in a leaf, at key k.                                  *)
HeldBy(w, k, r) ==
  \E l \in w.nodes : w.level[l] = 0 /\ k \in DOMAIN w.kids[l] /\ w.kids[l][k] = r

SameHeld(w, w2) == \A k, r : HeldBy(w2, k, r) <=> HeldBy(w, k, r)

(* A key is in one leaf only. *)
LEMMA HeldInOne ==
  ASSUME NEW w, Shape(w), NEW m, NEW n, Leaf(w, m), Leaf(w, n),
         NEW k, k \in DOMAIN w.kids[m], k \in DOMAIN w.kids[n]
  PROVE  m = n
<1>1. k \in w.area[m] /\ k \in w.area[n] /\ k \in Int /\ w.level[m] = 0 /\ w.level[n] = 0
      /\ m \in w.nodes /\ n \in w.nodes
  BY DEF Shape, Leaf
<1> QED BY <1>1, SameLevelApart

(* A split moves records and loses none. *)
LEMMA SplitHeld ==
  ASSUME NEW w, Shape(w), NEW c \in w.nodes, c # w.root, NEW new, new \notin w.nodes,
         NEW p \in DOMAIN w.kids[c], NEW w2, SplitView(w, w2, c, new, p)
  PROVE  SameHeld(w, w2)
<1>1. /\ w2.nodes = w.nodes \cup {new} /\ c # new
      /\ \A n \in w.nodes : w2.level[n] = w.level[n]
      /\ w2.level[new] = w.level[c]
      /\ \A n \in w.nodes : n # c /\ n # w.father[c] => w2.kids[n] = w.kids[n]
      /\ w2.kids[new] = Over(w.kids[c], p)
      /\ w2.kids[c] = Under(w.kids[c], p)
  BY DEF SplitView
<1>2. w.father[c] \in w.nodes /\ w.level[w.father[c]] # 0
  BY DEF Shape, Hangs
<1>3. DOMAIN w.kids[c] \subseteq Int /\ p \in Int
  BY DEF Shape
<1>4. PICK F : F = w.kids[c]
  OBVIOUS
<1>5. PICK G : G = w2.kids[new]
  OBVIOUS
<1>6. PICK H : H = w2.kids[c]
  OBVIOUS
<1>7. /\ \A k : k \in DOMAIN G <=> k \in DOMAIN F /\ p <= k
      /\ \A k \in DOMAIN G : G[k] = F[k]
  BY <1>1, <1>4, <1>5 DEF Over
<1>8. /\ \A k : k \in DOMAIN H <=> k \in DOMAIN F /\ k < p
      /\ \A k \in DOMAIN H : H[k] = F[k]
  BY <1>1, <1>4, <1>6 DEF Under
<1> SUFFICES ASSUME NEW k, NEW r PROVE HeldBy(w2, k, r) <=> HeldBy(w, k, r)
  BY DEF SameHeld
<1>9. ASSUME HeldBy(w2, k, r)
      PROVE  HeldBy(w, k, r)
  <2>1. PICK l \in w2.nodes : w2.level[l] = 0 /\ k \in DOMAIN w2.kids[l] /\ w2.kids[l][k] = r
    BY <1>9 DEF HeldBy
  <2>2. CASE l = new
    <3>1. w.level[c] = 0 /\ k \in DOMAIN F /\ F[k] = r
      BY <1>1, <1>5, <1>7, <2>1, <2>2
    <3> QED BY <1>4, <3>1 DEF HeldBy
  <2>3. CASE l = c
    <3>1. w.level[c] = 0 /\ k \in DOMAIN F /\ F[k] = r
      BY <1>1, <1>6, <1>8, <2>1, <2>3
    <3> QED BY <1>4, <3>1 DEF HeldBy
  <2>4. CASE l # new /\ l # c
    <3>1. l \in w.nodes /\ w.level[l] = 0 /\ w2.kids[l] = w.kids[l]
      BY <1>1, <1>2, <2>1, <2>4
    <3> QED BY <2>1, <3>1 DEF HeldBy
  <2> QED BY <2>2, <2>3, <2>4
<1>10. ASSUME HeldBy(w, k, r)
       PROVE  HeldBy(w2, k, r)
  <2>1. PICK l \in w.nodes : w.level[l] = 0 /\ k \in DOMAIN w.kids[l] /\ w.kids[l][k] = r
    BY <1>10 DEF HeldBy
  <2>2. CASE l # c
    <3>1. l \in w2.nodes /\ w2.level[l] = 0 /\ w2.kids[l] = w.kids[l]
      BY <1>1, <1>2, <2>1, <2>2
    <3> QED BY <2>1, <3>1 DEF HeldBy
  <2>3. CASE l = c /\ p <= k
    <3>1. new \in w2.nodes /\ w2.level[new] = 0 /\ k \in DOMAIN G /\ G[k] = r
      BY <1>1, <1>4, <1>7, <2>1, <2>3
    <3> QED BY <1>5, <3>1 DEF HeldBy
  <2>4. CASE l = c /\ k < p
    <3>1. c \in w2.nodes /\ w2.level[c] = 0 /\ k \in DOMAIN H /\ H[k] = r
      BY <1>1, <1>4, <1>8, <2>1, <2>4
    <3> QED BY <1>6, <3>1 DEF HeldBy
  <2> QED BY <1>3, <2>1, <2>2, <2>3, <2>4
<1> QED BY <1>9, <1>10

(* Nor does a merge, ... *)
LEMMA MergeHeld ==
  ASSUME NEW w, Shape(w), NEW c \in w.nodes, c # w.root, NEW c2 \in w.nodes, c # c2,
         w.level[c2] = w.level[c], NEW k2, NEW w2, MergeView(w, w2, c, c2, k2)
  PROVE  SameHeld(w, w2)
<1>1. /\ w2.nodes = w.nodes \ {c2}
      /\ \A n \in w2.nodes : w2.level[n] = w.level[n]
      /\ \A n \in w.nodes : n # c /\ n # c2 /\ n # w.father[c] => w2.kids[n] = w.kids[n]
      /\ w2.kids[c] = Both(w.kids[c], w.kids[c2])
  BY DEF MergeView
<1>2. w.father[c] \in w.nodes /\ w.level[w.father[c]] # 0
  BY DEF Shape, Hangs
<1>3. PICK F : F = w.kids[c]
  OBVIOUS
<1>4. PICK G : G = w.kids[c2]
  OBVIOUS
<1>5. PICK H : H = w2.kids[c]
  OBVIOUS
<1>6. /\ DOMAIN H = DOMAIN F \cup DOMAIN G
      /\ \A k \in DOMAIN F : H[k] = F[k]
      /\ \A k \in DOMAIN G : k \notin DOMAIN F => H[k] = G[k]
  BY <1>1, <1>3, <1>4, <1>5 DEF Both
<1>7. w.level[c] = 0 => \A k \in DOMAIN G : k \notin DOMAIN F
  BY <1>3, <1>4, HeldInOne DEF Leaf
<1> SUFFICES ASSUME NEW k, NEW r PROVE HeldBy(w2, k, r) <=> HeldBy(w, k, r)
  BY DEF SameHeld
<1>8. ASSUME HeldBy(w2, k, r)
      PROVE  HeldBy(w, k, r)
  <2>1. PICK l \in w2.nodes : w2.level[l] = 0 /\ k \in DOMAIN w2.kids[l] /\ w2.kids[l][k] = r
    BY <1>8 DEF HeldBy
  <2>2. CASE l = c
    <3>1. k \in DOMAIN H /\ H[k] = r /\ w.level[c] = 0
      BY <1>1, <1>5, <2>1, <2>2
    <3>2. CASE k \in DOMAIN F
      BY <1>3, <1>6, <3>1, <3>2 DEF HeldBy
    <3>3. CASE k \notin DOMAIN F
      BY <1>4, <1>6, <3>1, <3>3 DEF HeldBy
    <3> QED BY <3>2, <3>3
  <2>3. CASE l # c
    <3>1. l \in w.nodes /\ w.level[l] = 0 /\ w2.kids[l] = w.kids[l]
      BY <1>1, <1>2, <2>1, <2>3
    <3> QED BY <2>1, <3>1 DEF HeldBy
  <2> QED BY <2>2, <2>3
<1>9. ASSUME HeldBy(w, k, r)
      PROVE  HeldBy(w2, k, r)
  <2>1. PICK l \in w.nodes : w.level[l] = 0 /\ k \in DOMAIN w.kids[l] /\ w.kids[l][k] = r
    BY <1>9 DEF HeldBy
  <2>0. c \in w2.nodes
    BY <1>1
  <2>2. CASE l = c
    <3>1. k \in DOMAIN H /\ H[k] = r /\ w2.level[c] = 0
      BY <1>1, <1>3, <1>6, <2>0, <2>1, <2>2
    <3> QED BY <1>5, <2>0, <3>1 DEF HeldBy
  <2>3. CASE l = c2
    <3>1. w.level[c] = 0 /\ k \in DOMAIN G /\ G[k] = r
      BY <1>4, <2>1, <2>3
    <3>2. k \in DOMAIN H /\ H[k] = r /\ w2.level[c] = 0
      BY <1>1, <1>6, <1>7, <2>0, <3>1
    <3> QED BY <1>5, <2>0, <3>2 DEF HeldBy
  <2>4. CASE l # c /\ l # c2
    <3>1. l \in w2.nodes /\ w2.level[l] = 0 /\ w2.kids[l] = w.kids[l]
      BY <1>1, <1>2, <2>1, <2>4
    <3> QED BY <2>1, <3>1 DEF HeldBy
  <2> QED BY <2>2, <2>3, <2>4
<1> QED BY <1>8, <1>9

(* ... a new root ... *)
LEMMA GrowHeld ==
  ASSUME NEW w, Shape(w), NEW new, new \notin w.nodes, NEW k, NEW w2, GrowView(w, w2, new, k)
  PROVE  SameHeld(w, w2)
<1>1. /\ w2.nodes = w.nodes \cup {new}
      /\ \A n \in w.nodes : w2.level[n] = w.level[n] /\ w2.kids[n] = w.kids[n]
      /\ w2.level[new] # 0
  <2>1. w.level[w.root] \in Nat
    BY DEF Shape
  <2>2. w2.level[new] = w.level[w.root] + 1
    BY DEF GrowView
  <2>3. /\ w2.nodes = w.nodes \cup {new}
        /\ \A n \in w.nodes : w2.level[n] = w.level[n] /\ w2.kids[n] = w.kids[n]
    BY DEF GrowView
  <2> QED BY <2>1, <2>2, <2>3
<1> QED BY <1>1 DEF SameHeld, HeldBy

(* ... or a root that gives way. *)
LEMMA ShrinkHeld ==
  ASSUME NEW w, w.level[w.root] # 0, NEW c, NEW w2, ShrinkView(w, w2, c)
  PROVE  SameHeld(w, w2)
<1>1. /\ w2.nodes = w.nodes \ {w.root}
      /\ \A n \in w2.nodes : w2.level[n] = w.level[n] /\ w2.kids[n] = w.kids[n]
  BY DEF ShrinkView
<1> QED BY <1>1 DEF SameHeld, HeldBy

(* Record r is put at key x. *)
PutHeld(w, w2, x, r) ==
  \A k, q : HeldBy(w2, k, q) <=> IF k = x THEN q = r ELSE HeldBy(w, k, q)

(* What was at key x is gone. *)
TakenHeld(w, w2, x) ==
  \A k, q : HeldBy(w2, k, q) <=> k # x /\ HeldBy(w, k, q)

(* A leaf gets a record. *)
LEMMA PlusHeld ==
  ASSUME NEW w, Shape(w), NEW leaf, Leaf(w, leaf), NEW x \in Int, x \in w.area[leaf], NEW r,
         NEW w2, w2.nodes = w.nodes, w2.level = w.level,
         w2.kids[leaf] = Plus(w.kids[leaf], x, r),
         \A n \in w.nodes : w.level[n] = 0 /\ n # leaf => w2.kids[n] = w.kids[n]
  PROVE  PutHeld(w, w2, x, r)
<1>1. leaf \in w.nodes /\ w.level[leaf] = 0
  BY DEF Leaf
<1>2. PICK F : F = w.kids[leaf]
  OBVIOUS
<1>3. PICK G : G = w2.kids[leaf]
  OBVIOUS
<1>4. /\ DOMAIN G = DOMAIN F \cup {x} /\ G[x] = r
      /\ \A k \in DOMAIN F : k # x => G[k] = F[k]
  BY <1>2, <1>3 DEF Plus
<1> SUFFICES ASSUME NEW k, NEW q PROVE HeldBy(w2, k, q) <=> IF k = x THEN q = r ELSE HeldBy(w, k, q)
  BY DEF PutHeld
<1>5. ASSUME NEW l \in w.nodes, w.level[l] = 0, x \in DOMAIN w2.kids[l]
      PROVE  l = leaf
  <2> SUFFICES ASSUME l # leaf PROVE FALSE
    OBVIOUS
  <2>1. x \in w.area[l]
    BY <1>5 DEF Shape
  <2> QED BY <1>1, <1>5, <2>1, SameLevelApart
<1>6. CASE k = x
  <2>1. HeldBy(w2, k, q) => q = r
    BY <1>3, <1>4, <1>5, <1>6 DEF HeldBy
  <2>2. HeldBy(w2, x, r)
    BY <1>1, <1>3, <1>4 DEF HeldBy
  <2> QED BY <1>6, <2>1, <2>2
<1>7. CASE k # x
  <2>1. ASSUME NEW l \in w.nodes, w.level[l] = 0
        PROVE  k \in DOMAIN w2.kids[l] /\ w2.kids[l][k] = q <=> k \in DOMAIN w.kids[l] /\ w.kids[l][k] = q
    <3>1. CASE l = leaf
      BY <1>2, <1>3, <1>4, <1>7, <3>1
    <3>2. CASE l # leaf
      BY <2>1, <3>2
    <3> QED BY <3>1, <3>2
  <2> QED BY <1>7, <2>1 DEF HeldBy
<1> QED BY <1>6, <1>7

(* A leaf loses one. *)
LEMMA MinusHeld ==
  ASSUME NEW w, Shape(w), NEW leaf, Leaf(w, leaf), NEW x \in DOMAIN w.kids[leaf],
         NEW w2, w2.nodes = w.nodes, w2.level = w.level,
         w2.kids[leaf] = Minus(w.kids[leaf], x),
         \A n \in w.nodes : w.level[n] = 0 /\ n # leaf => w2.kids[n] = w.kids[n]
  PROVE  TakenHeld(w, w2, x)
<1>1. leaf \in w.nodes /\ w.level[leaf] = 0
  BY DEF Leaf
<1>2. PICK F : F = w.kids[leaf]
  OBVIOUS
<1>3. PICK G : G = w2.kids[leaf]
  OBVIOUS
<1>4. /\ DOMAIN G = DOMAIN F \ {x}
      /\ \A k \in DOMAIN F : k # x => G[k] = F[k]
  BY <1>2, <1>3 DEF Minus
<1> SUFFICES ASSUME NEW k, NEW q PROVE HeldBy(w2, k, q) <=> k # x /\ HeldBy(w, k, q)
  BY DEF TakenHeld
<1>5. ASSUME NEW l \in w.nodes, w.level[l] = 0
      PROVE  x \notin DOMAIN w2.kids[l]
  <2>1. CASE l = leaf
    BY <1>3, <1>4, <2>1
  <2>2. CASE l # leaf
    BY <1>5, <2>2, HeldInOne DEF Leaf
  <2> QED BY <2>1, <2>2
<1>6. CASE k = x
  BY <1>5, <1>6 DEF HeldBy
<1>7. CASE k # x
  <2>1. ASSUME NEW l \in w.nodes, w.level[l] = 0
        PROVE  k \in DOMAIN w2.kids[l] /\ w2.kids[l][k] = q <=> k \in DOMAIN w.kids[l] /\ w.kids[l][k] = q
    <3>1. CASE l = leaf
      BY <1>2, <1>3, <1>4, <1>7, <3>1
    <3>2. CASE l # leaf
      BY <2>1, <3>2
    <3> QED BY <3>1, <3>2
  <2> QED BY <1>7, <2>1 DEF HeldBy
<1> QED BY <1>6, <1>7

-----------------------------------------------------------------------------
(* The tree and its view.                                                  *)
Record == UNION {{k} \X Versions[k] : k \in Keys}
Cell == Nat \cup Record
Node == [isLeaf : BOOLEAN, key : Seq(Keys), child : Seq(Cell), father : Nat, next : Nat, last : Nat]

IsTree(t) ==
  /\ t \in [Root : Nat, node : [DOMAIN t.node -> Node]]
  /\ DOMAIN t.node \subseteq Nat \ {0}
  /\ IsFiniteSet(DOMAIN t.node)

Stores(nd) ==
  /\ Arrays(Cell, nd.key, nd.child)
  /\ nd.isLeaf => \A i \in 1..Len(nd.key) : nd.child[i] \in {nd.key[i]} \X Versions[nd.key[i]]
  /\ nd.isLeaf \/ Len(nd.key) # 0

(* w is a view of t. *)
SeesNode(w, n, nd) ==
  /\ w.kids[n] = Kids(nd.key, nd.child)
  /\ w.father[n] = nd.father
  /\ w.next[n] = nd.next
  /\ w.last[n] = nd.last
  /\ nd.isLeaf <=> w.level[n] = 0

Sees(w, t) ==
  /\ w.nodes = DOMAIN t.node
  /\ w.root = t.Root
  /\ \A n \in DOMAIN t.node : SeesNode(w, n, t.node[n])

Sound(t, w) ==
  /\ IsTree(t)
  /\ \A n \in DOMAIN t.node : Stores(t.node[n])
  /\ Sees(w, t)
  /\ Shape(w)
  /\ Linked(w)

(* What is known of a node. *)
LEMMA SoundNode ==
  ASSUME NEW t, NEW w, Sound(t, w), NEW n, n \in DOMAIN t.node, NEW nd, nd = t.node[n]
  PROVE  /\ n \in Nat /\ n # 0 /\ n \in w.nodes
         /\ nd \in Node
         /\ nd.key \in Seq(Keys) /\ nd.child \in Seq(Cell) /\ Len(nd.key) \in Nat
         /\ Arrays(Cell, nd.key, nd.child) /\ Ascending(nd.key)
         /\ Len(nd.child) = Len(nd.key)
         /\ w.kids[n] = Kids(nd.key, nd.child)
         /\ w.father[n] = nd.father
         /\ nd.isLeaf <=> w.level[n] = 0
         /\ ~nd.isLeaf => Len(nd.key) # 0
<1>1. /\ n \in Nat /\ n # 0 /\ nd \in Node
  BY DEF Sound, IsTree
<1>2. Stores(nd) /\ SeesNode(w, n, nd) /\ n \in w.nodes
  BY DEF Sound, Sees
<1>3. /\ nd.key \in Seq(Keys) /\ nd.child \in Seq(Cell) /\ Ascending(nd.key) /\ Len(nd.child) = Len(nd.key)
      /\ ~nd.isLeaf => Len(nd.key) # 0
  BY <1>2 DEF Stores, Arrays
<1>4. Len(nd.key) \in Nat
  BY <1>3
<1>5. /\ w.kids[n] = Kids(nd.key, nd.child) /\ w.father[n] = nd.father
      /\ nd.isLeaf <=> w.level[n] = 0
  BY <1>2 DEF SeesNode
<1>6. Arrays(Cell, nd.key, nd.child)
  BY <1>2 DEF Stores
<1> QED BY <1>1, <1>2, <1>3, <1>4, <1>5, <1>6

(* The smallest key of a node, and the key at which a search in it goes on. *)
LeastKey(w, n, k) == LeastOf(DOMAIN w.kids[n], k)
Leads(w, n, x, k) == Chosen(DOMAIN w.kids[n], x, k)

(* The keys of a node and what is beside them. *)
LEMMA NodePairs ==
  ASSUME NEW t, NEW w, Sound(t, w), NEW n, n \in DOMAIN t.node, NEW nd, nd = t.node[n]
  PROVE  Pairs(w.kids[n], nd.key, nd.child)
<1>1. Arrays(Cell, nd.key, nd.child) /\ w.kids[n] = Kids(nd.key, nd.child)
  BY SoundNode
<1> QED BY <1>1, KidsArePairs

(* The positions of a node and its kids. *)
LEMMA NodeKids ==
  ASSUME NEW t, NEW w, Sound(t, w), NEW n, n \in DOMAIN t.node, NEW nd, nd = t.node[n]
  PROVE  /\ \A i \in 1..Len(nd.key) : nd.key[i] \in Int /\ nd.key[i] \in DOMAIN w.kids[n]
         /\ \A i \in 1..Len(nd.key) : w.kids[n][nd.key[i]] = nd.child[i]
         /\ \A k \in DOMAIN w.kids[n] : \E i \in 1..Len(nd.key) : nd.key[i] = k
         /\ Len(nd.key) # 0 => LeastKey(w, n, nd.key[1])
<1>1. /\ Arrays(Cell, nd.key, nd.child) /\ w.kids[n] = Kids(nd.key, nd.child)
      /\ nd.key \in Seq(Keys) /\ Ascending(nd.key) /\ Len(nd.key) \in Nat
  BY SoundNode
<1>2. PICK F : F = w.kids[n]
  OBVIOUS
<1>3. Pairs(F, nd.key, nd.child)
  BY <1>1, <1>2, KidsArePairs
<1>4. /\ \A i \in 1..Len(nd.key) : nd.key[i] \in DOMAIN F /\ F[nd.key[i]] = nd.child[i]
      /\ \A k \in DOMAIN F : \E i \in 1..Len(nd.key) : nd.key[i] = k
  BY <1>3 DEF Pairs
<1>5. \A i \in 1..Len(nd.key) : nd.key[i] \in Int
  BY <1>1, AscendingUnique
<1>6. ASSUME Len(nd.key) # 0
      PROVE  LeastOf(DOMAIN F, nd.key[1])
  <2>1. 1 \in 1..Len(nd.key)
    BY <1>1, <1>6
  <2>2. ASSUME NEW k \in DOMAIN F
        PROVE  nd.key[1] <= k
    <3>1. PICK i \in 1..Len(nd.key) : nd.key[i] = k
      BY <1>4
    <3>2. i = 1 \/ nd.key[1] < nd.key[i]
      BY <1>1, <2>1 DEF Ascending
    <3>3. nd.key[1] \in Int /\ nd.key[i] \in Int
      BY <1>5, <2>1
    <3> QED BY <3>1, <3>2, <3>3
  <2> QED BY <1>4, <2>1, <2>2 DEF LeastOf
<1>7. Len(nd.key) # 0 => LeastKey(w, n, nd.key[1])
  BY <1>2, <1>6 DEF LeastKey
<1> QED BY <1>2, <1>4, <1>5, <1>7

(* Where a search in a node goes on. *)
LEMMA NodeSearched ==
  ASSUME NEW t, NEW w, Sound(t, w), NEW n, n \in DOMAIN t.node, NEW nd, nd = t.node[n],
         NEW x \in Int, Len(nd.key) # 0, NEW i, i = Binary_Search(nd, x)
  PROVE  /\ i \in 1..Len(nd.key)
         /\ Leads(w, n, x, nd.key[i])
         /\ \A j \in 1..Len(nd.key) : nd.key[j] = x => i = j
         /\ \A j \in 1..Len(nd.key) : (j <= i => nd.key[j] <= x \/ i = 1) /\ (i < j => x < nd.key[j])
<1>1. /\ nd.key \in Seq(Keys) /\ Ascending(nd.key) /\ Len(nd.key) \in Nat
  BY SoundNode
<1>2. /\ i \in 1..Len(nd.key)
      /\ \A j \in 1..Len(nd.key) : (j <= i => nd.key[j] <= x \/ i = 1) /\ (i < j => x < nd.key[j])
  BY <1>1, Searched
<1>3. /\ \A j \in 1..Len(nd.key) : nd.key[j] \in Int /\ nd.key[j] \in DOMAIN w.kids[n]
      /\ \A k \in DOMAIN w.kids[n] : \E j \in 1..Len(nd.key) : nd.key[j] = k
  BY NodeKids, SMTT(40)
<1>4. PICK K : K = DOMAIN w.kids[n]
  OBVIOUS
<1>5. \A a, b \in 1..Len(nd.key) : a < b => nd.key[a] < nd.key[b]
  BY <1>1 DEF Ascending
<1>6. ASSUME NEW j \in 1..Len(nd.key)
      PROVE  (nd.key[j] <= x => nd.key[j] <= nd.key[i]) /\ (nd.key[i] <= x \/ nd.key[i] <= nd.key[j])
  <2>1. nd.key[j] \in Int /\ nd.key[i] \in Int
    BY <1>2, <1>3
  <2>2. nd.key[j] <= x => nd.key[j] <= nd.key[i]
    <3>1. nd.key[j] <= x => j <= i
      BY <1>2, <2>1
    <3>2. j < i => nd.key[j] < nd.key[i]
      BY <1>2, <1>5
    <3> QED BY <1>2, <2>1, <3>1, <3>2
  <2>3. nd.key[i] <= x \/ nd.key[i] <= nd.key[j]
    <3>1. nd.key[i] <= x \/ i = 1
      BY <1>2
    <3>2. i < j => nd.key[i] < nd.key[j]
      BY <1>2, <1>5
    <3> QED BY <1>2, <2>1, <3>1, <3>2
  <2> QED BY <2>2, <2>3
<1>7. Chosen(K, x, nd.key[i])
  <2>1. nd.key[i] \in K
    BY <1>2, <1>3, <1>4
  <2>2. \A k \in K : \E j \in 1..Len(nd.key) : nd.key[j] = k
    BY <1>3, <1>4
  <2>3. ASSUME NEW k \in K
        PROVE  (k <= x => k <= nd.key[i]) /\ (nd.key[i] <= x \/ nd.key[i] <= k)
    BY <1>6, <2>2
  <2> QED BY <2>1, <2>3 DEF Chosen
<1>8. ASSUME NEW j \in 1..Len(nd.key), nd.key[j] = x
      PROVE  i = j
  <2>1. ~(i < j)
    BY <1>2, <1>8
  <2>2. ~(j < i)
    <3>1. SUFFICES ASSUME j < i PROVE FALSE
      OBVIOUS
    <3>2. nd.key[j] < nd.key[i] /\ nd.key[i] <= x /\ nd.key[i] \in Int
      BY <1>2, <1>3, <1>5, <3>1
    <3> QED BY <1>8, <3>2
  <2> QED BY <1>2, <2>1, <2>2
<1>9. Leads(w, n, x, nd.key[i])
  BY <1>4, <1>7 DEF Leads
<1> QED BY <1>2, <1>8, <1>9

(* An inner node of a sound tree has keys. *)
LEMMA SoundBranches ==
  ASSUME NEW t, NEW w, Sound(t, w)
  PROVE  Branches(w)
<1> SUFFICES ASSUME NEW n \in w.nodes, w.level[n] # 0, NEW x \in Int
             PROVE  \E k \in Int : Chosen(DOMAIN w.kids[n], x, k)
  BY DEF Branches
<1>1. n \in DOMAIN t.node
  BY DEF Sound, Sees
<1>2. PICK nd : nd = t.node[n]
  OBVIOUS
<1>3. Len(nd.key) # 0
  BY <1>1, <1>2, SoundNode
<1>4. PICK i : i = Binary_Search(nd, x)
  OBVIOUS
<1>5. i \in 1..Len(nd.key)
  BY <1>1, <1>2, <1>3, <1>4, NodeSearched
<1>6. Leads(w, n, x, nd.key[i])
  BY <1>1, <1>2, <1>3, <1>4, NodeSearched, SMTT(40)
<1>7. nd.key[i] \in Int
  BY <1>1, <1>2, <1>5, NodeKids
<1> QED BY <1>6, <1>7 DEF Leads

(* What a recursion along nx up to stop gathers from b. *)
Gathers(f, N, stop, b, nx) ==
  f = [n \in N |-> IF n \in stop THEN b[n] ELSE b[n] \cup f[nx[n]]]

(* Such a recursion has a solution when rank falls along nx. *)
LEMMA GathersExists ==
  ASSUME NEW N, NEW stop, NEW b, NEW nx, NEW rank \in [N -> Nat], NEW h \in Nat,
         \A n \in N : rank[n] <= h,
         \A n \in N : n \notin stop => nx[n] \in N /\ rank[nx[n]] < rank[n]
  PROVE  \E f : Gathers(f, N, stop, b, nx)
<1> DEFINE Good(f, i) == \A n \in N : rank[n] <= i =>
                           f[n] = IF n \in stop THEN b[n] ELSE b[n] \cup f[nx[n]]
           S == {i \in 0..h : \E f : Good(f, i)}
<1>1. 0 \in S
  <2>1. Good([n \in N |-> b[n]], 0)
    <3> SUFFICES ASSUME NEW n \in N, rank[n] <= 0 PROVE n \in stop
      OBVIOUS
    <3>1. rank[n] \in Nat
      OBVIOUS
    <3>2. n \notin stop => rank[nx[n]] \in Nat /\ rank[nx[n]] < rank[n]
      OBVIOUS
    <3> QED BY <3>1, <3>2
  <2> QED BY <2>1
<1>2. ASSUME NEW i \in 0..h - 1, i \in S
      PROVE  i + 1 \in S
  <2>1. PICK f : Good(f, i)
    BY <1>2
  <2> DEFINE g == [n \in N |-> IF rank[n] <= i THEN f[n]
                               ELSE IF n \in stop THEN b[n] ELSE b[n] \cup f[nx[n]]]
  <2>2. ASSUME NEW n \in N, rank[n] <= i + 1
        PROVE  g[n] = IF n \in stop THEN b[n] ELSE b[n] \cup g[nx[n]]
    <3>1. g[n] = IF n \in stop THEN b[n] ELSE b[n] \cup f[nx[n]]
      BY <2>1
    <3>2. n \notin stop => g[nx[n]] = f[nx[n]]
      <4>1. SUFFICES ASSUME n \notin stop PROVE g[nx[n]] = f[nx[n]]
        OBVIOUS
      <4>2. nx[n] \in N /\ rank[nx[n]] < rank[n] /\ rank[n] \in Nat /\ rank[nx[n]] \in Nat
        BY <4>1
      <4>3. rank[nx[n]] <= i
        BY <2>2, <4>2
      <4> QED BY <4>2, <4>3
    <3> HIDE DEF g
    <3> QED BY <3>1, <3>2
  <2>3. Good(g, i + 1)
    <3> HIDE DEF g
    <3> QED BY <2>2
  <2>4. i + 1 \in 0..h
    OBVIOUS
  <2> HIDE DEF Good
  <2> QED BY <2>3, <2>4
<1>3. h \in S
  <2> HIDE DEF S
  <2>1. \A i \in 0..h : i \in S
    BY <1>1, <1>2, UpTo
  <2> QED BY <2>1
<1>4. PICK f : Good(f, h)
  BY <1>3
<1>5. \A n \in N : f[n] = IF n \in stop THEN b[n] ELSE b[n] \cup f[nx[n]]
  BY <1>4
<1> DEFINE g == [n \in N |-> f[n]]
<1>6. \A n \in N : g[n] = f[n]
  OBVIOUS
<1>7. g = [n \in N |-> g[n]]
  OBVIOUS
<1> HIDE DEF g
<1>8. ASSUME NEW n \in N
      PROVE  g[n] = IF n \in stop THEN b[n] ELSE b[n] \cup g[nx[n]]
  BY <1>5, <1>6
<1>9. Gathers(g, N, stop, b, nx)
  BY <1>7, <1>8 DEF Gathers
<1> QED BY <1>9

-----------------------------------------------------------------------------
(* The recursions over a tree. *)

Leveled(t, lv) ==
  /\ lv \in [DOMAIN t.node -> Nat]
  /\ \A n \in DOMAIN t.node : t.node[n].isLeaf => lv[n] = 0
  /\ \A n \in DOMAIN t.node :
       ~t.node[n].isLeaf =>
         /\ t.node[n].child[1] \in DOMAIN t.node
         /\ lv[n] = 1 + lv[t.node[n].child[1]]

IsLevels(h, t) ==
  h = [n \in DOMAIN t.node |-> IF t.node[n].isLeaf THEN 0 ELSE 1 + h[t.node[n].child[1]]]

(* Levels gives each node the level it has in the view. *)
LEMMA LevelsAre ==
  ASSUME NEW t, NEW lv, Leveled(t, lv)
  PROVE  Levels(t) = lv
<1>1. PICK N : N = DOMAIN t.node
  OBVIOUS
<1>2. lv \in [N -> Nat]
  BY <1>1 DEF Leveled
<1>3. IsLevels(lv, t)
  <2>1. ASSUME NEW n \in N
        PROVE  lv[n] = IF t.node[n].isLeaf THEN 0 ELSE 1 + lv[t.node[n].child[1]]
    BY <1>1 DEF Leveled
  <2>2. lv = [n \in N |-> lv[n]]
    BY <1>2
  <2> QED BY <1>1, <2>1, <2>2 DEF IsLevels
<1>4. PICK h : h = CHOOSE g : IsLevels(g, t)
  OBVIOUS
<1>5. IsLevels(h, t)
  BY <1>3, <1>4
<1>6. Levels(t) = h
  BY <1>4 DEF Levels, IsLevels
<1>7. \A n \in N : h[n] = IF t.node[n].isLeaf THEN 0 ELSE 1 + h[t.node[n].child[1]]
  BY <1>1, <1>5 DEF IsLevels
<1>8. ASSUME NEW z \in N
      PROVE  h[z] = lv[z]
  <2> DEFINE S == {i \in 0..lv[z] : \A n \in N : lv[n] <= i => h[n] = lv[n]}
  <2>1. lv[z] \in Nat
    BY <1>2
  <2>2. ASSUME NEW n \in N, ~t.node[n].isLeaf
        PROVE  /\ t.node[n].child[1] \in N
               /\ lv[n] = 1 + lv[t.node[n].child[1]]
               /\ lv[t.node[n].child[1]] \in Nat
    BY <1>1, <1>2, <2>2 DEF Leveled
  <2>3. \A n \in N : lv[n] \in Nat /\ (t.node[n].isLeaf => lv[n] = 0 /\ h[n] = 0)
    BY <1>1, <1>2, <1>7 DEF Leveled
  <2>4. 0 \in S
    <3>1. ASSUME NEW n \in N, lv[n] <= 0
          PROVE  h[n] = lv[n]
      BY <2>2, <2>3, <3>1
    <3> QED BY <2>1, <3>1
  <2>5. ASSUME NEW i \in 0..lv[z] - 1, i \in S
        PROVE  i + 1 \in S
    <3>1. ASSUME NEW n \in N, lv[n] <= i + 1
          PROVE  h[n] = lv[n]
      <4>1. CASE t.node[n].isLeaf
        BY <2>3, <4>1
      <4>2. CASE ~t.node[n].isLeaf
        <5>1. h[n] = 1 + h[t.node[n].child[1]]
          BY <1>7, <4>2
        <5>2. h[t.node[n].child[1]] = lv[t.node[n].child[1]]
          BY <2>2, <2>5, <3>1, <4>2
        <5> QED BY <2>2, <4>2, <5>1, <5>2
      <4> QED BY <4>1, <4>2
    <3>2. i + 1 \in 0..lv[z]
      BY <2>1
    <3> QED BY <3>1, <3>2
  <2>6. lv[z] \in S
    <3> HIDE DEF S
    <3> QED BY <2>1, <2>4, <2>5, UpTo
  <2> QED BY <2>1, <2>6
<1>9. h = [n \in N |-> h[n]]
  BY <1>1, <1>5 DEF IsLevels
<1>10. h = lv
  BY <1>2, <1>8, <1>9
<1> QED BY <1>6, <1>10

(* A node has the smallest of its keys first. *)
FirstIs(nd, k) == Len(nd.key) # 0 /\ nd.key[1] = k

LEMMA LeastIsFirst ==
  ASSUME NEW t, NEW w, Sound(t, w), NEW n, n \in DOMAIN t.node, NEW nd, nd = t.node[n],
         NEW k \in Int, LeastKey(w, n, k)
  PROVE  FirstIs(nd, k)
<1>1. PICK K : K = DOMAIN w.kids[n]
  OBVIOUS
<1>2. LeastOf(K, k)
  BY <1>1 DEF LeastKey
<1>3. /\ \A j \in 1..Len(nd.key) : nd.key[j] \in Int /\ nd.key[j] \in DOMAIN w.kids[n]
      /\ \A m \in DOMAIN w.kids[n] : \E j \in 1..Len(nd.key) : nd.key[j] = m
      /\ Len(nd.key) # 0 => LeastKey(w, n, nd.key[1])
  BY NodeKids
<1>4. PICK j \in 1..Len(nd.key) : nd.key[j] = k
  BY <1>1, <1>2, <1>3 DEF LeastOf
<1>5. Len(nd.key) \in Nat
  BY SoundNode
<1>6. Len(nd.key) # 0 /\ 1 \in 1..Len(nd.key)
  BY <1>4, <1>5
<1>7. nd.key[1] \in Int /\ LeastOf(K, nd.key[1])
  BY <1>1, <1>3, <1>6 DEF LeastKey
<1>8. k \in K /\ nd.key[1] \in K /\ k <= nd.key[1] /\ nd.key[1] <= k
  BY <1>2, <1>7 DEF LeastOf
<1> QED BY <1>6, <1>7, <1>8 DEF FirstIs

(* What is known of an inner node and a child of it. *)
LEMMA NodeChild ==
  ASSUME NEW t, NEW w, Sound(t, w), NEW n, n \in DOMAIN t.node, NEW nd, nd = t.node[n],
         ~nd.isLeaf, NEW i \in 1..Len(nd.key), NEW c, c = nd.child[i]
  PROVE  /\ c \in DOMAIN t.node /\ c # t.Root /\ c \in w.nodes
         /\ t.node[c].father = n
         /\ w.level[c] \in Nat /\ w.level[n] \in Nat /\ w.level[n] = w.level[c] + 1
         /\ Len(t.node[c].key) # 0
         /\ t.node[c].key[1] = nd.key[i]
         /\ w.area[c] = Share(w, n, nd.key[i])
<1>1. /\ w.level[n] # 0 /\ n \in w.nodes
      /\ nd.key[i] \in Int /\ nd.key[i] \in DOMAIN w.kids[n]
      /\ w.kids[n][nd.key[i]] = c
  BY SoundNode, NodeKids
<1>2. Shape(w)
  BY DEF Sound
<1>3. PICK k \in Int : k = nd.key[i]
  BY <1>1
<1>13. k \in DOMAIN w.kids[n] /\ c = w.kids[n][k] /\ n \in w.nodes /\ w.level[n] # 0
  BY <1>1, <1>3
<1>4. /\ c \in w.nodes /\ c # w.root
      /\ w.father[c] = n
      /\ w.level[n] \in Nat /\ w.level[c] \in Nat /\ w.level[n] = w.level[c] + 1
      /\ LeastOf(DOMAIN w.kids[c], k)
      /\ w.area[c] = Share(w, n, k)
  BY <1>2, <1>13, ChildEdge
<1>5. c \in DOMAIN t.node /\ c # t.Root
  BY <1>4 DEF Sound, Sees
<1>6. PICK ch : ch = t.node[c]
  OBVIOUS
<1>7. ch.father = n
  <2>1. w.father[c] = ch.father
    BY <1>5, <1>6, SoundNode
  <2> QED BY <1>4, <2>1
<1>8. LeastKey(w, c, k)
  BY <1>4 DEF LeastKey
<1>9. FirstIs(ch, k)
  BY <1>3, <1>5, <1>6, <1>8, LeastIsFirst
<1>11. Len(ch.key) # 0 /\ ch.key[1] = k
  BY <1>9 DEF FirstIs
<1> QED BY <1>3, <1>4, <1>5, <1>6, <1>7, <1>11

(* c is child number i of node n, which has the fields nd. *)
ChildAt(t, n, nd, i, c) ==
  n \in DOMAIN t.node /\ nd = t.node[n] /\ ~nd.isLeaf /\ i \in 1..Len(nd.key) /\ c = nd.child[i]

(* The first key of a child is the key beside it. *)
LEMMA ChildKey ==
  ASSUME NEW t, NEW w, Sound(t, w), NEW n, NEW nd, NEW i, NEW c, ChildAt(t, n, nd, i, c)
  PROVE  Len(t.node[c].key) # 0 /\ t.node[c].key[1] = nd.key[i]
<1>1. n \in DOMAIN t.node /\ nd = t.node[n] /\ ~nd.isLeaf /\ i \in 1..Len(nd.key) /\ c = nd.child[i]
  BY DEF ChildAt
<1>2. PICK m \in 1..Len(nd.key) : m = i /\ c = nd.child[m]
  BY <1>1
<1>3. Len(t.node[c].key) # 0
  BY <1>1, <1>2, NodeChild, SMTT(40)
<1>4. t.node[c].key[1] = nd.key[m]
  BY <1>1, <1>2, NodeChild, SMTT(40)
<1> QED BY <1>2, <1>3, <1>4

(* The levels of a view are such. *)
LEMMA SoundLeveled ==
  ASSUME NEW t, NEW w, Sound(t, w)
  PROVE  Leveled(t, w.level)
<1>1. w.nodes = DOMAIN t.node /\ Shape(w)
  BY DEF Sound, Sees
<1>2. w.level \in [DOMAIN t.node -> Nat]
  BY <1>1 DEF Shape
<1>3. ASSUME NEW n \in DOMAIN t.node
      PROVE  /\ t.node[n].isLeaf => w.level[n] = 0
             /\ ~t.node[n].isLeaf => /\ t.node[n].child[1] \in DOMAIN t.node
                                     /\ w.level[n] = 1 + w.level[t.node[n].child[1]]
  <2>1. PICK nd : nd = t.node[n]
    OBVIOUS
  <2>2. nd.isLeaf => w.level[n] = 0
    BY <2>1, SoundNode
  <2>3. ASSUME ~nd.isLeaf
        PROVE  nd.child[1] \in DOMAIN t.node /\ w.level[n] = 1 + w.level[nd.child[1]]
    <3>1. Len(nd.key) \in Nat /\ Len(nd.key) # 0
      BY <2>1, <2>3, SoundNode
    <3>2. 1 \in 1..Len(nd.key)
      BY <3>1
    <3>3. PICK c : c = nd.child[1]
      OBVIOUS
    <3>4. c \in DOMAIN t.node /\ w.level[c] \in Nat /\ w.level[n] = w.level[c] + 1
      BY <2>1, <2>3, <3>2, <3>3, NodeChild
    <3> QED BY <3>3, <3>4
  <2> QED BY <2>1, <2>2, <2>3
<1> QED BY <1>2, <1>3 DEF Leveled

IsWay(h, t, x) ==
  h = [n \in DOMAIN t.node |->
         IF t.node[n].isLeaf THEN {n}
         ELSE {n} \cup h[t.node[n].child[Binary_Search(t.node[n], x)]]]

(* Where the search for x goes from inner node n. *)
LEMMA WayStep ==
  ASSUME NEW t, NEW w, Sound(t, w), NEW x \in Int, NEW n, n \in DOMAIN t.node,
         NEW nd, nd = t.node[n], ~nd.isLeaf,
         NEW c, c = nd.child[Binary_Search(nd, x)]
  PROVE  /\ c \in DOMAIN t.node
         /\ w.level[c] \in Nat /\ w.level[n] \in Nat /\ w.level[n] = w.level[c] + 1
         /\ x \in w.area[n] => x \in w.area[c]
         /\ \E k \in DOMAIN w.kids[n] : c = w.kids[n][k]
<1>1. PICK i : i = Binary_Search(nd, x)
  OBVIOUS
<1>2. Len(nd.key) # 0
  BY SoundNode
<1>3. i \in 1..Len(nd.key) /\ Leads(w, n, x, nd.key[i])
  BY <1>1, <1>2, NodeSearched
<1>4. c = nd.child[i]
  BY <1>1
<1>5. /\ c \in DOMAIN t.node
      /\ w.level[c] \in Nat /\ w.level[n] \in Nat /\ w.level[n] = w.level[c] + 1
      /\ w.area[c] = Share(w, n, nd.key[i])
  BY <1>3, <1>4, NodeChild
<1>6. x \in w.area[n] => x \in w.area[c]
  BY <1>3, <1>5 DEF Share, Leads
<1>7. nd.key[i] \in DOMAIN w.kids[n] /\ w.kids[n][nd.key[i]] = c
  BY <1>3, <1>4, NodeKids, SMTT(40)
<1> QED BY <1>5, <1>6, <1>7

(* The recursion of Way has a solution. *)
LEMMA WayExists ==
  ASSUME NEW t, NEW w, Sound(t, w), NEW x \in Int
  PROVE  \E h : IsWay(h, t, x)
<1>1. PICK N : N = DOMAIN t.node
  OBVIOUS
<1>2. N = w.nodes /\ Shape(w) /\ t.Root = w.root
  BY <1>1 DEF Sound, Sees
<1>3. PICK lv : lv = w.level
  OBVIOUS
<1>4. lv \in [N -> Nat] /\ lv[t.Root] \in Nat /\ \A n \in N : lv[n] <= lv[t.Root]
  BY <1>2, <1>3 DEF Shape
<1> DEFINE stop == {n \in N : t.node[n].isLeaf}
           b == [n \in N |-> {n}]
           nx == [n \in N |-> t.node[n].child[Binary_Search(t.node[n], x)]]
<1>5. ASSUME NEW n \in N, n \notin stop
      PROVE  nx[n] \in N /\ lv[nx[n]] < lv[n]
  <2>1. PICK nd : nd = t.node[n]
    OBVIOUS
  <2>2. PICK c : c = nd.child[Binary_Search(nd, x)]
    OBVIOUS
  <2>3. c \in DOMAIN t.node
    BY <1>1, <1>5, <2>1, <2>2, WayStep
  <2>4. w.level[c] \in Nat /\ w.level[n] \in Nat /\ w.level[n] = w.level[c] + 1
    BY <1>1, <1>5, <2>1, <2>2, WayStep
  <2>5. nx[n] = c
    BY <2>1, <2>2
  <2> QED BY <1>1, <1>3, <2>3, <2>4, <2>5
<1> HIDE DEF stop, b, nx
<1>6. PICK f : Gathers(f, N, stop, b, nx)
  BY <1>4, <1>5, GathersExists
<1>7. IsWay(f, t, x)
  BY <1>1, <1>6 DEF Gathers, IsWay, stop, b, nx
<1> QED BY <1>7

(* The search for x passes exactly the nodes whose area x is in. *)
LEMMA OnWay ==
  ASSUME NEW t, NEW w, Sound(t, w), NEW x \in Int
  PROVE  \A m : m \in Way(t, x) <=> m \in w.nodes /\ x \in w.area[m]
<1>1. PICK h : h = CHOOSE g : IsWay(g, t, x)
  OBVIOUS
<1>2. IsWay(h, t, x)
  BY <1>1, WayExists
<1>3. Way(t, x) = h[t.Root]
  BY <1>1 DEF Way, IsWay
<1>4. DOMAIN t.node = w.nodes /\ Shape(w) /\ t.Root = w.root
  BY DEF Sound, Sees
<1>5. \A n \in w.nodes : w.level[n] \in Nat
  BY <1>4 DEF Shape
<1> DEFINE Passes(n, m) == m \in w.nodes /\ x \in w.area[m] /\ w.level[m] <= w.level[n]
           S == {n \in w.nodes : x \in w.area[n] => \A m : m \in h[n] <=> Passes(n, m)}
<1>6. ASSUME NEW n \in w.nodes
      PROVE  h[n] = IF t.node[n].isLeaf THEN {n}
                    ELSE {n} \cup h[t.node[n].child[Binary_Search(t.node[n], x)]]
  BY <1>2, <1>4 DEF IsWay
<1>7. ASSUME NEW n \in w.nodes, x \in w.area[n], NEW m, Passes(n, m), w.level[m] = w.level[n]
      PROVE  m = n
  BY <1>4, <1>7, SameLevelApart
<1>8. ASSUME NEW n \in w.nodes, w.level[n] = 0
      PROVE  n \in S
  <2>1. PICK nd : nd = t.node[n]
    OBVIOUS
  <2>2. nd.isLeaf
    BY <1>4, <1>8, <2>1, SoundNode
  <2>3. h[n] = {n}
    BY <1>6, <2>1, <2>2
  <2>4. ASSUME x \in w.area[n], NEW m
        PROVE  m \in h[n] <=> Passes(n, m)
    <3>1. Passes(n, m) => w.level[m] = w.level[n]
      BY <1>5, <1>8
    <3>2. Passes(n, m) => m = n
      BY <1>7, <2>4, <3>1
    <3>3. Passes(n, n)
      BY <1>5, <2>4
    <3> QED BY <2>3, <3>2, <3>3
  <2> QED BY <2>4
<1>9. ASSUME NEW n \in w.nodes, w.level[n] # 0,
             \A k \in DOMAIN w.kids[n] : w.kids[n][k] \in S
      PROVE  n \in S
  <2>1. PICK nd : nd = t.node[n]
    OBVIOUS
  <2>2. ~nd.isLeaf
    BY <1>4, <1>9, <2>1, SoundNode
  <2>3. PICK c : c = nd.child[Binary_Search(nd, x)]
    OBVIOUS
  <2>4. /\ c \in w.nodes
        /\ w.level[c] \in Nat /\ w.level[n] \in Nat /\ w.level[n] = w.level[c] + 1
        /\ x \in w.area[n] => x \in w.area[c]
    BY <1>4, <2>1, <2>2, <2>3, WayStep
  <2>5. c \in S
    <3>1. \E k \in DOMAIN w.kids[n] : c = w.kids[n][k]
      BY <1>4, <2>1, <2>2, <2>3, WayStep
    <3> HIDE DEF S
    <3> QED BY <1>9, <3>1
  <2>6. h[n] = {n} \cup h[c]
    BY <1>6, <2>1, <2>2, <2>3
  <2>7. ASSUME x \in w.area[n], NEW m
        PROVE  m \in h[n] <=> Passes(n, m)
    <3>1. m \in h[c] <=> Passes(c, m)
      BY <2>4, <2>5, <2>7
    <3>2. Passes(n, m) => m = n \/ Passes(c, m)
      <4>1. SUFFICES ASSUME Passes(n, m), w.level[m] # w.level[n] PROVE Passes(c, m)
        BY <1>7, <2>7
      <4>2. w.level[m] \in Nat
        BY <1>5, <4>1
      <4> QED BY <2>4, <4>1, <4>2
    <3>3. Passes(n, n)
      BY <2>4, <2>7
    <3>4. Passes(c, m) => Passes(n, m)
      BY <1>5, <2>4
    <3> QED BY <2>6, <3>1, <3>2, <3>3, <3>4
  <2> QED BY <2>7
<1>10. w.nodes \subseteq S
  <2> HIDE DEF S
  <2> QED BY <1>4, <1>8, <1>9, FromLeaves
<1>11. /\ w.root \in w.nodes /\ w.area[w.root] = Int
       /\ \A n \in w.nodes : w.level[n] <= w.level[w.root]
  BY <1>4 DEF Shape
<1> QED BY <1>3, <1>4, <1>10, <1>11

(* Find gives the leaf in whose area x is. *)
LEMMA FindIs ==
  ASSUME NEW t, NEW w, Sound(t, w), NEW x \in Int, NEW l, l = Find(t, x)
  PROVE  Leaf(w, l) /\ x \in w.area[l]
<1>1. DOMAIN t.node = w.nodes /\ Shape(w) /\ Branches(w)
  BY SoundBranches DEF Sound, Sees
<1>2. \E n \in w.nodes : w.level[n] = 0 /\ x \in w.area[n]
  <2>1. w.level[w.root] \in Nat
    BY <1>1 DEF Shape
  <2> QED BY <1>1, <2>1, EveryLevelReached
<1>3. ASSUME NEW n \in w.nodes
      PROVE  t.node[n].isLeaf <=> w.level[n] = 0
  <2>1. PICK nd : nd = t.node[n]
    OBVIOUS
  <2> QED BY <1>1, <2>1, SoundNode
<1>4. l \in Way(t, x) /\ t.node[l].isLeaf
  <2>1. \E n \in Way(t, x) : t.node[n].isLeaf
    BY <1>2, <1>3, OnWay
  <2>2. l = CHOOSE n \in Way(t, x) : t.node[n].isLeaf
    BY DEF Find
  <2> QED BY <2>1, <2>2
<1> QED BY <1>3, <1>4, OnWay DEF Leaf

-----------------------------------------------------------------------------
(* The view of a tree with given levels and areas. *)
View(t, lv, ar) ==
  [nodes  |-> DOMAIN t.node,
   root   |-> t.Root,
   kids   |-> [n \in DOMAIN t.node |-> Kids(t.node[n].key, t.node[n].child)],
   father |-> [n \in DOMAIN t.node |-> t.node[n].father],
   next   |-> [n \in DOMAIN t.node |-> t.node[n].next],
   last   |-> [n \in DOMAIN t.node |-> t.node[n].last],
   level  |-> lv,
   area   |-> ar]

(* What the view shows. *)
LEMMA ViewIs ==
  ASSUME NEW t, NEW lv, NEW ar, NEW w, w = View(t, lv, ar)
  PROVE  /\ w.nodes = DOMAIN t.node /\ w.root = t.Root
         /\ w.level = lv /\ w.area = ar
         /\ \A n \in DOMAIN t.node : /\ w.kids[n] = Kids(t.node[n].key, t.node[n].child)
                                     /\ w.father[n] = t.node[n].father
                                     /\ w.next[n] = t.node[n].next
                                     /\ w.last[n] = t.node[n].last
BY DEF View

(* It is a view of the tree. *)
LEMMA ViewSees ==
  ASSUME NEW t, NEW lv, NEW ar, NEW w, w = View(t, lv, ar),
         \A n \in DOMAIN t.node : t.node[n].isLeaf <=> lv[n] = 0
  PROVE  Sees(w, t)
<1>1. /\ w.nodes = DOMAIN t.node /\ w.root = t.Root
      /\ w.level = lv
      /\ \A n \in DOMAIN t.node : /\ w.kids[n] = Kids(t.node[n].key, t.node[n].child)
                                  /\ w.father[n] = t.node[n].father
                                  /\ w.next[n] = t.node[n].next
                                  /\ w.last[n] = t.node[n].last
  BY ViewIs
<1> QED BY <1>1 DEF Sees, SeesNode

(* What a view tells of a node. *)
LEMMA SoundSees ==
  ASSUME NEW t, NEW w, Sound(t, w), NEW n, n \in DOMAIN t.node
  PROVE  /\ n \in w.nodes
         /\ w.kids[n] = Kids(t.node[n].key, t.node[n].child)
         /\ w.father[n] = t.node[n].father
         /\ w.next[n] = t.node[n].next
         /\ w.last[n] = t.node[n].last
         /\ t.node[n].isLeaf <=> w.level[n] = 0
BY DEF Sound, Sees, SeesNode

(* What is known of a sound tree at large. *)
LEMMA SoundFrame ==
  ASSUME NEW t, NEW w, Sound(t, w)
  PROVE  /\ IsTree(t) /\ Shape(w) /\ Linked(w)
         /\ w.nodes = DOMAIN t.node /\ w.root = t.Root
         /\ t.Root \in DOMAIN t.node
         /\ NULL \notin w.nodes
         /\ \A n \in w.nodes : w.level[n] \in Nat
         /\ \A n \in w.nodes : w.level[n] <= w.level[w.root]
BY DEF Sound, Sees, Shape, Linked

(* An address that is free. *)
LEMMA FreshIs ==
  ASSUME NEW t, IsTree(t), NEW n, n = Fresh(t)
  PROVE  n \in Nat \ {0} /\ n \notin DOMAIN t.node
<1>1. PICK D : D = DOMAIN t.node
  OBVIOUS
<1>2. IsFiniteSet(D) /\ D \subseteq Nat \ {0}
  BY <1>1 DEF IsTree
<1>3. PICK c \in Nat : c = Cardinality(D)
  BY <1>2, FS_CardinalityType
<1>4. \E m \in 1..c + 1 : m \notin D
  <2>1. SUFFICES ASSUME 1..c + 1 \subseteq D PROVE FALSE
    OBVIOUS
  <2>2. Cardinality(1..c + 1) = c + 1
    <3>1. 1 \in Int /\ c + 1 \in Int /\ 1 <= c + 1
      BY <1>3
    <3> QED BY <3>1, FS_Interval
  <2>3. Cardinality(1..c + 1) <= Cardinality(D)
    BY <1>2, <2>1, FS_Subset
  <2> QED BY <1>3, <2>2, <2>3
<1>5. n = CHOOSE m \in 1..c + 1 : m \notin D
  BY <1>1, <1>3 DEF Fresh
<1>6. n \in 1..c + 1 /\ n \notin D
  BY <1>4, <1>5
<1> QED BY <1>1, <1>3, <1>6

(* Node nd, field by field. *)
Has(nd, isLeaf, key, child, father, next, last) ==
  /\ nd.isLeaf = isLeaf /\ nd.key = key /\ nd.child = child
  /\ nd.father = father /\ nd.next = next /\ nd.last = last

(* The fields of a node. *)
LEMMA NodeHas ==
  ASSUME NEW nd, nd \in Node
  PROVE  /\ nd.isLeaf \in BOOLEAN /\ nd.key \in Seq(Keys) /\ nd.child \in Seq(Cell)
         /\ nd.father \in Nat /\ nd.next \in Nat /\ nd.last \in Nat
BY DEF Node

(* Half of the limit. *)
LEMMA HalfIs == Mid \in Nat /\ Mid >= 2 /\ MaxChildNumber = 2 * Mid /\ MaxChildNumber \in Nat
<1>1. MaxChildNumber \in Nat /\ MaxChildNumber >= 4 /\ MaxChildNumber % 2 = 0
  BY TreeConstants
<1>2. MaxChildNumber = 2 * (MaxChildNumber \div 2) + (MaxChildNumber % 2)
  BY <1>1
<1> QED BY <1>1, <1>2 DEF Mid

(* What Adopt does. *)
LEMMA AdoptIs ==
  ASSUME NEW t, IsTree(t), NEW s, NEW f \in Nat, NEW t2, t2 = Adopt(t, s, f)
  PROVE  /\ IsTree(t2)
         /\ t2.Root = t.Root /\ DOMAIN t2.node = DOMAIN t.node
         /\ \A n \in DOMAIN t.node :
              Has(t2.node[n], t.node[n].isLeaf, t.node[n].key, t.node[n].child,
                  IF n \in s THEN f ELSE t.node[n].father, t.node[n].next, t.node[n].last)
<1>1. PICK D : D = DOMAIN t.node
  OBVIOUS
<1>2. t \in [Root : Nat, node : [D -> Node]] /\ D \subseteq Nat \ {0} /\ IsFiniteSet(D)
  BY <1>1 DEF IsTree
<1>3. t2.Root = t.Root /\ t2.node = [n \in D |-> IF n \in s THEN [t.node[n] EXCEPT !.father = f]
                                                 ELSE t.node[n]]
  BY <1>1, <1>2 DEF Adopt
<1>4. ASSUME NEW n \in D
      PROVE  /\ t2.node[n] \in Node
             /\ Has(t2.node[n], t.node[n].isLeaf, t.node[n].key, t.node[n].child,
                    IF n \in s THEN f ELSE t.node[n].father, t.node[n].next, t.node[n].last)
  <2>1. t.node[n] \in Node
    BY <1>2
  <2>2. PICK nd : nd = t.node[n]
    OBVIOUS
  <2>3. t2.node[n] = IF n \in s THEN [nd EXCEPT !.father = f] ELSE nd
    BY <1>3, <2>2
  <2> QED BY <2>1, <2>2, <2>3 DEF Node, Has
<1>5. t2.node \in [D -> Node]
  BY <1>3, <1>4
<1>6. t2 = [Root |-> t2.Root, node |-> t2.node]
  BY <1>2, <1>3 DEF Adopt
<1>7. t2 \in [Root : Nat, node : [D -> Node]]
  BY <1>2, <1>3, <1>5, <1>6
<1>8. DOMAIN t2.node = D
  BY <1>3
<1>9. IsTree(t2)
  BY <1>2, <1>7, <1>8 DEF IsTree
<1> QED BY <1>1, <1>3, <1>4, <1>8, <1>9

-----------------------------------------------------------------------------
(* New arrays for one node. *)
WithArrays(t, n, ks, cs) == [t EXCEPT !.node[n].key = ks, !.node[n].child = cs]

(* What that does to the tree. *)
LEMMA WithArraysIs ==
  ASSUME NEW t, IsTree(t), NEW c, c \in DOMAIN t.node, NEW ks \in Seq(Keys), NEW cs \in Seq(Cell),
         NEW t2, t2 = WithArrays(t, c, ks, cs)
  PROVE  /\ IsTree(t2)
         /\ t2.Root = t.Root /\ DOMAIN t2.node = DOMAIN t.node
         /\ Has(t2.node[c], t.node[c].isLeaf, ks, cs,
                t.node[c].father, t.node[c].next, t.node[c].last)
         /\ \A n \in DOMAIN t.node : n # c => t2.node[n] = t.node[n]
<1>1. PICK D : D = DOMAIN t.node
  OBVIOUS
<1>2. t \in [Root : Nat, node : [D -> Node]] /\ D \subseteq Nat \ {0} /\ IsFiniteSet(D) /\ c \in D
  BY <1>1 DEF IsTree
<1>3. PICK nd \in Node : nd = t.node[c]
  BY <1>2
<1>4. PICK f \in [D -> Node] : f = t.node
  BY <1>2
<1> DEFINE nd2 == [nd EXCEPT !.key = ks, !.child = cs]
           f2 == [f EXCEPT ![c] = nd2]
<1>5. nd2 \in Node
  BY DEF Node
<1>6. t2 = [t EXCEPT !.node = f2]
  BY <1>2, <1>3, <1>4 DEF WithArrays
<1>7. f2 \in [D -> Node]
  BY <1>5
<1> HIDE DEF f2
<1>8. t2.Root = t.Root /\ t2.node = f2
  BY <1>2, <1>6
<1>9. t2 \in [Root : Nat, node : [D -> Node]]
  BY <1>2, <1>6, <1>7
<1>10. DOMAIN t2.node = D
  BY <1>7, <1>8
<1>11. IsTree(t2)
  BY <1>2, <1>9, <1>10 DEF IsTree
<1>12. Has(t2.node[c], nd.isLeaf, ks, cs, nd.father, nd.next, nd.last)
  <2>1. t2.node[c] = nd2
    BY <1>2, <1>8 DEF f2
  <2>2. /\ nd2.isLeaf = nd.isLeaf /\ nd2.key = ks /\ nd2.child = cs
        /\ nd2.father = nd.father /\ nd2.next = nd.next /\ nd2.last = nd.last
    BY DEF Node
  <2> HIDE DEF nd2
  <2> QED BY <2>1, <2>2 DEF Has
<1>13. ASSUME NEW n \in D, n # c
       PROVE  t2.node[n] = t.node[n]
  BY <1>4, <1>8, <1>13 DEF f2
<1> QED BY <1>1, <1>3, <1>8, <1>10, <1>11, <1>12, <1>13

(* Where a key is entered into a node. *)
LEMMA PlaceIs ==
  ASSUME NEW c, c.key \in Seq(Keys), Ascending(c.key), NEW x \in Int,
         \A j \in 1..Len(c.key) : c.key[j] # x, NEW i, i = Place(c, x)
  PROVE  /\ i \in 1..Len(c.key) + 1
         /\ \A j \in 1..Len(c.key) : (j < i => c.key[j] < x) /\ (i <= j => x < c.key[j])
<1>1. PICK ks \in Seq(Keys) : ks = c.key
  OBVIOUS
<1>2. Len(ks) \in Nat
  OBVIOUS
<1>3. ASSUME NEW j \in 1..Len(ks)
      PROVE  ks[j] \in Int /\ ks[j] # x
  BY <1>1, AscendingUnique
<1>4. CASE Len(ks) = 0
  BY <1>1, <1>2, <1>4 DEF Place
<1>5. CASE Len(ks) # 0 /\ x < ks[1]
  <2>1. i = 1
    BY <1>1, <1>5 DEF Place
  <2>2. ASSUME NEW j \in 1..Len(ks)
        PROVE  x < ks[j]
    <3>1. 1 \in 1..Len(ks) /\ (j = 1 \/ 1 < j)
      BY <1>2, <1>5
    <3>2. 1 < j => ks[1] < ks[j]
      BY <1>1, <3>1 DEF Ascending
    <3> QED BY <1>3, <1>5, <3>1, <3>2
  <2> QED BY <1>1, <1>2, <1>5, <2>1, <2>2
<1>6. CASE Len(ks) # 0 /\ ~(x < ks[1])
  <2>1. PICK p : p = Binary_Search(c, x)
    OBVIOUS
  <2>2. /\ p \in 1..Len(ks)
        /\ \A j \in 1..Len(ks) : (j <= p => ks[j] <= x \/ p = 1) /\ (p < j => x < ks[j])
    BY <1>1, <1>6, <2>1, Searched
  <2>3. i = p + 1
    <3>1. c.key # <<>>
      BY <1>1, <1>6
    <3> QED BY <1>1, <1>6, <2>1, <3>1 DEF Place
  <2>4. ASSUME NEW j \in 1..Len(ks)
        PROVE  (j < i => ks[j] < x) /\ (i <= j => x < ks[j])
    <3>1. j < i => j <= p
      BY <2>2, <2>3
    <3>2. i <= j => p < j
      BY <2>2, <2>3
    <3>3. p = 1 => ks[p] <= x
      BY <1>3, <1>6, <2>2
    <3>4. j <= p /\ p = 1 => j = 1
      BY <2>2
    <3> QED BY <1>3, <2>2, <3>1, <3>2, <3>3, <3>4
  <2>5. i \in 1..Len(ks) + 1
    BY <1>2, <2>2, <2>3
  <2> QED BY <1>1, <2>4, <2>5
<1> QED BY <1>4, <1>5, <1>6

(* What becomes of a node when key x is looked for to be inserted. *)
LowerNode(t, x, n) ==
  IF n \in Way(t, x) /\ ~t.node[n].isLeaf /\ x < t.node[n].key[1]
    THEN [t.node[n].key EXCEPT ![1] = x] ELSE t.node[n].key

(* What Lower does. *)
LEMMA LowerIs ==
  ASSUME NEW t, IsTree(t), NEW x \in Keys, NEW t2, t2 = Lower(t, x),
         \A n \in DOMAIN t.node : ~t.node[n].isLeaf => Len(t.node[n].key) # 0
  PROVE  /\ IsTree(t2)
         /\ t2.Root = t.Root /\ DOMAIN t2.node = DOMAIN t.node
         /\ \A n \in DOMAIN t.node :
              Has(t2.node[n], t.node[n].isLeaf, LowerNode(t, x, n), t.node[n].child,
                  t.node[n].father, t.node[n].next, t.node[n].last)
<1>1. PICK D : D = DOMAIN t.node
  OBVIOUS
<1>2. t \in [Root : Nat, node : [D -> Node]] /\ D \subseteq Nat \ {0} /\ IsFiniteSet(D)
  BY <1>1 DEF IsTree
<1>3. PICK way : way = Way(t, x)
  OBVIOUS
<1>4. t2.Root = t.Root
      /\ t2.node = [n \in D |-> IF n \in way /\ ~t.node[n].isLeaf /\ x < t.node[n].key[1]
                                  THEN [t.node[n] EXCEPT !.key[1] = x] ELSE t.node[n]]
  BY <1>1, <1>2, <1>3 DEF Lower
<1>5. ASSUME NEW n \in D
      PROVE  /\ t2.node[n] \in Node
             /\ Has(t2.node[n], t.node[n].isLeaf, LowerNode(t, x, n), t.node[n].child,
                    t.node[n].father, t.node[n].next, t.node[n].last)
  <2>1. PICK nd \in Node : nd = t.node[n]
    BY <1>2
  <2>2. t2.node[n] = IF n \in way /\ ~nd.isLeaf /\ x < nd.key[1]
                       THEN [nd EXCEPT !.key[1] = x] ELSE nd
    BY <1>4, <2>1
  <2>3. LowerNode(t, x, n) = IF n \in way /\ ~nd.isLeaf /\ x < nd.key[1]
                       THEN [nd.key EXCEPT ![1] = x] ELSE nd.key
    BY <1>3, <2>1 DEF LowerNode
  <2>4. CASE n \in way /\ ~nd.isLeaf /\ x < nd.key[1]
    <3>1. PICK ks \in Seq(Keys) : ks = [nd.key EXCEPT ![1] = x]
      <4>1. nd.key \in Seq(Keys) /\ Len(nd.key) # 0
        BY <1>1, <2>1, <2>4 DEF Node
      <4>2. [nd.key EXCEPT ![1] = x] \in Seq(Keys)
        BY <4>1
      <4> QED BY <4>2
    <3>2. t2.node[n] = [nd EXCEPT !.key = ks]
      BY <2>2, <2>4, <3>1
    <3>3. [nd EXCEPT !.key = ks] \in Node
      BY DEF Node
    <3>4. Has([nd EXCEPT !.key = ks], nd.isLeaf, ks, nd.child, nd.father, nd.next, nd.last)
      BY DEF Node, Has
    <3> QED BY <2>1, <2>3, <2>4, <3>1, <3>2, <3>3, <3>4
  <2>5. CASE ~(n \in way /\ ~nd.isLeaf /\ x < nd.key[1])
    <3>1. t2.node[n] = nd /\ LowerNode(t, x, n) = nd.key
      BY <2>2, <2>3, <2>5
    <3> QED BY <2>1, <3>1 DEF Has
  <2> QED BY <2>4, <2>5
<1>6. t2.node \in [D -> Node]
  BY <1>4, <1>5
<1>7. t2 = [Root |-> t2.Root, node |-> t2.node]
  BY <1>2, <1>4 DEF Lower
<1>8. t2 \in [Root : Nat, node : [D -> Node]]
  BY <1>2, <1>4, <1>6, <1>7
<1>9. DOMAIN t2.node = D
  BY <1>4
<1>10. IsTree(t2)
  BY <1>2, <1>8, <1>9 DEF IsTree
<1> QED BY <1>1, <1>4, <1>5, <1>9, <1>10

(* What Enter does to the arrays. *)
LEMMA PutAtIs ==
  ASSUME NEW t, IsTree(t), NEW c, c \in DOMAIN t.node, NEW nd, nd = t.node[c], NEW i, NEW x, NEW v
  PROVE  PutAt(t, c, i, x, v) = WithArrays(t, c, InsertAt(nd.key, i, x), InsertAt(nd.child, i, v))
<1>1. PICK D : D = DOMAIN t.node
  OBVIOUS
<1>2. t \in [Root : Nat, node : [D -> Node]] /\ c \in D
  BY <1>1 DEF IsTree
<1>3. nd \in Node
  BY <1>2
<1>4. PICK ks, cs : ks = InsertAt(nd.key, i, x) /\ cs = InsertAt(nd.child, i, v)
  OBVIOUS
<1>5. WithArrays(t, c, ks, cs) = [t EXCEPT !.node[c] = [nd EXCEPT !.key = ks, !.child = cs]]
  BY <1>2 DEF WithArrays
<1>6. PutAt(t, c, i, x, v) = [t EXCEPT !.node[c] = [nd EXCEPT !.key = ks, !.child = cs]]
  BY <1>2, <1>3, <1>4 DEF Node, PutAt
<1> QED BY <1>4, <1>5, <1>6

(* What Enter does to a leaf. *)
LEMMA EnterLeafIs ==
  ASSUME NEW t, NEW c, NEW nd, nd = t.node[c], nd.isLeaf, NEW x, NEW v,
         NEW s, s = Enter(t, c, x, v)
  PROVE  /\ s.tree = PutAt(t, c, Place(nd, x), x, v)
         /\ s.cur = c
         /\ s.full <=> Len(nd.key) + 1 = MaxChildNumber
BY DEF Enter

-----------------------------------------------------------------------------
(* A record is put into a leaf. *)

LEMMA LoweredKids ==
  ASSUME NEW t, NEW w, Sound(t, w), NEW x \in Keys, NEW n, n \in DOMAIN t.node,
         NEW nd, nd = t.node[n], NEW ks, ks = LowerNode(t, x, n)
  PROVE  /\ ks \in Seq(Keys) /\ Len(ks) = Len(nd.key) /\ Arrays(Cell, ks, nd.child)
         /\ nd.isLeaf => ks = nd.key
         /\ Undercuts(w, n, x) => IsLowered(w.kids[n], Kids(ks, nd.child), x)
         /\ ~Undercuts(w, n, x) => Kids(ks, nd.child) = w.kids[n]
<1>1. /\ n \in w.nodes
      /\ nd.key \in Seq(Keys) /\ nd.child \in Seq(Cell) /\ Len(nd.key) \in Nat
      /\ Arrays(Cell, nd.key, nd.child) /\ Ascending(nd.key)
      /\ w.kids[n] = Kids(nd.key, nd.child)
      /\ nd.isLeaf <=> w.level[n] = 0
      /\ ~nd.isLeaf => Len(nd.key) # 0
  BY SoundNode
<1>2. x \in Int
  BY TreeConstants
<1>3. \A j \in 1..Len(nd.key) : nd.key[j] \in Int /\ nd.key[j] \in DOMAIN w.kids[n]
  BY NodeKids
<1>4. Len(nd.key) # 0 => LeastKey(w, n, nd.key[1])
  BY NodeKids
<1>5. ~nd.isLeaf =>
        (Undercuts(w, n, x) <=> n \in Way(t, x) /\ x < nd.key[1])
  <2>1. SUFFICES ASSUME ~nd.isLeaf
                 PROVE  Undercuts(w, n, x) <=> n \in Way(t, x) /\ x < nd.key[1]
    OBVIOUS
  <2>2. n \in Way(t, x) <=> x \in w.area[n]
    BY <1>1, <1>2, OnWay
  <2>3. PICK K : K = DOMAIN w.kids[n]
    OBVIOUS
  <2>4. LeastOf(K, nd.key[1]) /\ nd.key[1] \in Int
    BY <1>1, <1>3, <1>4, <2>1, <2>3 DEF LeastKey
  <2>5. K \subseteq Int
    <3>1. Shape(w)
      BY DEF Sound
    <3>2. K \subseteq w.area[n] /\ w.area[n] \subseteq Int
      BY <1>1, <2>3, <3>1 DEF Shape
    <3> QED BY <3>2
  <2>6. (\A j \in K : x < j) <=> x < nd.key[1]
    <3>1. PICK k \in Int : k = nd.key[1]
      BY <2>4
    <3>2. k \in K
      BY <2>4, <3>1 DEF LeastOf
    <3>3. ASSUME x < k, NEW j \in K
          PROVE  x < j
      <4>1. k <= j /\ j \in Int
        BY <2>4, <2>5, <3>1 DEF LeastOf
      <4> QED BY <1>2, <3>3, <4>1
    <3> QED BY <3>1, <3>2, <3>3
  <2> QED BY <1>1, <2>1, <2>2, <2>3, <2>6 DEF Undercuts
<1>6. nd.isLeaf => ~Undercuts(w, n, x)
  BY <1>1 DEF Undercuts
<1>7. CASE Undercuts(w, n, x)
  <2>1. ~nd.isLeaf /\ n \in Way(t, x) /\ x < nd.key[1] /\ Len(nd.key) # 0
    BY <1>1, <1>5, <1>6, <1>7
  <2>2. ks = [nd.key EXCEPT ![1] = x]
    BY <2>1 DEF LowerNode
  <2>3. ks \in Seq(Keys) /\ Len(ks) = Len(nd.key)
    BY <1>1, <2>1, <2>2
  <2>4. ReplacedAt(ks, nd.key, 1, x)
    BY <1>1, <2>1, <2>2 DEF ReplacedAt
  <2>5. ASSUME NEW j \in 1..Len(nd.key)
        PROVE  (j < 1 => nd.key[j] < x) /\ (1 < j => x < nd.key[j])
    <3>1. 1 < j => nd.key[1] < nd.key[j]
      BY <1>1, <2>1 DEF Ascending
    <3>2. nd.key[j] \in Int /\ nd.key[1] \in Int
      BY <1>1, <1>3, <2>1
    <3> QED BY <1>2, <2>1, <3>1, <3>2
  <2>6. 1 \in 1..Len(nd.key)
    BY <1>1, <2>1
  <2>7. PICK i : i = 1
    OBVIOUS
  <2>8. /\ i \in 1..Len(nd.key) /\ ReplacedAt(ks, nd.key, i, x)
        /\ \A j \in 1..Len(nd.key) : (j < i => nd.key[j] < x) /\ (i < j => x < nd.key[j])
    BY <2>4, <2>5, <2>6, <2>7
  <2>9. /\ Arrays(Cell, ks, nd.child)
        /\ Kids(ks, nd.child) = Renamed(Kids(nd.key, nd.child), nd.key[i], x)
    <3>1. PICK kk, cc : kk = nd.key /\ cc = nd.child
      OBVIOUS
    <3>2. /\ Arrays(Cell, kk, cc) /\ i \in 1..Len(kk) /\ ReplacedAt(ks, kk, i, x)
          /\ \A j \in 1..Len(kk) : (j < i => kk[j] < x) /\ (i < j => x < kk[j])
      BY <1>1, <2>8, <3>1
    <3>3. Arrays(Cell, ks, cc) /\ Kids(ks, cc) = Renamed(Kids(kk, cc), kk[i], x)
      BY <2>3, <3>2, RenameKids
    <3> QED BY <3>1, <3>3
  <2>10. IsLowered(w.kids[n], Kids(ks, nd.child), x)
    <3>1. PICK k \in Int : k = nd.key[1]
      BY <1>3, <2>6
    <3>2. LeastOf(DOMAIN w.kids[n], k)
      BY <1>4, <2>1, <3>1 DEF LeastKey
    <3>3. Kids(ks, nd.child) = Renamed(w.kids[n], k, x)
      BY <1>1, <2>7, <2>9, <3>1
    <3> QED BY <3>2, <3>3 DEF IsLowered
  <2> QED BY <1>7, <2>1, <2>3, <2>9, <2>10
<1>8. CASE ~Undercuts(w, n, x)
  <2>1. ks = nd.key
    BY <1>5, <1>8 DEF LowerNode
  <2> QED BY <1>1, <1>8, <2>1
<1> QED BY <1>7, <1>8

(* What makes a tree sound. *)
LEMMA SoundFrom ==
  ASSUME NEW t, IsTree(t), NEW lv, NEW ar, NEW w, w = View(t, lv, ar),
         \A n \in DOMAIN t.node : Stores(t.node[n]),
         \A n \in DOMAIN t.node : t.node[n].isLeaf <=> lv[n] = 0,
         Shape(w), Linked(w)
  PROVE  Sound(t, w)
BY ViewSees DEF Sound

(* What is left as it was outside of node c. *)
SameSize(t, t2, n) ==
  /\ n \in DOMAIN t2.node
  /\ Len(t2.node[n].key) = Len(t.node[n].key)
  /\ t2.node[n].isLeaf = t.node[n].isLeaf
  /\ n = t2.Root <=> n = t.Root

PutDone(t, w, t2, w2, l, x, r) ==
  /\ Sound(t2, w2)
  /\ PutHeld(w, w2, x, r)
  /\ w2.level = w.level
  /\ t2.Root = t.Root
  /\ DOMAIN t2.node = DOMAIN t.node
  /\ Len(t2.node[l].key) = Len(t.node[l].key) + 1
  /\ t2.node[l].isLeaf
  /\ \A n \in DOMAIN t.node : n # l => SameSize(t, t2, n)

(* A leaf of the view is one of the tree. *)
LEMMA LeafIs ==
  ASSUME NEW t, NEW w, Sound(t, w), NEW l, Leaf(w, l)
  PROVE  l \in DOMAIN t.node /\ l \in w.nodes /\ t.node[l].isLeaf /\ w.level[l] = 0
BY SoundFrame, SoundSees DEF Leaf

(* The record is in the leaf, and the tree is sound. *)
LEMMA PutIn ==
  ASSUME NEW t, NEW w, Sound(t, w), NEW x \in Keys, NEW r, r \in {x} \X Versions[x],
         NEW l, l = Find(t, x), x \notin DOMAIN w.kids[l],
         NEW s, s = Enter(Lower(t, x), l, x, r)
  PROVE  /\ s.cur = l
         /\ s.full <=> Len(t.node[l].key) + 1 = MaxChildNumber
         /\ \E w2 : PutDone(t, w, s.tree, w2, l, x, r)
<1>1. x \in Int
  BY TreeConstants
<1>2. Leaf(w, l) /\ x \in w.area[l]
  BY <1>1, FindIs
<1>3. /\ IsTree(t) /\ Shape(w) /\ Linked(w)
      /\ w.nodes = DOMAIN t.node /\ w.root = t.Root
  BY SoundFrame
<1>4. l \in DOMAIN t.node /\ l \in w.nodes /\ t.node[l].isLeaf /\ w.level[l] = 0
  BY <1>2, LeafIs
<1>5. PICK t1 : t1 = Lower(t, x)
  OBVIOUS
<1>6. \A n \in DOMAIN t.node : ~t.node[n].isLeaf => Len(t.node[n].key) # 0
  BY SoundNode
<1>7. /\ IsTree(t1)
      /\ t1.Root = t.Root /\ DOMAIN t1.node = DOMAIN t.node
      /\ \A n \in DOMAIN t.node :
           Has(t1.node[n], t.node[n].isLeaf, LowerNode(t, x, n), t.node[n].child,
               t.node[n].father, t.node[n].next, t.node[n].last)
  BY <1>3, <1>5, <1>6, LowerIs
<1>8. PICK nd : nd = t.node[l]
  OBVIOUS
<1>9. /\ nd.key \in Seq(Keys) /\ nd.child \in Seq(Cell) /\ Len(nd.key) \in Nat
      /\ Arrays(Cell, nd.key, nd.child) /\ Ascending(nd.key)
      /\ Len(nd.child) = Len(nd.key)
      /\ w.kids[l] = Kids(nd.key, nd.child)
  BY <1>4, <1>8, SoundNode
<1>10. PICK c : c = t1.node[l]
  OBVIOUS
<1>11. /\ c.isLeaf /\ c.key = nd.key /\ c.child = nd.child
       /\ c.father = nd.father /\ c.next = nd.next /\ c.last = nd.last
  <2>1. Has(c, nd.isLeaf, LowerNode(t, x, l), nd.child, nd.father, nd.next, nd.last)
    BY <1>4, <1>7, <1>8, <1>10
  <2>2. LowerNode(t, x, l) = nd.key
    BY <1>4, <1>8 DEF LowerNode
  <2> QED BY <1>4, <1>8, <2>1, <2>2 DEF Has
<1>12. PICK i : i = Place(c, x)
  OBVIOUS
<1>13. \A j \in 1..Len(nd.key) : nd.key[j] # x
  <2>1. \A j \in 1..Len(nd.key) : nd.key[j] \in DOMAIN w.kids[l]
    BY <1>4, <1>8, NodeKids
  <2> QED BY <2>1
<1>14. /\ i \in 1..Len(nd.key) + 1
       /\ \A j \in 1..Len(nd.key) : (j < i => nd.key[j] < x) /\ (i <= j => x < nd.key[j])
  <2>1. c.key \in Seq(Keys) /\ Ascending(c.key) /\ \A j \in 1..Len(c.key) : c.key[j] # x
    BY <1>9, <1>11, <1>13
  <2>2. /\ i \in 1..Len(c.key) + 1
        /\ \A j \in 1..Len(c.key) : (j < i => c.key[j] < x) /\ (i <= j => x < c.key[j])
    BY <1>1, <1>12, <2>1, PlaceIs
  <2> QED BY <1>11, <2>2
<1>15. PICK ks : ks = InsertAt(nd.key, i, x)
  OBVIOUS
<1>16. PICK cs : cs = InsertAt(nd.child, i, r)
  OBVIOUS
<1>17. r \in Cell
  <2>1. r \in Record
    BY DEF Record
  <2> QED BY <2>1 DEF Cell
<1>18. /\ Arrays(Cell, ks, cs)
       /\ Len(ks) = Len(nd.key) + 1
       /\ Kids(ks, cs) = Plus(w.kids[l], x, r)
  <2>1. PICK kk, cc : kk = nd.key /\ cc = nd.child
    OBVIOUS
  <2>2. /\ Arrays(Cell, kk, cc) /\ i \in 1..Len(kk) + 1
        /\ \A j \in 1..Len(kk) : (j < i => kk[j] < x) /\ (i <= j => x < kk[j])
    BY <1>9, <1>14, <2>1
  <2>3. /\ Arrays(Cell, InsertAt(kk, i, x), InsertAt(cc, i, r))
        /\ Len(InsertAt(kk, i, x)) = Len(kk) + 1
        /\ Kids(InsertAt(kk, i, x), InsertAt(cc, i, r)) = Plus(Kids(kk, cc), x, r)
    BY <1>17, <2>2, InsertKids
  <2> QED BY <1>9, <1>15, <1>16, <2>1, <2>3
<1>19. ks \in Seq(Keys) /\ cs \in Seq(Cell)
  BY <1>18 DEF Arrays
<1>20. PICK t2 : t2 = WithArrays(t1, l, ks, cs)
  OBVIOUS
<1>21. /\ s.tree = t2
       /\ s.cur = l
       /\ s.full <=> Len(nd.key) + 1 = MaxChildNumber
  <2>1. PICK u : u = PutAt(t1, l, i, x, r)
    OBVIOUS
  <2>2. c.isLeaf /\ s = Enter(t1, l, x, r)
    BY <1>5, <1>11
  <2>3. /\ s.tree = PutAt(t1, l, Place(c, x), x, r)
        /\ s.cur = l
        /\ s.full <=> Len(c.key) + 1 = MaxChildNumber
    BY <1>10, <2>2, EnterLeafIs
  <2>4. u = WithArrays(t1, l, InsertAt(c.key, i, x), InsertAt(c.child, i, r))
    BY <1>4, <1>7, <1>10, <2>1, PutAtIs
  <2>5. u = t2
    BY <1>11, <1>15, <1>16, <1>20, <2>4
  <2> QED BY <1>11, <1>12, <2>1, <2>3, <2>5
<1>22. /\ IsTree(t2)
       /\ t2.Root = t.Root /\ DOMAIN t2.node = DOMAIN t.node
       /\ Has(t2.node[l], c.isLeaf, ks, cs, c.father, c.next, c.last)
       /\ \A n \in DOMAIN t.node : n # l => t2.node[n] = t1.node[n]
  BY <1>4, <1>7, <1>10, <1>19, <1>20, WithArraysIs
<1>23. ASSUME NEW n, n \in DOMAIN t.node, n # l
       PROVE  Has(t2.node[n], t.node[n].isLeaf, LowerNode(t, x, n), t.node[n].child,
                  t.node[n].father, t.node[n].next, t.node[n].last)
  BY <1>7, <1>22, <1>23
<1>24. Has(t2.node[l], nd.isLeaf, ks, cs, nd.father, nd.next, nd.last)
  BY <1>4, <1>8, <1>11, <1>22
<1>25. PICK w2 : w2 = View(t2, w.level, w.area)
  OBVIOUS
<1>26. /\ w2.nodes = DOMAIN t.node /\ w2.root = t.Root
       /\ w2.level = w.level /\ w2.area = w.area
       /\ \A n \in DOMAIN t.node : /\ w2.kids[n] = Kids(t2.node[n].key, t2.node[n].child)
                                   /\ w2.father[n] = t2.node[n].father
                                   /\ w2.next[n] = t2.node[n].next
                                   /\ w2.last[n] = t2.node[n].last
  BY <1>22, <1>25, ViewIs
<1>27. ASSUME NEW n, n \in DOMAIN t.node
       PROVE  /\ Stores(t2.node[n])
              /\ t2.node[n].isLeaf <=> w.level[n] = 0
              /\ w2.father[n] = w.father[n] /\ w2.next[n] = w.next[n] /\ w2.last[n] = w.last[n]
  <2>1. PICK m : m = t.node[n]
    OBVIOUS
  <2>2. /\ w.father[n] = m.father /\ w.next[n] = m.next /\ w.last[n] = m.last
        /\ m.isLeaf <=> w.level[n] = 0
    BY <1>27, <2>1, SoundSees
  <2>3. Stores(m)
    BY <1>27, <2>1 DEF Sound
  <2>4. CASE n = l
    <3>1. \A j \in 1..Len(ks) : cs[j] \in {ks[j]} \X Versions[ks[j]]
      <4>1. InsertedAt(ks, nd.key, i, x) /\ InsertedAt(cs, nd.child, i, r)
        BY <1>9, <1>14, <1>15, <1>16, <1>17, InsertAtElements
      <4>2. \A j \in 1..Len(nd.key) : nd.child[j] \in {nd.key[j]} \X Versions[nd.key[j]]
        BY <1>4, <1>8, <2>1, <2>3, <2>4 DEF Stores
      <4>3. ASSUME NEW j \in 1..Len(nd.key) + 1
            PROVE  cs[j] \in {ks[j]} \X Versions[ks[j]]
        <5>1. /\ ks[j] = IF j < i THEN nd.key[j] ELSE IF j = i THEN x ELSE nd.key[j - 1]
              /\ cs[j] = IF j < i THEN nd.child[j] ELSE IF j = i THEN r ELSE nd.child[j - 1]
          BY <1>9, <4>1 DEF InsertedAt
        <5>2. CASE j < i
          <6>1. j \in 1..Len(nd.key)
            BY <1>9, <1>14, <5>2
          <6> QED BY <4>2, <5>1, <5>2, <6>1
        <5>3. CASE j = i
          BY <5>1, <5>3
        <5>4. CASE i < j
          <6>1. j - 1 \in 1..Len(nd.key)
            BY <1>9, <1>14, <5>4
          <6>2. ks[j] = nd.key[j - 1] /\ cs[j] = nd.child[j - 1]
            BY <1>14, <5>1, <5>4
          <6> QED BY <4>2, <6>1, <6>2
        <5> QED BY <1>14, <5>2, <5>3, <5>4
      <4> QED BY <1>18, <4>3
    <3>2. Stores(t2.node[n])
      BY <1>4, <1>8, <1>18, <1>24, <2>4, <3>1, SMTT(40) DEF Has, Stores
    <3> QED BY <1>8, <1>24, <1>26, <1>27, <2>1, <2>2, <2>4, <3>2 DEF Has
  <2>5. CASE n # l
    <3>1. PICK lk : lk = LowerNode(t, x, n)
      OBVIOUS
    <3>2. Has(t2.node[n], m.isLeaf, lk, m.child, m.father, m.next, m.last)
      BY <1>23, <1>27, <2>1, <2>5, <3>1
    <3>3. Len(lk) = Len(m.key) /\ Arrays(Cell, lk, m.child) /\ (m.isLeaf => lk = m.key)
      BY <1>27, <2>1, <3>1, LoweredKids
    <3>4. Stores(t2.node[n])
      BY <2>3, <3>2, <3>3 DEF Has, Stores
    <3> QED BY <1>26, <1>27, <2>2, <3>2, <3>4 DEF Has
  <2> QED BY <2>4, <2>5
<1>28. PutView(w, w2, l, x, r)
  <2>1. w2.kids[l] = Plus(w.kids[l], x, r)
    BY <1>4, <1>18, <1>24, <1>26 DEF Has
  <2>2. ASSUME NEW n \in w.nodes, n # l
        PROVE  /\ Undercuts(w, n, x) => IsLowered(w.kids[n], w2.kids[n], x)
               /\ ~Undercuts(w, n, x) => w2.kids[n] = w.kids[n]
    <3>1. PICK m : m = t.node[n]
      OBVIOUS
    <3>2. PICK lk : lk = LowerNode(t, x, n)
      OBVIOUS
    <3>3. /\ Undercuts(w, n, x) => IsLowered(w.kids[n], Kids(lk, m.child), x)
          /\ ~Undercuts(w, n, x) => Kids(lk, m.child) = w.kids[n]
      BY <1>3, <3>1, <3>2, LoweredKids
    <3>4. w2.kids[n] = Kids(lk, m.child)
      <4>1. Has(t2.node[n], m.isLeaf, lk, m.child, m.father, m.next, m.last)
        BY <1>3, <1>23, <2>2, <3>1, <3>2
      <4> QED BY <1>3, <1>26, <4>1 DEF Has
    <3> QED BY <3>3, <3>4
  <2>3. ~Undercuts(w, l, x)
    BY <1>4 DEF Undercuts
  <2>4. SameTree(w, w2)
    BY <1>3, <1>26, <1>27 DEF SameTree
  <2> QED BY <1>26, <2>1, <2>2, <2>3, <2>4 DEF PutView
<1>29. Shape(w2)
  BY <1>1, <1>2, <1>3, <1>4, <1>28, PutShape
<1>30. Linked(w2)
  <2>1. SameTree(w, w2) /\ w2.area = w.area
    BY <1>28 DEF PutView
  <2>2. SameLinks(w, w2)
    BY <1>3, <1>27 DEF SameLinks
  <2> QED BY <1>3, <2>1, <2>2, SameAreasLinked
<1>31. Sound(t2, w2)
  BY <1>22, <1>25, <1>27, <1>29, <1>30, SoundFrom
<1>32. PutHeld(w, w2, x, r)
  <2>1. w2.nodes = w.nodes /\ w2.level = w.level
    BY <1>3, <1>26
  <2>2. ASSUME NEW n \in w.nodes, w.level[n] = 0, n # l
        PROVE  w2.kids[n] = w.kids[n]
    BY <1>28, <2>2 DEF PutView, Undercuts
  <2>3. w2.kids[l] = Plus(w.kids[l], x, r)
    BY <1>28 DEF PutView
  <2> QED BY <1>1, <1>2, <1>3, <2>1, <2>2, <2>3, PlusHeld
<1>33. ASSUME NEW n, n \in DOMAIN t.node, n # l
       PROVE  SameSize(t, t2, n)
  <2>1. PICK m : m = t.node[n]
    OBVIOUS
  <2>2. PICK lk : lk = LowerNode(t, x, n)
    OBVIOUS
  <2>3. Has(t2.node[n], m.isLeaf, lk, m.child, m.father, m.next, m.last)
    BY <1>23, <1>33, <2>1, <2>2
  <2>4. Len(lk) = Len(m.key)
    BY <1>33, <2>1, <2>2, LoweredKids
  <2> QED BY <1>22, <1>33, <2>1, <2>3, <2>4 DEF Has, SameSize
<1>34. PutDone(t, w, t2, w2, l, x, r)
  <2>1. Len(t2.node[l].key) = Len(t.node[l].key) + 1 /\ t2.node[l].isLeaf
    BY <1>4, <1>8, <1>18, <1>24 DEF Has
  <2> QED BY <1>22, <1>26, <1>31, <1>32, <1>33, <2>1 DEF PutDone
<1> QED BY <1>8, <1>21, <1>34

-----------------------------------------------------------------------------
(* A node is halved. *)

(* What is in p is what is in s at the positions a to b. *)
PartOf(p, s, a, b) == \A x : x \in Range(p) <=> \E i \in a..b : s[i] = x

(* What SubSeq gives. *)
LEMMA PartIs ==
  ASSUME NEW S, NEW s \in Seq(S), NEW a \in Nat \ {0}, NEW b \in Nat, a <= b, b <= Len(s),
         NEW p, p = SubSeq(s, a, b)
  PROVE  /\ p \in Seq(S)
         /\ Len(p) = b - a + 1
         /\ PartOf(p, s, a, b)
<1>1. /\ p \in Seq(S) /\ Len(p) = b - a + 1
      /\ \A i \in 1..b - a + 1 : p[i] = s[a + i - 1]
  BY SubSeqProperties
<1>2. ASSUME NEW x
      PROVE  x \in Range(p) <=> \E i \in a..b : s[i] = x
  <2>1. x \in Range(p) <=> \E i \in 1..Len(p) : p[i] = x
    <3>1. PICK q \in Seq(S) : q = p
      BY <1>1
    <3>2. x \in Range(q) <=> \E i \in 1..Len(q) : q[i] = x
      BY DEF Range
    <3> QED BY <3>1, <3>2
  <2>2. ASSUME NEW i \in 1..b - a + 1, p[i] = x
        PROVE  \E j \in a..b : s[j] = x
    <3>1. a + i - 1 \in a..b /\ s[a + i - 1] = x
      BY <1>1, <2>2
    <3> QED BY <3>1
  <2>3. ASSUME NEW j \in a..b, s[j] = x
        PROVE  \E i \in 1..b - a + 1 : p[i] = x
    <3>1. j - a + 1 \in 1..b - a + 1 /\ a + (j - a + 1) - 1 = j
      OBVIOUS
    <3>2. p[j - a + 1] = x
      BY <1>1, <2>3, <3>1
    <3> QED BY <3>1, <3>2
  <2> QED BY <1>1, <2>1, <2>2, <2>3
<1> QED BY <1>1, <1>2 DEF PartOf

(* Child n of node nd is at one of the positions a to b. *)
ChildFrom(nd, a, b, n) == ~nd.isLeaf /\ \E i \in a..b : nd.child[i] = n

(* What Halve does. *)
LEMMA HalveIs ==
  ASSUME NEW t, IsTree(t), NEW cur, cur \in DOMAIN t.node, NEW c, c = t.node[cur],
         Len(c.key) = MaxChildNumber, Len(c.child) = MaxChildNumber,
         NEW temp \in Nat \ {0}, temp \notin DOMAIN t.node,
         NEW t2, t2 = Halve(t, cur, temp)
  PROVE  /\ IsTree(t2)
         /\ t2.Root = t.Root /\ DOMAIN t2.node = DOMAIN t.node \cup {temp}
         /\ Has(t2.node[temp], c.isLeaf,
                SubSeq(c.key, Mid + 1, MaxChildNumber), SubSeq(c.child, Mid + 1, MaxChildNumber),
                IF ChildFrom(c, Mid + 1, MaxChildNumber, temp) THEN temp ELSE c.father, NULL, NULL)
         /\ Has(t2.node[cur], c.isLeaf, SubSeq(c.key, 1, Mid), SubSeq(c.child, 1, Mid),
                IF ChildFrom(c, Mid + 1, MaxChildNumber, cur) THEN temp ELSE c.father,
                c.next, c.last)
         /\ \A n \in DOMAIN t.node : n # cur =>
              Has(t2.node[n], t.node[n].isLeaf, t.node[n].key, t.node[n].child,
                  IF ChildFrom(c, Mid + 1, MaxChildNumber, n) THEN temp ELSE t.node[n].father,
                  t.node[n].next, t.node[n].last)
<1>1. PICK D : D = DOMAIN t.node
  OBVIOUS
<1>2. t \in [Root : Nat, node : [D -> Node]] /\ D \subseteq Nat \ {0} /\ IsFiniteSet(D) /\ cur \in D
  BY <1>1 DEF IsTree
<1>3. /\ Mid \in Nat /\ Mid >= 2 /\ MaxChildNumber = 2 * Mid /\ MaxChildNumber \in Nat
      /\ Mid + 1 <= MaxChildNumber /\ Mid <= MaxChildNumber
  BY HalfIs
<1>4. c \in Node
  BY <1>2
<1>5. /\ c.isLeaf \in BOOLEAN /\ c.key \in Seq(Keys) /\ c.child \in Seq(Cell)
      /\ c.father \in Nat /\ c.next \in Nat /\ c.last \in Nat
  BY <1>4 DEF Node
<1>6. PICK uk : uk = SubSeq(c.key, Mid + 1, MaxChildNumber)
  OBVIOUS
<1>7. PICK uc : uc = SubSeq(c.child, Mid + 1, MaxChildNumber)
  OBVIOUS
<1>8. PICK lk : lk = SubSeq(c.key, 1, Mid)
  OBVIOUS
<1>9. PICK lc : lc = SubSeq(c.child, 1, Mid)
  OBVIOUS
<1>10. uk \in Seq(Keys) /\ lk \in Seq(Keys)
  BY <1>3, <1>5, <1>6, <1>8, PartIs, SMTT(40)
<1>11. uc \in Seq(Cell) /\ lc \in Seq(Cell)
  BY <1>3, <1>5, <1>7, <1>9, PartIs
<1>12. \A x : x \in Range(uc) <=> \E i \in Mid + 1..MaxChildNumber : c.child[i] = x
  <2>1. PartOf(uc, c.child, Mid + 1, MaxChildNumber)
    <3>1. PICK a \in Nat \ {0}, b \in Nat : a = Mid + 1 /\ b = MaxChildNumber
      BY <1>3
    <3>2. a <= b /\ b <= Len(c.child) /\ uc = SubSeq(c.child, a, b)
      BY <1>3, <1>7, <3>1
    <3>3. PICK s \in Seq(Cell) : s = c.child
      BY <1>5
    <3>4. PartOf(uc, s, a, b)
      BY <3>2, <3>3, PartIs
    <3> QED BY <3>1, <3>3, <3>4
  <2> QED BY <2>1 DEF PartOf
<1>13. PICK half : half = NewNode(c.isLeaf, uk, uc, c.father)
  OBVIOUS
<1>14. PICK cut : cut = [c EXCEPT !.key = lk, !.child = lc]
  OBVIOUS
<1>15. half \in Node /\ Has(half, c.isLeaf, uk, uc, c.father, NULL, NULL)
  BY <1>5, <1>10, <1>11, <1>13 DEF Node, NewNode, Has, NULL
<1>16. cut \in Node /\ Has(cut, c.isLeaf, lk, lc, c.father, c.next, c.last)
  BY <1>4, <1>10, <1>11, <1>14 DEF Node, Has
<1>17. PICK t1 : t1 = [t EXCEPT !.node = [n \in D \cup {temp} |->
                         IF n = temp THEN half ELSE IF n = cur THEN cut ELSE t.node[n]]]
  OBVIOUS
<1>18. t2 = Adopt(t1, Subnodes(t1, temp), temp)
  <2>1. [t EXCEPT !.node = [n \in DOMAIN @ \cup {temp} |->
           IF n = temp THEN half ELSE IF n = cur THEN cut ELSE @[n]]] = t1
    BY <1>1, <1>2, <1>17
  <2>2. half = NewNode(c.isLeaf, SubSeq(c.key, Mid + 1, MaxChildNumber),
                       SubSeq(c.child, Mid + 1, MaxChildNumber), c.father)
    BY <1>6, <1>7, <1>13
  <2>3. cut = [c EXCEPT !.key = SubSeq(@, 1, Mid), !.child = SubSeq(@, 1, Mid)]
    BY <1>4, <1>8, <1>9, <1>14 DEF Node
  <2> QED BY <2>1, <2>2, <2>3 DEF Halve
<1>19. /\ t1.Root = t.Root
       /\ t1.node = [n \in D \cup {temp} |->
                       IF n = temp THEN half ELSE IF n = cur THEN cut ELSE t.node[n]]
  BY <1>2, <1>17
<1>20. PICK E : E = D \cup {temp}
  OBVIOUS
<1>21. t1.node \in [E -> Node]
  BY <1>2, <1>15, <1>16, <1>19, <1>20
<1>22. t1 \in [Root : Nat, node : [E -> Node]]
  BY <1>2, <1>17, <1>19, <1>21
<1>23. DOMAIN t1.node = E
  BY <1>21
<1>24. E \subseteq Nat \ {0} /\ IsFiniteSet(E)
  BY <1>2, <1>20, FS_AddElement
<1>25. IsTree(t1)
  BY <1>22, <1>23, <1>24 DEF IsTree
<1>26. /\ IsTree(t2)
       /\ t2.Root = t1.Root /\ DOMAIN t2.node = DOMAIN t1.node
       /\ \A n \in DOMAIN t1.node :
            Has(t2.node[n], t1.node[n].isLeaf, t1.node[n].key, t1.node[n].child,
                IF n \in Subnodes(t1, temp) THEN temp ELSE t1.node[n].father,
                t1.node[n].next, t1.node[n].last)
  BY <1>18, <1>25, AdoptIs
<1>27. /\ t1.node[temp] = half
       /\ t1.node[cur] = cut
       /\ \A n \in D : n # cur => t1.node[n] = t.node[n]
  BY <1>1, <1>2, <1>19
<1>28. \A n : n \in Subnodes(t1, temp) <=> ChildFrom(c, Mid + 1, MaxChildNumber, n)
  <2>1. half.isLeaf = c.isLeaf /\ half.child = uc
    BY <1>15 DEF Has
  <2> QED BY <1>12, <1>27, <2>1 DEF Subnodes, ChildFrom
<1>29. Has(t2.node[temp], c.isLeaf, uk, uc,
           IF ChildFrom(c, Mid + 1, MaxChildNumber, temp) THEN temp ELSE c.father, NULL, NULL)
  BY <1>15, <1>20, <1>23, <1>26, <1>27, <1>28 DEF Has
<1>30. Has(t2.node[cur], c.isLeaf, lk, lc,
           IF ChildFrom(c, Mid + 1, MaxChildNumber, cur) THEN temp ELSE c.father, c.next, c.last)
  BY <1>2, <1>16, <1>20, <1>23, <1>26, <1>27, <1>28 DEF Has
<1>31. ASSUME NEW n \in D, n # cur
       PROVE  Has(t2.node[n], t.node[n].isLeaf, t.node[n].key, t.node[n].child,
                  IF ChildFrom(c, Mid + 1, MaxChildNumber, n) THEN temp ELSE t.node[n].father,
                  t.node[n].next, t.node[n].last)
  <2>1. n \in DOMAIN t1.node /\ t1.node[n] = t.node[n]
    BY <1>20, <1>23, <1>27, <1>31
  <2> QED BY <1>26, <1>28, <2>1 DEF Has
<1> QED BY <1>1, <1>6, <1>7, <1>8, <1>9, <1>19, <1>20, <1>23, <1>26, <1>29, <1>30, <1>31

-----------------------------------------------------------------------------
(* New links for one leaf. *)
WithNext(t, n, m) == [t EXCEPT !.node[n].next = m]
WithLast(t, n, m) == [t EXCEPT !.node[n].last = m]

(* A leaf gets another successor. *)
LEMMA WithNextIs ==
  ASSUME NEW t, IsTree(t), NEW c, c \in DOMAIN t.node, NEW m \in Nat, NEW t2, t2 = WithNext(t, c, m)
  PROVE  /\ IsTree(t2)
         /\ t2.Root = t.Root /\ DOMAIN t2.node = DOMAIN t.node
         /\ \A n \in DOMAIN t.node :
              Has(t2.node[n], t.node[n].isLeaf, t.node[n].key, t.node[n].child,
                  t.node[n].father, IF n = c THEN m ELSE t.node[n].next, t.node[n].last)
<1>1. PICK D : D = DOMAIN t.node
  OBVIOUS
<1>2. t \in [Root : Nat, node : [D -> Node]] /\ D \subseteq Nat \ {0} /\ IsFiniteSet(D) /\ c \in D
  BY <1>1 DEF IsTree
<1>3. PICK nd \in Node : nd = t.node[c]
  BY <1>2
<1>4. PICK f \in [D -> Node] : f = t.node
  BY <1>2
<1> DEFINE nd2 == [nd EXCEPT !.next = m]
           f2 == [f EXCEPT ![c] = nd2]
<1>5. nd2 \in Node
  BY DEF Node
<1>6. t2 = [t EXCEPT !.node = f2]
  BY <1>2, <1>3, <1>4 DEF WithNext
<1>7. f2 \in [D -> Node]
  BY <1>5
<1>8. Has(nd2, nd.isLeaf, nd.key, nd.child, nd.father, m, nd.last)
  BY DEF Node, Has
<1> HIDE DEF nd2
<1>9. f2[c] = nd2 /\ \A n \in D : n # c => f2[n] = f[n]
  BY <1>2
<1> HIDE DEF f2
<1>10. t2.Root = t.Root /\ t2.node = f2
  BY <1>2, <1>6
<1>11. t2 \in [Root : Nat, node : [D -> Node]]
  BY <1>2, <1>6, <1>7
<1>12. DOMAIN t2.node = D
  BY <1>7, <1>10
<1>13. IsTree(t2)
  BY <1>2, <1>11, <1>12 DEF IsTree
<1>14. ASSUME NEW n \in D
       PROVE  Has(t2.node[n], t.node[n].isLeaf, t.node[n].key, t.node[n].child,
                  t.node[n].father, IF n = c THEN m ELSE t.node[n].next, t.node[n].last)
  <2>1. CASE n = c
    <3>1. t2.node[n] = nd2 /\ t.node[n] = nd
      BY <1>3, <1>9, <1>10, <2>1
    <3> QED BY <1>8, <2>1, <3>1
  <2>2. CASE n # c
    <3>1. t2.node[n] = t.node[n]
      BY <1>4, <1>9, <1>10, <2>2
    <3> QED BY <2>2, <3>1 DEF Has
  <2> QED BY <2>1, <2>2
<1> QED BY <1>1, <1>10, <1>12, <1>13, <1>14

(* A leaf gets another predecessor. *)
LEMMA WithLastIs ==
  ASSUME NEW t, IsTree(t), NEW c, c \in DOMAIN t.node, NEW m \in Nat, NEW t2, t2 = WithLast(t, c, m)
  PROVE  /\ IsTree(t2)
         /\ t2.Root = t.Root /\ DOMAIN t2.node = DOMAIN t.node
         /\ \A n \in DOMAIN t.node :
              Has(t2.node[n], t.node[n].isLeaf, t.node[n].key, t.node[n].child,
                  t.node[n].father, t.node[n].next, IF n = c THEN m ELSE t.node[n].last)
<1>1. PICK D : D = DOMAIN t.node
  OBVIOUS
<1>2. t \in [Root : Nat, node : [D -> Node]] /\ D \subseteq Nat \ {0} /\ IsFiniteSet(D) /\ c \in D
  BY <1>1 DEF IsTree
<1>3. PICK nd \in Node : nd = t.node[c]
  BY <1>2
<1>4. PICK f \in [D -> Node] : f = t.node
  BY <1>2
<1> DEFINE nd2 == [nd EXCEPT !.last = m]
           f2 == [f EXCEPT ![c] = nd2]
<1>5. nd2 \in Node
  BY DEF Node
<1>6. t2 = [t EXCEPT !.node = f2]
  BY <1>2, <1>3, <1>4 DEF WithLast
<1>7. f2 \in [D -> Node]
  BY <1>5
<1>8. Has(nd2, nd.isLeaf, nd.key, nd.child, nd.father, nd.next, m)
  BY DEF Node, Has
<1> HIDE DEF nd2
<1>9. f2[c] = nd2 /\ \A n \in D : n # c => f2[n] = f[n]
  BY <1>2
<1> HIDE DEF f2
<1>10. t2.Root = t.Root /\ t2.node = f2
  BY <1>2, <1>6
<1>11. t2 \in [Root : Nat, node : [D -> Node]]
  BY <1>2, <1>6, <1>7
<1>12. DOMAIN t2.node = D
  BY <1>7, <1>10
<1>13. IsTree(t2)
  BY <1>2, <1>11, <1>12 DEF IsTree
<1>14. ASSUME NEW n \in D
       PROVE  Has(t2.node[n], t.node[n].isLeaf, t.node[n].key, t.node[n].child,
                  t.node[n].father, t.node[n].next, IF n = c THEN m ELSE t.node[n].last)
  <2>1. CASE n = c
    <3>1. t2.node[n] = nd2 /\ t.node[n] = nd
      BY <1>3, <1>9, <1>10, <2>1
    <3> QED BY <1>8, <2>1, <3>1
  <2>2. CASE n # c
    <3>1. t2.node[n] = t.node[n]
      BY <1>4, <1>9, <1>10, <2>2
    <3> QED BY <2>2, <3>1 DEF Has
  <2> QED BY <2>1, <2>2
<1> QED BY <1>1, <1>10, <1>12, <1>13, <1>14

(* Leaf new is linked in between prev and succ. *)
LinkedIn(t, t2, prev, new, succ) ==
  \A n \in DOMAIN t.node :
    Has(t2.node[n], t.node[n].isLeaf, t.node[n].key, t.node[n].child, t.node[n].father,
        IF n = prev THEN new ELSE IF n = new THEN succ ELSE t.node[n].next,
        IF n = new THEN prev ELSE IF n = succ THEN new ELSE t.node[n].last)

(* A leaf is linked in between two others. *)
LEMMA LinkBetweenIs ==
  ASSUME NEW t, IsTree(t), NEW new, new \in DOMAIN t.node, NEW prev, prev \in DOMAIN t.node, prev # new,
         NEW succ, succ \in DOMAIN t.node \/ succ = NULL, succ # new,
         NEW t2, t2 = LinkBetween(t, prev, new, succ)
  PROVE  /\ IsTree(t2)
         /\ t2.Root = t.Root /\ DOMAIN t2.node = DOMAIN t.node
         /\ LinkedIn(t, t2, prev, new, succ)
<1>1. PICK D : D = DOMAIN t.node
  OBVIOUS
<1>2. /\ t \in [Root : Nat, node : [D -> Node]] /\ D \subseteq Nat \ {0}
      /\ new \in D /\ prev \in D /\ (succ \in D \/ succ = 0)
  BY <1>1 DEF IsTree, NULL
<1>3. PICK ta : ta = WithNext(t, prev, new)
  OBVIOUS
<1>4. PICK tb : tb = WithNext(ta, new, succ)
  OBVIOUS
<1>5. PICK tc : tc = WithLast(tb, new, prev)
  OBVIOUS
<1>6. new \in Nat /\ prev \in Nat /\ succ \in Nat
  <2>1. new \in Nat /\ prev \in Nat
    BY <1>2
  <2>2. succ \in Nat
    <3>1. CASE succ \in D
      BY <1>2, <3>1
    <3>2. CASE succ = 0
      BY <3>2
    <3> QED BY <1>2, <3>1, <3>2
  <2> QED BY <2>1, <2>2
<1>7. /\ IsTree(ta) /\ ta.Root = t.Root /\ DOMAIN ta.node = D
      /\ \A n \in D :
           Has(ta.node[n], t.node[n].isLeaf, t.node[n].key, t.node[n].child,
               t.node[n].father, IF n = prev THEN new ELSE t.node[n].next, t.node[n].last)
  BY <1>1, <1>3, <1>6, WithNextIs
<1>8. /\ IsTree(tb) /\ tb.Root = t.Root /\ DOMAIN tb.node = D
      /\ \A n \in D :
           Has(tb.node[n], ta.node[n].isLeaf, ta.node[n].key, ta.node[n].child,
               ta.node[n].father, IF n = new THEN succ ELSE ta.node[n].next, ta.node[n].last)
  <2>1. new \in DOMAIN ta.node /\ IsTree(ta)
    BY <1>2, <1>7
  <2>2. /\ IsTree(tb) /\ tb.Root = ta.Root /\ DOMAIN tb.node = DOMAIN ta.node
        /\ \A n \in DOMAIN ta.node :
             Has(tb.node[n], ta.node[n].isLeaf, ta.node[n].key, ta.node[n].child,
                 ta.node[n].father, IF n = new THEN succ ELSE ta.node[n].next, ta.node[n].last)
    BY <1>4, <1>6, <2>1, WithNextIs
  <2> QED BY <1>7, <2>2
<1>9. /\ IsTree(tc) /\ tc.Root = t.Root /\ DOMAIN tc.node = D
      /\ \A n \in D :
           Has(tc.node[n], tb.node[n].isLeaf, tb.node[n].key, tb.node[n].child,
               tb.node[n].father, tb.node[n].next, IF n = new THEN prev ELSE tb.node[n].last)
  BY <1>2, <1>5, <1>6, <1>8, WithLastIs
<1>10. t2 = IF succ = NULL THEN tc ELSE WithLast(tc, succ, new)
  <2>1. [t EXCEPT !.node[prev].next = new, !.node[new].next = succ, !.node[new].last = prev] = tc
    BY <1>3, <1>4, <1>5 DEF WithNext, WithLast
  <2> QED BY <2>1 DEF LinkBetween, WithLast
<1>11. ASSUME NEW n \in D
       PROVE  Has(tc.node[n], t.node[n].isLeaf, t.node[n].key, t.node[n].child, t.node[n].father,
                  IF n = prev THEN new ELSE IF n = new THEN succ ELSE t.node[n].next,
                  IF n = new THEN prev ELSE t.node[n].last)
  BY <1>7, <1>8, <1>9 DEF Has
<1>12. CASE succ = NULL
  <2>1. \A n \in D : n # succ
    BY <1>2, <1>12 DEF NULL
  <2>2. t2 = tc
    BY <1>10, <1>12
  <2> QED BY <1>1, <1>9, <1>11, <2>1, <2>2 DEF LinkedIn
<1>13. CASE succ # NULL
  <2>1. succ \in D /\ t2 = WithLast(tc, succ, new)
    BY <1>1, <1>10, <1>13
  <2>2. /\ IsTree(t2) /\ t2.Root = t.Root /\ DOMAIN t2.node = D
        /\ \A n \in D :
             Has(t2.node[n], tc.node[n].isLeaf, tc.node[n].key, tc.node[n].child,
                 tc.node[n].father, tc.node[n].next, IF n = succ THEN new ELSE tc.node[n].last)
    <3>1. succ \in DOMAIN tc.node /\ IsTree(tc)
      BY <1>9, <2>1
    <3>2. /\ IsTree(t2) /\ t2.Root = tc.Root /\ DOMAIN t2.node = DOMAIN tc.node
          /\ \A n \in DOMAIN tc.node :
               Has(t2.node[n], tc.node[n].isLeaf, tc.node[n].key, tc.node[n].child,
                   tc.node[n].father, tc.node[n].next, IF n = succ THEN new ELSE tc.node[n].last)
      BY <1>6, <2>1, <3>1, WithLastIs
    <3> QED BY <1>9, <3>2
  <2>3. ASSUME NEW n \in D
        PROVE  Has(t2.node[n], t.node[n].isLeaf, t.node[n].key, t.node[n].child, t.node[n].father,
                   IF n = prev THEN new ELSE IF n = new THEN succ ELSE t.node[n].next,
                   IF n = new THEN prev ELSE IF n = succ THEN new ELSE t.node[n].last)
    BY <1>11, <2>2 DEF Has
  <2> QED BY <1>1, <2>2, <2>3 DEF LinkedIn
<1> QED BY <1>12, <1>13

-----------------------------------------------------------------------------
(* A new child is entered into an inner node. *)

EnteredInner(t, c, nd, i, v, ta, s) ==
  /\ t.node[nd.child[1]].isLeaf => s.tree = LinkLeaf(ta, c, i, v)
  /\ ~t.node[nd.child[1]].isLeaf => s.tree = ta
  /\ s.cur = c
  /\ s.full <=> Len(nd.key) + 1 = MaxChildNumber

(* What Enter does to an inner node. *)
LEMMA EnterInnerIs ==
  ASSUME NEW t, NEW c, NEW nd, nd = t.node[c], ~nd.isLeaf, NEW x, NEW v,
         NEW i, i = Place(nd, x), NEW ta, ta = PutAt(t, c, i, x, v),
         NEW s, s = Enter(t, c, x, v)
  PROVE  EnteredInner(t, c, nd, i, v, ta, s)
BY DEF Enter, EnteredInner

(* The father's entry for a node, and where a larger key of the node goes. *)
LEMMA FatherPlace ==
  ASSUME NEW t, NEW w, Sound(t, w), NEW c, c \in DOMAIN t.node, c # t.Root,
         NEW F, F = t.node[c].father,
         NEW x \in Keys, x \in w.area[c], t.node[c].key[1] < x,
         NEW i, i = Place(t.node[F], x)
  PROVE  /\ i \in 2..Len(t.node[F].key) + 1
         /\ t.node[F].child[i - 1] = c
         /\ \A j \in 1..Len(t.node[F].key) :
              (j < i => t.node[F].key[j] < x) /\ (i <= j => x < t.node[F].key[j])
<1>1. PICK nd : nd = t.node[c]
  OBVIOUS
<1>2. /\ IsTree(t) /\ Shape(w)
      /\ w.nodes = DOMAIN t.node /\ w.root = t.Root
      /\ F = w.father[c]
  BY <1>1, SoundFrame, SoundNode
<1>3. PICK k \in Int : /\ F \in w.nodes
                       /\ w.level[F] \in Nat /\ w.level[c] \in Nat
                       /\ w.level[F] = w.level[c] + 1
                       /\ k \in DOMAIN w.kids[F]
                       /\ w.kids[F][k] = c
                       /\ LeastOf(DOMAIN w.kids[c], k)
                       /\ w.area[c] = Share(w, F, k)
  BY <1>2, FatherEdge
<1>4. PICK f : f = t.node[F]
  OBVIOUS
<1>5. /\ f.key \in Seq(Keys) /\ Ascending(f.key) /\ Len(f.key) \in Nat
      /\ ~f.isLeaf /\ Len(f.key) # 0
  BY <1>2, <1>3, <1>4, SoundNode
<1>20. F \in DOMAIN t.node
  BY <1>2, <1>3
<1>21. Pairs(w.kids[F], f.key, f.child)
  BY <1>4, <1>20, NodePairs
<1>6. \A j \in 1..Len(f.key) : f.key[j] \in Int /\ f.key[j] \in DOMAIN w.kids[F]
  BY <1>4, <1>20, NodeKids
<1>7. \A j \in 1..Len(f.key) : w.kids[F][f.key[j]] = f.child[j]
  BY <1>21 DEF Pairs
<1>8. x \in Int
  BY TreeConstants
<1>9. k = nd.key[1]
  <2>1. Len(nd.key) \in Nat
    BY <1>1, SoundNode
  <2>2. \A m \in DOMAIN w.kids[c] : \E j \in 1..Len(nd.key) : nd.key[j] = m
    BY <1>1, NodeKids
  <2>3. Len(nd.key) # 0
    <3>1. k \in DOMAIN w.kids[c]
      BY <1>3 DEF LeastOf
    <3>2. PICK j \in 1..Len(nd.key) : nd.key[j] = k
      BY <2>2, <3>1
    <3> QED BY <2>1, <3>2
  <2>4. LeastKey(w, c, nd.key[1])
    BY <1>1, <2>3, NodeKids
  <2>5. nd.key[1] \in Int
    <3>1. \A j \in 1..Len(nd.key) : nd.key[j] \in Int
      BY <1>1, NodeKids
    <3> QED BY <2>1, <2>3, <3>1
  <2>6. PICK K : K = DOMAIN w.kids[c]
    OBVIOUS
  <2>7. LeastOf(K, k) /\ LeastOf(K, nd.key[1])
    BY <1>3, <2>4, <2>6 DEF LeastKey
  <2>8. k <= nd.key[1] /\ nd.key[1] <= k
    BY <2>7 DEF LeastOf
  <2> QED BY <2>5, <2>8
<1>10. Chosen(DOMAIN w.kids[F], x, k)
  BY <1>3 DEF Share
<1>11. \A j \in 1..Len(f.key) : f.key[j] <= x => f.key[j] <= k
  <2>1. PICK K : K = DOMAIN w.kids[F]
    OBVIOUS
  <2>2. Chosen(K, x, k)
    BY <1>10, <2>1
  <2>3. \A j \in K : j <= x => j <= k
    BY <2>2 DEF Chosen
  <2> QED BY <1>6, <2>1, <2>3
<1>12. k < x
  BY <1>1, <1>9
<1>13. \A j \in 1..Len(f.key) : f.key[j] # x
  BY <1>6, <1>8, <1>11, <1>12
<1>14. /\ i \in 1..Len(f.key) + 1
       /\ \A j \in 1..Len(f.key) : (j < i => f.key[j] < x) /\ (i <= j => x < f.key[j])
  <2>1. i = Place(f, x)
    BY <1>4
  <2> QED BY <1>5, <1>8, <1>13, <2>1, PlaceIs
<1>15. PICK p \in 1..Len(f.key) : f.key[p] = k
  <2>1. \A m \in DOMAIN w.kids[F] : \E j \in 1..Len(f.key) : f.key[j] = m
    BY <1>21 DEF Pairs
  <2> QED BY <1>3, <2>1
<1>16. p < i
  <2>1. ~(i <= p)
    BY <1>8, <1>12, <1>14, <1>15
  <2> QED BY <1>5, <1>14, <2>1
<1>17. i = p + 1
  <2>1. SUFFICES ASSUME i # p + 1 PROVE FALSE
    OBVIOUS
  <2>2. p + 1 < i /\ p + 1 \in 1..Len(f.key)
    BY <1>5, <1>14, <1>16, <2>1
  <2>3. f.key[p + 1] < x /\ f.key[p + 1] \in Int
    BY <1>6, <1>14, <2>2
  <2>4. f.key[p + 1] <= k
    BY <1>8, <1>11, <2>2, <2>3
  <2>5. f.key[p] < f.key[p + 1]
    <3>1. p < p + 1
      OBVIOUS
    <3> QED BY <1>5, <2>2, <3>1 DEF Ascending
  <2> QED BY <1>15, <2>3, <2>4, <2>5
<1>18. f.child[i - 1] = c
  BY <1>3, <1>7, <1>15, <1>17
<1>19. i \in 2..Len(f.key) + 1
  BY <1>5, <1>17
<1> QED BY <1>4, <1>14, <1>18, <1>19

-----------------------------------------------------------------------------
(* A full node that is not the root is split. *)

LEMMA HasSame ==
  ASSUME NEW a, a \in Node, NEW b, b \in Node,
         Has(a, b.isLeaf, b.key, b.child, b.father, b.next, b.last)
  PROVE  a = b
BY DEF Node, Has

(* What is known of a child of c. *)
LEMMA ChildFromIs ==
  ASSUME NEW t, NEW w, Sound(t, w), NEW c, c \in DOMAIN t.node, NEW nd, nd = t.node[c],
         NEW a \in Nat \ {0}, NEW b \in Nat, b <= Len(nd.key), NEW n, ChildFrom(nd, a, b, n)
  PROVE  /\ n \in DOMAIN t.node /\ n # t.Root
         /\ w.level[n] \in Nat /\ w.level[c] \in Nat /\ w.level[c] = w.level[n] + 1
         /\ n # c
         /\ c # t.Root => n # nd.father
<1>1. PICK i \in a..b : nd.child[i] = n
  BY DEF ChildFrom
<1>2. ~nd.isLeaf
  BY DEF ChildFrom
<1>3. Len(nd.key) \in Nat
  BY SoundNode
<1>4. i \in 1..Len(nd.key)
  BY <1>1, <1>3
<1>5. /\ n \in DOMAIN t.node /\ n # t.Root
      /\ w.level[n] \in Nat /\ w.level[c] \in Nat /\ w.level[c] = w.level[n] + 1
  BY <1>1, <1>2, <1>4, NodeChild
<1>6. n # c
  BY <1>5
<1>7. ASSUME n = nd.father, c # t.Root
      PROVE  FALSE
  <2>1. w.father[c] = n /\ Shape(w) /\ c \in w.nodes /\ c # w.root
    BY <1>7, SoundNode, SoundFrame
  <2>2. w.level[w.father[c]] \in Nat /\ w.level[w.father[c]] = w.level[c] + 1
    BY <2>1, FatherEdge
  <2> QED BY <1>5, <2>1, <2>2
<1> QED BY <1>5, <1>6, <1>7

(* What is known of a node with a father, in terms of the tree. *)
LEMMA NodeFather ==
  ASSUME NEW t, NEW w, Sound(t, w), NEW c, c \in DOMAIN t.node, c # t.Root,
         NEW F, F = t.node[c].father
  PROVE  /\ F \in DOMAIN t.node /\ F \in w.nodes /\ F # c
         /\ w.level[F] \in Nat /\ w.level[c] \in Nat /\ w.level[F] = w.level[c] + 1
         /\ ~t.node[F].isLeaf
         /\ t.node[F].child[1] \in DOMAIN t.node
         /\ t.node[t.node[F].child[1]].isLeaf <=> t.node[c].isLeaf
<1>1. /\ Shape(w) /\ w.nodes = DOMAIN t.node /\ w.root = t.Root /\ F = w.father[c]
      /\ c \in w.nodes /\ c # w.root
  BY SoundFrame, SoundSees
<1>2. /\ F \in w.nodes
      /\ w.level[F] \in Nat /\ w.level[c] \in Nat /\ w.level[F] = w.level[c] + 1
  BY <1>1, FatherEdge
<1>3. PICK f : f = t.node[F]
  OBVIOUS
<1>4. ~f.isLeaf /\ Len(f.key) \in Nat /\ Len(f.key) # 0
  <2>1. F \in DOMAIN t.node /\ w.level[F] # 0
    BY <1>1, <1>2
  <2> QED BY <1>3, <2>1, SoundNode
<1>5. 1 \in 1..Len(f.key)
  BY <1>4
<1>6. PICK d : d = f.child[1]
  OBVIOUS
<1>7. /\ d \in DOMAIN t.node
      /\ w.level[d] \in Nat /\ w.level[F] = w.level[d] + 1
  BY <1>1, <1>2, <1>3, <1>4, <1>5, <1>6, NodeChild
<1>8. t.node[d].isLeaf <=> w.level[d] = 0
  BY <1>7, SoundSees
<1>9. t.node[c].isLeaf <=> w.level[c] = 0
  BY SoundSees
<1>10. t.node[d].isLeaf <=> t.node[c].isLeaf
  BY <1>2, <1>7, <1>8, <1>9
<1>11. F \in DOMAIN t.node /\ F # c
  BY <1>1, <1>2
<1> QED BY <1>2, <1>3, <1>4, <1>6, <1>7, <1>10, <1>11

(* The next leaf. *)
LEMMA NodeNext ==
  ASSUME NEW t, NEW w, Sound(t, w), NEW c, c \in DOMAIN t.node, NEW nd, nd = t.node[c], nd.isLeaf
  PROVE  /\ nd.next = NULL \/ (nd.next \in DOMAIN t.node /\ t.node[nd.next].isLeaf)
         /\ nd.last = NULL \/ (nd.last \in DOMAIN t.node /\ t.node[nd.last].isLeaf)
         /\ nd.next # c /\ nd.last # c
         /\ c # NULL
<1>1. Linked(w) /\ w.nodes = DOMAIN t.node /\ NULL \notin w.nodes
  BY SoundFrame
<1>2. w.next[c] = nd.next /\ w.last[c] = nd.last /\ Leaf(w, c)
  BY <1>1, SoundSees DEF Leaf
<1>3. OnChain(w, c)
  BY <1>1, <1>2 DEF Linked
<1>4. \A n : Leaf(w, n) => n \in DOMAIN t.node /\ t.node[n].isLeaf
  BY LeafIs
<1>5. ~Adjacent(w, c, c)
  BY DEF Adjacent
<1>6. w.next[c] # c /\ w.last[c] # c
  BY <1>1, <1>2, <1>5 DEF Linked
<1> QED BY <1>1, <1>2, <1>3, <1>4, <1>6 DEF OnChain

SplitNodes(t, t2, cur, temp, F, i) ==
  LET c == t.node[cur]
      f == t.node[F]
  IN  /\ IsTree(t2)
      /\ t2.Root = t.Root
      /\ DOMAIN t2.node = DOMAIN t.node \cup {temp}
      /\ Has(t2.node[temp], c.isLeaf,
             SubSeq(c.key, Mid + 1, MaxChildNumber), SubSeq(c.child, Mid + 1, MaxChildNumber),
             F, IF c.isLeaf THEN c.next ELSE NULL, IF c.isLeaf THEN cur ELSE NULL)
      /\ Has(t2.node[cur], c.isLeaf, SubSeq(c.key, 1, Mid), SubSeq(c.child, 1, Mid),
             F, IF c.isLeaf THEN temp ELSE c.next, c.last)
      /\ Has(t2.node[F], f.isLeaf, InsertAt(f.key, i, c.key[Mid + 1]), InsertAt(f.child, i, temp),
             f.father, f.next, f.last)
      /\ \A n \in DOMAIN t.node : n # cur /\ n # F =>
           Has(t2.node[n], t.node[n].isLeaf, t.node[n].key, t.node[n].child,
               IF ChildFrom(c, Mid + 1, MaxChildNumber, n) THEN temp ELSE t.node[n].father,
               t.node[n].next, IF c.isLeaf /\ n = c.next THEN temp ELSE t.node[n].last)

(* What Split does to a node that is not the root. *)
LEMMA SplitIs ==
  ASSUME NEW t, NEW w, Sound(t, w), NEW cur, cur \in DOMAIN t.node, cur # t.Root,
         NEW c, c = t.node[cur], Len(c.key) = MaxChildNumber,
         NEW F, F = c.father, NEW temp, temp = Fresh(t), NEW p, p = c.key[Mid + 1],
         NEW s, s = Split(t, cur)
  PROVE  /\ s.cur = F
         /\ s.full <=> Len(t.node[F].key) + 1 = MaxChildNumber
         /\ SplitNodes(t, s.tree, cur, temp, F, Place(t.node[F], p))
<1>1. IsTree(t) /\ w.nodes = DOMAIN t.node
  BY SoundFrame
<1>2. temp \in Nat \ {0} /\ temp \notin DOMAIN t.node
  BY <1>1, FreshIs
<1>3. /\ F \in DOMAIN t.node /\ F # cur
      /\ w.level[F] \in Nat /\ w.level[cur] \in Nat /\ w.level[F] = w.level[cur] + 1
      /\ ~t.node[F].isLeaf
      /\ t.node[F].child[1] \in DOMAIN t.node
      /\ t.node[t.node[F].child[1]].isLeaf <=> c.isLeaf
  BY NodeFather
<1>4. /\ c.key \in Seq(Keys) /\ c.child \in Seq(Cell) /\ Len(c.key) \in Nat
      /\ Arrays(Cell, c.key, c.child) /\ Ascending(c.key)
      /\ Len(c.child) = Len(c.key)
  BY SoundNode
<1>5. /\ Mid \in Nat /\ Mid >= 2 /\ MaxChildNumber = 2 * Mid /\ MaxChildNumber \in Nat
      /\ Mid + 1 \in Nat \ {0} /\ Mid + 1 <= MaxChildNumber
  BY HalfIs
<1>6. PICK t1 : t1 = Halve(t, cur, temp)
  OBVIOUS
<1>7. ASSUME NEW n, ChildFrom(c, Mid + 1, MaxChildNumber, n)
      PROVE  n \in DOMAIN t.node /\ n # cur /\ n # F
  <2>1. PICK a \in Nat \ {0}, b \in Nat : a = Mid + 1 /\ b = MaxChildNumber
    BY <1>5
  <2>2. ChildFrom(c, a, b, n) /\ b <= Len(c.key)
    BY <1>5, <1>7, <2>1
  <2>3. /\ n \in DOMAIN t.node
        /\ w.level[n] \in Nat /\ w.level[cur] = w.level[n] + 1
    BY <2>2, ChildFromIs
  <2> QED BY <1>3, <2>3
<1>8. /\ IsTree(t1)
      /\ t1.Root = t.Root /\ DOMAIN t1.node = DOMAIN t.node \cup {temp}
      /\ Has(t1.node[temp], c.isLeaf,
             SubSeq(c.key, Mid + 1, MaxChildNumber), SubSeq(c.child, Mid + 1, MaxChildNumber),
             F, NULL, NULL)
      /\ Has(t1.node[cur], c.isLeaf, SubSeq(c.key, 1, Mid), SubSeq(c.child, 1, Mid),
             F, c.next, c.last)
      /\ \A n \in DOMAIN t.node : n # cur =>
           Has(t1.node[n], t.node[n].isLeaf, t.node[n].key, t.node[n].child,
               IF ChildFrom(c, Mid + 1, MaxChildNumber, n) THEN temp ELSE t.node[n].father,
               t.node[n].next, t.node[n].last)
  <2>1. ~ChildFrom(c, Mid + 1, MaxChildNumber, temp) /\ ~ChildFrom(c, Mid + 1, MaxChildNumber, cur)
    BY <1>2, <1>7
  <2>2. Len(c.child) = MaxChildNumber
    BY <1>4
  <2>3. /\ IsTree(t1)
        /\ t1.Root = t.Root /\ DOMAIN t1.node = DOMAIN t.node \cup {temp}
        /\ Has(t1.node[temp], c.isLeaf,
               SubSeq(c.key, Mid + 1, MaxChildNumber), SubSeq(c.child, Mid + 1, MaxChildNumber),
               IF ChildFrom(c, Mid + 1, MaxChildNumber, temp) THEN temp ELSE c.father, NULL, NULL)
        /\ Has(t1.node[cur], c.isLeaf, SubSeq(c.key, 1, Mid), SubSeq(c.child, 1, Mid),
               IF ChildFrom(c, Mid + 1, MaxChildNumber, cur) THEN temp ELSE c.father,
               c.next, c.last)
        /\ \A n \in DOMAIN t.node : n # cur =>
             Has(t1.node[n], t.node[n].isLeaf, t.node[n].key, t.node[n].child,
                 IF ChildFrom(c, Mid + 1, MaxChildNumber, n) THEN temp ELSE t.node[n].father,
                 t.node[n].next, t.node[n].last)
    BY <1>1, <1>2, <1>6, <2>2, HalveIs
  <2> QED BY <2>1, <2>3
<1>9. PICK f : f = t.node[F]
  OBVIOUS
<1>10. t1.node[F] = f
  <2>1. ~ChildFrom(c, Mid + 1, MaxChildNumber, F)
    BY <1>7
  <2>2. Has(t1.node[F], f.isLeaf, f.key, f.child, f.father, f.next, f.last)
    BY <1>3, <1>8, <1>9, <2>1
  <2>3. t1.node[F] \in Node /\ f \in Node
    BY <1>1, <1>3, <1>8, <1>9 DEF IsTree
  <2> QED BY <2>2, <2>3, HasSame
<1>11. Mid + 1 \in 1..Len(c.key)
  BY <1>5
<1>12. t1.node[temp].key[1] = p
  <2>1. PICK ks, cs, a : ks = c.key /\ cs = c.child /\ a = Mid + 1
    OBVIOUS
  <2>2. Arrays(Cell, ks, cs) /\ a \in 1..Len(ks)
    BY <1>4, <1>11, <2>1
  <2>3. SubSeq(ks, a, Len(ks))[1] = ks[a]
    BY <2>2, OverKids
  <2>4. t1.node[temp].key = SubSeq(ks, a, Len(ks))
    BY <1>8, <2>1 DEF Has
  <2> QED BY <2>1, <2>3, <2>4
<1>13. PICK s1 : s1 = Enter(t1, F, p, temp)
  OBVIOUS
<1>14. s = s1
  BY <1>6, <1>12, <1>13 DEF Split
<1>15. PICK i : i = Place(f, p)
  OBVIOUS
<1>16. PICK ta : ta = PutAt(t1, F, i, p, temp)
  OBVIOUS
<1>17. /\ t1.node[f.child[1]].isLeaf => s1.tree = LinkLeaf(ta, F, i, temp)
       /\ ~t1.node[f.child[1]].isLeaf => s1.tree = ta
       /\ s1.cur = F
       /\ s1.full <=> Len(f.key) + 1 = MaxChildNumber
  <2>1. f = t1.node[F] /\ ~f.isLeaf
    BY <1>3, <1>9, <1>10
  <2>2. EnteredInner(t1, F, f, i, temp, ta, s1)
    BY <1>13, <1>15, <1>16, <2>1, EnterInnerIs
  <2> QED BY <2>2 DEF EnteredInner
<1>18. p \in Keys /\ p \in Int /\ p \in w.area[cur] /\ c.key[1] < p
  <2>1. p \in Keys /\ p \in Int
    BY <1>4, <1>11, AscendingUnique, TreeConstants
  <2>2. c.key[1] < p
    <3>1. 1 \in 1..Len(c.key) /\ 1 < Mid + 1
      BY <1>5
    <3> QED BY <1>4, <1>11, <3>1 DEF Ascending
  <2>3. \A j \in 1..Len(c.key) : c.key[j] \in DOMAIN w.kids[cur]
    BY NodeKids
  <2>4. DOMAIN w.kids[cur] \subseteq w.area[cur]
    BY <1>1, SoundFrame DEF Shape
  <2> QED BY <1>11, <2>1, <2>2, <2>3, <2>4
<1>19. /\ i \in 2..Len(f.key) + 1
       /\ f.child[i - 1] = cur
  BY <1>9, <1>15, <1>18, FatherPlace
<1>20. /\ f.key \in Seq(Keys) /\ f.child \in Seq(Cell) /\ Len(f.key) \in Nat
       /\ Len(f.child) = Len(f.key)
  BY <1>3, <1>9, SoundNode
<1>21. PICK fk : fk = InsertAt(f.key, i, p)
  OBVIOUS
<1>22. PICK fc : fc = InsertAt(f.child, i, temp)
  OBVIOUS
<1>23. /\ fk \in Seq(Keys) /\ fc \in Seq(Cell)
       /\ fc[i - 1] = cur
  <2>1. temp \in Cell
    BY <1>2 DEF Cell
  <2>2. i \in 1..Len(f.key) + 1 /\ i \in 1..Len(f.child) + 1
    BY <1>19, <1>20
  <2>3. fk \in Seq(Keys)
    BY <1>18, <1>20, <1>21, <2>2, InsertAtElements
  <2>4. fc \in Seq(Cell) /\ InsertedAt(fc, f.child, i, temp)
    BY <1>20, <1>22, <2>1, <2>2, InsertAtElements
  <2>5. i - 1 \in 1..Len(f.child) + 1 /\ i - 1 < i
    BY <1>19, <1>20
  <2>6. fc[i - 1] = f.child[i - 1]
    BY <2>4, <2>5 DEF InsertedAt
  <2> QED BY <1>19, <2>3, <2>4, <2>6
<1>24. ta = WithArrays(t1, F, fk, fc)
  <2>1. IsTree(t1) /\ F \in DOMAIN t1.node /\ f = t1.node[F]
    BY <1>3, <1>8, <1>10
  <2>2. PutAt(t1, F, i, p, temp) = WithArrays(t1, F, InsertAt(f.key, i, p), InsertAt(f.child, i, temp))
    BY <2>1, PutAtIs
  <2> QED BY <1>16, <1>21, <1>22, <2>2
<1>25. /\ IsTree(ta)
       /\ ta.Root = t1.Root /\ DOMAIN ta.node = DOMAIN t1.node
       /\ Has(ta.node[F], f.isLeaf, fk, fc, f.father, f.next, f.last)
       /\ \A n \in DOMAIN t1.node : n # F => ta.node[n] = t1.node[n]
  <2>1. IsTree(t1) /\ F \in DOMAIN t1.node /\ f = t1.node[F]
    BY <1>3, <1>8, <1>10
  <2>2. fk \in Seq(Keys) /\ fc \in Seq(Cell)
    BY <1>23
  <2>3. /\ IsTree(ta)
        /\ ta.Root = t1.Root /\ DOMAIN ta.node = DOMAIN t1.node
        /\ \A n \in DOMAIN t1.node : n # F => ta.node[n] = t1.node[n]
    BY <1>24, <2>1, <2>2, WithArraysIs
  <2>4. Has(ta.node[F], t1.node[F].isLeaf, fk, fc, t1.node[F].father, t1.node[F].next, t1.node[F].last)
    BY <1>24, <2>1, <2>2, WithArraysIs
  <2> QED BY <2>1, <2>3, <2>4
<1>26. t1.node[f.child[1]].isLeaf <=> c.isLeaf
  <2>1. PICK d : d = f.child[1]
    OBVIOUS
  <2>2. d \in DOMAIN t.node /\ (t.node[d].isLeaf <=> c.isLeaf)
    BY <1>3, <1>9, <2>1
  <2>3. CASE d = cur
    BY <1>8, <2>1, <2>3 DEF Has
  <2>4. CASE d # cur
    BY <1>8, <2>1, <2>2, <2>4 DEF Has
  <2> QED BY <2>3, <2>4
<1>27. cur \in DOMAIN ta.node /\ temp \in DOMAIN ta.node /\ F \in DOMAIN ta.node
  BY <1>3, <1>8, <1>25
<1>28. ta.node[cur] = t1.node[cur] /\ ta.node[temp] = t1.node[temp]
  BY <1>2, <1>3, <1>8, <1>25
<1>29. CASE ~c.isLeaf
  <2>1. s.tree = ta
    BY <1>14, <1>17, <1>26, <1>29
  <2>2. ASSUME NEW n \in DOMAIN t.node, n # cur, n # F
        PROVE  Has(ta.node[n], t.node[n].isLeaf, t.node[n].key, t.node[n].child,
                   IF ChildFrom(c, Mid + 1, MaxChildNumber, n) THEN temp ELSE t.node[n].father,
                   t.node[n].next, t.node[n].last)
    <3>1. ta.node[n] = t1.node[n]
      BY <1>8, <1>25, <2>2
    <3> QED BY <1>8, <2>2, <3>1
  <2>3. SplitNodes(t, ta, cur, temp, F, i)
    BY <1>8, <1>9, <1>21, <1>22, <1>25, <1>28, <1>29, <2>2 DEF SplitNodes
  <2> QED BY <1>9, <1>14, <1>15, <1>17, <2>1, <2>3
<1>30. CASE c.isLeaf
  <2>1. PICK tb : tb = LinkBetween(ta, cur, temp, c.next)
    OBVIOUS
  <2>2. s.tree = tb
    <3>1. s.tree = LinkLeaf(ta, F, i, temp)
      BY <1>14, <1>17, <1>26, <1>30
    <3>2. ta.node[F].child = fc
      BY <1>25 DEF Has
    <3>3. ta.node[F].child[i - 1] = cur /\ i # 1
      BY <1>19, <1>23, <3>2
    <3>4. ta.node[cur].next = c.next
      BY <1>8, <1>28 DEF Has
    <3>5. LinkLeaf(ta, F, i, temp) = LinkBetween(ta, cur, temp, c.next)
      BY <3>3, <3>4 DEF LinkLeaf
    <3> QED BY <2>1, <3>1, <3>5
  <2>3. /\ c.next = NULL \/ (c.next \in DOMAIN t.node /\ t.node[c.next].isLeaf)
        /\ c.next # cur
    BY <1>30, NodeNext
  <2>4. /\ c.next \in DOMAIN ta.node \/ c.next = NULL
        /\ c.next # temp /\ c.next # F
    BY <1>1, <1>2, <1>3, <1>8, <1>25, <2>3 DEF IsTree, NULL
  <2>5. PICK succ : succ = c.next
    OBVIOUS
  <2>6. /\ IsTree(tb)
        /\ tb.Root = ta.Root /\ DOMAIN tb.node = DOMAIN ta.node
        /\ LinkedIn(ta, tb, cur, temp, succ)
    <3>1. cur # temp
      BY <1>2
    <3>2. tb = LinkBetween(ta, cur, temp, succ) /\ (succ \in DOMAIN ta.node \/ succ = NULL) /\ succ # temp
      BY <2>1, <2>4, <2>5
    <3>3. IsTree(ta)
      BY <1>25
    <3> QED BY <1>27, <3>1, <3>2, <3>3, LinkBetweenIs
  <2>7. ASSUME NEW n \in DOMAIN ta.node
        PROVE  Has(tb.node[n], ta.node[n].isLeaf, ta.node[n].key, ta.node[n].child, ta.node[n].father,
                   IF n = cur THEN temp ELSE IF n = temp THEN succ ELSE ta.node[n].next,
                   IF n = temp THEN cur ELSE IF n = succ THEN temp ELSE ta.node[n].last)
    BY <2>6 DEF LinkedIn
  <2>8. Has(tb.node[temp], c.isLeaf,
            SubSeq(c.key, Mid + 1, MaxChildNumber), SubSeq(c.child, Mid + 1, MaxChildNumber),
            F, succ, cur)
    <3>1. temp # cur
      BY <1>2
    <3> QED BY <1>8, <1>27, <1>28, <2>7, <3>1, SMTT(40) DEF Has
  <2>9. Has(tb.node[cur], c.isLeaf, SubSeq(c.key, 1, Mid), SubSeq(c.child, 1, Mid),
            F, temp, c.last)
    <3>1. temp # cur /\ succ # cur
      BY <1>2, <2>3, <2>5
    <3> QED BY <1>8, <1>27, <1>28, <2>7, <3>1 DEF Has
  <2>10. Has(tb.node[F], f.isLeaf, fk, fc, f.father, f.next, f.last)
    <3>1. F # cur /\ F # temp /\ F # succ
      BY <1>2, <1>3, <2>4, <2>5
    <3> QED BY <1>25, <1>27, <2>7, <3>1 DEF Has
  <2>11. ASSUME NEW n \in DOMAIN t.node, n # cur, n # F
         PROVE  Has(tb.node[n], t.node[n].isLeaf, t.node[n].key, t.node[n].child,
                   IF ChildFrom(c, Mid + 1, MaxChildNumber, n) THEN temp ELSE t.node[n].father,
                   t.node[n].next, IF n = succ THEN temp ELSE t.node[n].last)
    <3>1. n \in DOMAIN ta.node /\ ta.node[n] = t1.node[n] /\ n # temp
      BY <1>2, <1>8, <1>25, <2>11
    <3>2. Has(t1.node[n], t.node[n].isLeaf, t.node[n].key, t.node[n].child,
              IF ChildFrom(c, Mid + 1, MaxChildNumber, n) THEN temp ELSE t.node[n].father,
              t.node[n].next, t.node[n].last)
      BY <1>8, <2>11
    <3> QED BY <2>7, <2>11, <3>1, <3>2 DEF Has
  <2>12. SplitNodes(t, tb, cur, temp, F, i)
    BY <1>8, <1>9, <1>21, <1>22, <1>25, <1>30, <2>5, <2>6, <2>8, <2>9, <2>10, <2>11 DEF SplitNodes
  <2> QED BY <1>9, <1>14, <1>15, <1>17, <2>2, <2>12
<1> QED BY <1>29, <1>30

-----------------------------------------------------------------------------
(* The halves of a node. *)

(* The children from position a on are those of the keys from p on. *)
AtFrom(cs, a, b, n) == \E i \in a..b : cs[i] = n
KidFrom(F, p, n) == \E k \in DOMAIN F : p <= k /\ F[k] = n
KeyAt(p, ks, i) == i \in 1..Len(ks) /\ p = ks[i]

(* The children at the upper positions are those of the upper keys. *)
LEMMA UpperChildren ==
  ASSUME NEW ks \in Seq(Keys), Ascending(ks), NEW cs, NEW F, Pairs(F, ks, cs), NEW a \in Nat,
         NEW b \in Nat, b = Len(ks), NEW p, KeyAt(p, ks, a), NEW n
  PROVE  AtFrom(cs, a, b, n) <=> KidFrom(F, p, n)
<1> USE DEF AtFrom, KidFrom, KeyAt
<1>1. ASSUME NEW i \in a..Len(ks), cs[i] = n
      PROVE  \E k \in DOMAIN F : ks[a] <= k /\ F[k] = n
  <2>1. i \in 1..Len(ks) /\ Len(ks) \in Nat
    OBVIOUS
  <2>2. ks[i] \in DOMAIN F /\ F[ks[i]] = n
    BY <1>1, <2>1 DEF Pairs
  <2>3. ks[i] \in Int /\ ks[a] \in Int
    BY <2>1, AscendingUnique
  <2>4. ks[a] <= ks[i]
    <3>1. CASE a = i
      BY <2>3, <3>1
    <3>2. CASE a < i
      <4>1. ks[a] < ks[i]
        BY <2>1, <3>2 DEF Ascending
      <4> QED BY <2>3, <4>1
    <3> QED BY <3>1, <3>2
  <2> QED BY <2>2, <2>4
<1>2. ASSUME NEW k \in DOMAIN F, ks[a] <= k, F[k] = n
      PROVE  \E i \in a..Len(ks) : cs[i] = n
  <2>1. PICK i \in 1..Len(ks) : ks[i] = k
    BY DEF Pairs
  <2>2. cs[i] = n
    BY <1>2, <2>1 DEF Pairs
  <2>3. a <= i
    BY <1>2, <2>1, AscendingUnique
  <2> QED BY <2>2, <2>3
<1> QED BY <1>1, <1>2

(* The records of a leaf are those of its keys. *)
Fits(isLeaf, ks, cs) ==
  isLeaf => \A i \in 1..Len(ks) : cs[i] \in {ks[i]} \X Versions[ks[i]]

(* What makes a node store its entries well. *)
LEMMA StoresIs ==
  ASSUME NEW nd, NEW isLeaf, NEW ks, NEW cs, nd.isLeaf = isLeaf, nd.key = ks, nd.child = cs,
         Arrays(Cell, ks, cs), Fits(isLeaf, ks, cs), isLeaf \/ Len(ks) # 0
  PROVE  Stores(nd)
BY DEF Stores, Fits

(* Arrays lk and lc hold G. *)
Holds(isLeaf, lk, lc, G) ==
  /\ Arrays(Cell, lk, lc) /\ Fits(isLeaf, lk, lc)
  /\ Kids(lk, lc) = G

(* lk and lc are the parts of ks and cs from a to b. *)
PartsOf(lk, lc, ks, cs, a, b) == lk = SubSeq(ks, a, b) /\ lc = SubSeq(cs, a, b)

(* The lower part of the arrays. *)
LEMMA UnderStores ==
  ASSUME NEW isLeaf, NEW ks, NEW cs, NEW F, Holds(isLeaf, ks, cs, F),
         NEW m \in Nat, m # 0, NEW m1 \in Nat, m1 = m + 1,
         NEW p, KeyAt(p, ks, m1), NEW lk, NEW lc, PartsOf(lk, lc, ks, cs, 1, m)
  PROVE  Len(lk) = m /\ Holds(isLeaf, lk, lc, Under(F, p))
<1> USE DEF Holds, KeyAt, PartsOf
<1>0. m \in 1..Len(ks) - 1
  BY DEF Arrays
<1>1. /\ Arrays(Cell, lk, lc)
      /\ Len(lk) = m
      /\ Kids(lk, lc) = Under(Kids(ks, cs), ks[m + 1])
  BY <1>0, UnderKids
<1>2. \A i \in 1..m : lk[i] = ks[i] /\ lc[i] = cs[i]
  <2>1. ks \in Seq(Keys) /\ cs \in Seq(Cell) /\ Len(cs) = Len(ks)
    BY DEF Arrays
  <2> QED BY <1>0, <2>1
<1>3. m \in 1..Len(ks) /\ \A i \in 1..m : i \in 1..Len(ks)
  <2>1. ks \in Seq(Keys)
    BY DEF Arrays
  <2> QED BY <1>0, <2>1
<1>4. Fits(isLeaf, lk, lc)
  BY <1>1, <1>2, <1>3 DEF Fits
<1> QED BY <1>1, <1>4 DEF Holds

(* The upper part of the arrays. *)
LEMMA OverStores ==
  ASSUME NEW isLeaf, NEW ks, NEW cs, NEW F, Holds(isLeaf, ks, cs, F),
         NEW m \in Nat, NEW b \in Nat, b = Len(ks),
         NEW p, KeyAt(p, ks, m), NEW lk, NEW lc, PartsOf(lk, lc, ks, cs, m, b)
  PROVE  Len(lk) = b - m + 1 /\ lk[1] = p /\ Holds(isLeaf, lk, lc, Over(F, p))
<1> USE DEF Holds, KeyAt, PartsOf
<1>0. m \in 1..Len(ks)
  OBVIOUS
<1>1. /\ Arrays(Cell, lk, lc)
      /\ Len(lk) = Len(ks) - m + 1
      /\ lk[1] = ks[m]
      /\ Kids(lk, lc) = Over(Kids(ks, cs), ks[m])
  BY <1>0, OverKids
<1>2. ks \in Seq(Keys) /\ cs \in Seq(Cell) /\ Len(cs) = Len(ks) /\ Len(ks) \in Nat
  BY DEF Arrays
<1>3. \A i \in 1..Len(ks) - m + 1 : lk[i] = ks[m + i - 1] /\ lc[i] = cs[m + i - 1] /\ m + i - 1 \in 1..Len(ks)
  BY <1>0, <1>2
<1>4. Fits(isLeaf, lk, lc)
  BY <1>1, <1>3 DEF Fits
<1> QED BY <1>1, <1>4 DEF Holds

(* A node of a sound tree stores its entries well. *)
LEMMA SoundFits ==
  ASSUME NEW t, NEW w, Sound(t, w), NEW n, n \in DOMAIN t.node, NEW nd, nd = t.node[n]
  PROVE  Stores(nd) /\ Arrays(Cell, nd.key, nd.child) /\ Fits(nd.isLeaf, nd.key, nd.child)
BY DEF Sound, Stores, Fits

(* Key x belongs at position i. *)
BelongsAt(ks, i, x) ==
  i \in 1..Len(ks) + 1 /\ \A j \in 1..Len(ks) : (j < i => ks[j] < x) /\ (i <= j => x < ks[j])
PutIntoAt(gk, gc, ks, cs, i, x, v) == gk = InsertAt(ks, i, x) /\ gc = InsertAt(cs, i, v)

(* The arrays with one more entry. *)
LEMMA InsertStores ==
  ASSUME NEW isLeaf, ~isLeaf, NEW ks, NEW cs, NEW F, Holds(isLeaf, ks, cs, F),
         NEW x \in Keys, NEW v \in Cell, NEW i, BelongsAt(ks, i, x),
         NEW gk, NEW gc, PutIntoAt(gk, gc, ks, cs, i, x, v)
  PROVE  Len(gk) = Len(ks) + 1 /\ Holds(isLeaf, gk, gc, Plus(F, x, v))
<1> USE DEF Holds, BelongsAt, PutIntoAt
<1>1. i \in 1..Len(ks) + 1 /\ \A j \in 1..Len(ks) : (j < i => ks[j] < x) /\ (i <= j => x < ks[j])
  OBVIOUS
<1>2. /\ Arrays(Cell, gk, gc)
      /\ Len(gk) = Len(ks) + 1
      /\ Kids(gk, gc) = Plus(Kids(ks, cs), x, v)
  BY <1>1, InsertKids
<1>3. Fits(isLeaf, gk, gc)
  BY DEF Fits
<1> QED BY <1>2, <1>3

(* What a node holds, and what makes it one. *)
LEMMA SoundHolds ==
  ASSUME NEW t, NEW w, Sound(t, w), NEW n, n \in DOMAIN t.node, NEW nd, nd = t.node[n]
  PROVE  Holds(nd.isLeaf, nd.key, nd.child, w.kids[n])
BY SoundFits, SoundNode DEF Holds

(* And what makes a node hold them. *)
LEMMA HoldsStores ==
  ASSUME NEW nd, NEW F, Holds(nd.isLeaf, nd.key, nd.child, F), nd.isLeaf \/ Len(nd.key) # 0
  PROVE  Stores(nd) /\ Kids(nd.key, nd.child) = F
BY DEF Holds, Stores, Fits

(* Where the father has a key above those of the left half. *)
LEMMA FatherSlot ==
  ASSUME NEW t, NEW w, Sound(t, w), NEW c, c \in DOMAIN t.node, c # t.Root,
         NEW F, F = t.node[c].father, NEW f, f = t.node[F],
         NEW x \in Keys, x \in w.area[c], t.node[c].key[1] < x,
         NEW i, i = Place(f, x)
  PROVE  BelongsAt(f.key, i, x)
<1>1. /\ i \in 2..Len(f.key) + 1
      /\ \A j \in 1..Len(f.key) : (j < i => f.key[j] < x) /\ (i <= j => x < f.key[j])
  BY FatherPlace
<1>2. Len(f.key) \in Nat
  BY NodeFather, SoundNode
<1>3. i \in 1..Len(f.key) + 1
  BY <1>1, <1>2
<1> QED BY <1>1, <1>3 DEF BelongsAt

-----------------------------------------------------------------------------
(* Node nd, as a view shows it. *)
Shows(nd, isLeaf, K, father, next, last) ==
  /\ Stores(nd) /\ (nd.isLeaf <=> isLeaf) /\ Kids(nd.key, nd.child) = K
  /\ nd.father = father /\ nd.next = next /\ nd.last = last

SplitLevel(w, cur, temp) ==
  [n \in w.nodes \cup {temp} |-> IF n = temp THEN w.level[cur] ELSE w.level[n]]
SplitArea(w, cur, temp, p) ==
  [n \in w.nodes \cup {temp} |-> IF n = temp THEN {x \in w.area[cur] : p <= x}
                                 ELSE IF n = cur THEN {x \in w.area[cur] : x < p} ELSE w.area[n]]

(* What t2 is when, in the tree that w shows, node cur is cut at its key p *)
(* and temp gets what is not below p.                                      *)
IsCut(w, t2, cur, temp, p) ==
  /\ IsTree(t2)
  /\ t2.Root = w.root
  /\ DOMAIN t2.node = w.nodes \cup {temp}
  /\ Shows(t2.node[temp], w.level[cur] = 0, Over(w.kids[cur], p), w.father[cur],
           IF w.level[cur] = 0 THEN w.next[cur] ELSE NULL, IF w.level[cur] = 0 THEN cur ELSE NULL)
  /\ Shows(t2.node[cur], w.level[cur] = 0, Under(w.kids[cur], p), w.father[cur],
           IF w.level[cur] = 0 THEN temp ELSE w.next[cur], w.last[cur])
  /\ Shows(t2.node[w.father[cur]], FALSE, Plus(w.kids[w.father[cur]], p, temp),
           w.father[w.father[cur]], w.next[w.father[cur]], w.last[w.father[cur]])
  /\ \A n \in w.nodes : n # cur /\ n # w.father[cur] =>
       Shows(t2.node[n], w.level[n] = 0, w.kids[n],
             IF w.level[cur] # 0 /\ KidFrom(w.kids[cur], p, n) THEN temp ELSE w.father[n], w.next[n],
             IF w.level[cur] = 0 /\ n = w.next[cur] THEN temp ELSE w.last[n])

CutDone(w, t2, w2, cur, temp) ==
  Sound(t2, w2) /\ SameHeld(w, w2) /\ w2.level = SplitLevel(w, cur, temp)

(* A tree that is cut so is sound. *)
LEMMA CutSound ==
  ASSUME NEW w, Shape(w), Linked(w), NEW cur \in w.nodes, cur # w.root,
         NEW temp \in Nat \ {0}, temp \notin w.nodes,
         NEW p \in Int, p \in DOMAIN w.kids[cur], NEW kc \in Int, LeastKey(w, cur, kc), kc # p,
         NEW t2, IsCut(w, t2, cur, temp, p)
  PROVE  \E w2 : CutDone(w, t2, w2, cur, temp)
<1>1. PICK F : F = w.father[cur]
  OBVIOUS
<1>2. PICK K, L : K = w.kids[cur] /\ L = w.kids[F]
  OBVIOUS
<1>3. /\ IsTree(t2)
      /\ t2.Root = w.root
      /\ DOMAIN t2.node = w.nodes \cup {temp}
  BY DEF IsCut
<1>4. /\ F \in w.nodes /\ F # cur /\ F # temp /\ cur # temp
      /\ w.level[F] \in Nat /\ w.level[cur] \in Nat /\ w.level[F] = w.level[cur] + 1
  BY <1>1, FatherEdge
<1>5. Shows(t2.node[temp], w.level[cur] = 0, Over(K, p), F,
            IF w.level[cur] = 0 THEN w.next[cur] ELSE NULL, IF w.level[cur] = 0 THEN cur ELSE NULL)
  BY <1>1, <1>2 DEF IsCut
<1>6. Shows(t2.node[cur], w.level[cur] = 0, Under(K, p), F,
            IF w.level[cur] = 0 THEN temp ELSE w.next[cur], w.last[cur])
  BY <1>1, <1>2 DEF IsCut
<1>7. Shows(t2.node[F], FALSE, Plus(L, p, temp), w.father[F], w.next[F], w.last[F])
  BY <1>1, <1>2 DEF IsCut
<1>8. ASSUME NEW n \in w.nodes, n # cur, n # F
      PROVE  Shows(t2.node[n], w.level[n] = 0, w.kids[n],
                   IF w.level[cur] # 0 /\ KidFrom(K, p, n) THEN temp ELSE w.father[n], w.next[n],
                   IF w.level[cur] = 0 /\ n = w.next[cur] THEN temp ELSE w.last[n])
  BY <1>1, <1>2, <1>8 DEF IsCut
<1>9. ASSUME NEW n \in w.nodes, n = cur \/ n = F
      PROVE  ~(w.level[cur] # 0 /\ KidFrom(K, p, n))
  <2>1. ASSUME w.level[cur] # 0, NEW k \in DOMAIN w.kids[cur], w.kids[cur][k] = n
        PROVE  w.level[n] \in Nat /\ w.level[cur] = w.level[n] + 1
    BY <2>1, ChildEdge
  <2> QED BY <1>2, <1>4, <1>9, <2>1 DEF KidFrom
<1>10. PICK lv, ar : lv = SplitLevel(w, cur, temp) /\ ar = SplitArea(w, cur, temp, p)
  OBVIOUS
<1>11. PICK w2 : w2 = View(t2, lv, ar)
  OBVIOUS
<1>12. /\ w2.nodes = DOMAIN t2.node /\ w2.root = w.root
       /\ w2.level = lv /\ w2.area = ar
       /\ \A n \in DOMAIN t2.node : /\ w2.kids[n] = Kids(t2.node[n].key, t2.node[n].child)
                                    /\ w2.father[n] = t2.node[n].father
                                    /\ w2.next[n] = t2.node[n].next
                                    /\ w2.last[n] = t2.node[n].last
  BY <1>3, <1>11, ViewIs
<1>13. /\ lv[temp] = w.level[cur]
       /\ \A n \in w.nodes : lv[n] = w.level[n]
  BY <1>10 DEF SplitLevel
<1>14. /\ w2.kids[temp] = Over(K, p) /\ w2.father[temp] = F
       /\ w2.next[temp] = IF w.level[cur] = 0 THEN w.next[cur] ELSE NULL
       /\ w2.last[temp] = IF w.level[cur] = 0 THEN cur ELSE NULL
       /\ Stores(t2.node[temp]) /\ (t2.node[temp].isLeaf <=> w.level[cur] = 0)
  <2>1. temp \in DOMAIN t2.node
    BY <1>3
  <2> QED BY <1>5, <1>12, <2>1 DEF Shows
<1>15. /\ w2.kids[cur] = Under(K, p) /\ w2.father[cur] = F
       /\ w2.next[cur] = IF w.level[cur] = 0 THEN temp ELSE w.next[cur]
       /\ w2.last[cur] = w.last[cur]
       /\ Stores(t2.node[cur]) /\ (t2.node[cur].isLeaf <=> w.level[cur] = 0)
  <2>1. cur \in DOMAIN t2.node
    BY <1>3
  <2> QED BY <1>6, <1>12, <2>1 DEF Shows
<1>16. /\ w2.kids[F] = Plus(L, p, temp) /\ w2.father[F] = w.father[F]
       /\ w2.next[F] = w.next[F]
       /\ w2.last[F] = w.last[F]
       /\ Stores(t2.node[F]) /\ ~t2.node[F].isLeaf
  <2>1. F \in DOMAIN t2.node
    BY <1>3, <1>4
  <2> QED BY <1>7, <1>12, <2>1 DEF Shows
<1>17. ASSUME NEW n \in w.nodes, n # cur, n # F
       PROVE  /\ w2.kids[n] = w.kids[n]
              /\ w2.father[n] = IF w.level[cur] # 0 /\ KidFrom(K, p, n) THEN temp ELSE w.father[n]
              /\ w2.next[n] = w.next[n]
              /\ w2.last[n] = IF w.level[cur] = 0 /\ n = w.next[cur] THEN temp ELSE w.last[n]
              /\ Stores(t2.node[n]) /\ (t2.node[n].isLeaf <=> w.level[n] = 0)
  <2>1. n \in DOMAIN t2.node
    BY <1>3
  <2> QED BY <1>8, <1>12, <1>17, <2>1 DEF Shows
<1>18. SplitView(w, w2, cur, temp, p)
  <2>1. w2.nodes = w.nodes \cup {temp} /\ w2.root = w.root
    BY <1>3, <1>12
  <2>2. \A n \in w.nodes : n # cur /\ n # w.father[cur] => w2.kids[n] = w.kids[n]
    BY <1>1, <1>17
  <2>3. ASSUME NEW n \in w.nodes
        PROVE  w2.father[n] = IF w.level[cur] # 0 /\ KidFrom(K, p, n) THEN temp ELSE w.father[n]
    <3>1. CASE n = cur
      BY <1>1, <1>9, <1>15, <3>1
    <3>2. CASE n = F
      BY <1>9, <1>16, <3>2
    <3>3. CASE n # cur /\ n # F
      BY <1>17, <3>3
    <3> QED BY <3>1, <3>2, <3>3
  <2>4. w2.level = [n \in w2.nodes |-> IF n = temp THEN w.level[cur] ELSE w.level[n]]
    BY <1>10, <1>12, <2>1 DEF SplitLevel
  <2>5. w2.area = [n \in w2.nodes |-> IF n = temp THEN {x \in w.area[cur] : p <= x}
                                     ELSE IF n = cur THEN {x \in w.area[cur] : x < p} ELSE w.area[n]]
    BY <1>10, <1>12, <2>1 DEF SplitArea
  <2>6. \A n \in w.nodes :
          w2.father[n] = IF w.level[cur] # 0 /\ \E k \in DOMAIN w.kids[cur] : p <= k /\ w.kids[cur][k] = n
                           THEN temp ELSE w.father[n]
    BY <1>2, <2>3 DEF KidFrom
  <2> QED BY <1>1, <1>2, <1>14, <1>15, <1>16, <2>1, <2>2, <2>4, <2>5, <2>6 DEF SplitView
<1>19. LeastOf(DOMAIN w.kids[cur], kc)
  BY DEF LeastKey
<1>20. Shape(w2)
  BY <1>18, <1>19, SplitShape
<1>21. SameHeld(w, w2)
  BY <1>18, SplitHeld
<1>22. temp # NULL
  BY DEF NULL
<1>23. ASSUME w.level[cur] = 0
       PROVE  Linked(w2)
  <2>1. PICK a : a = w.next[cur]
    OBVIOUS
  <2>2. a # cur /\ a # temp /\ a # F
    <3>1. OnChain(w, cur) /\ Leaf(w, cur) /\ NULL \notin w.nodes
      BY <1>23 DEF Linked, Leaf
    <3>2. a = NULL \/ Leaf(w, a)
      BY <2>1, <3>1 DEF OnChain
    <3>3. a # cur
      <4>1. ~Adjacent(w, cur, cur)
        BY DEF Adjacent
      <4> QED BY <2>1, <3>1, <4>1 DEF Linked
    <3> QED BY <1>4, <1>22, <1>23, <3>1, <3>2, <3>3 DEF Leaf
  <2>3. ASSUME NEW n \in w2.nodes
        PROVE  /\ w2.next[n] = IF n = temp THEN a ELSE IF n = cur THEN temp ELSE w.next[n]
               /\ w2.last[n] = IF n = temp THEN cur ELSE IF n = a THEN temp ELSE w.last[n]
    <3>1. CASE n = temp
      BY <1>14, <1>23, <2>1, <3>1
    <3>2. CASE n = cur
      BY <1>4, <1>15, <1>23, <2>1, <2>2, <3>2
    <3>3. CASE n = F
      BY <1>4, <1>16, <2>2, <3>3
    <3>4. CASE n # temp /\ n # cur /\ n # F
      <4>1. n \in w.nodes
        BY <1>3, <1>12, <3>4
      <4> QED BY <1>17, <1>23, <2>1, <3>4, <4>1
    <3> QED BY <3>1, <3>2, <3>3, <3>4
  <2>4. SplitLinks(w, w2, cur, temp)
    BY <2>1, <2>3 DEF SplitLinks
  <2> QED BY <1>18, <1>19, <1>22, <1>23, <2>4, SplitLinked
<1>24. ASSUME w.level[cur] # 0
       PROVE  Linked(w2)
  <2>1. SameLinks(w, w2)
    BY <1>15, <1>16, <1>17, <1>24 DEF SameLinks
  <2>2. w2.next[temp] = NULL /\ w2.last[temp] = NULL
    BY <1>14, <1>24
  <2> QED BY <1>18, <1>22, <1>24, <2>1, <2>2, SplitInnerLinked
<1>25. Linked(w2)
  BY <1>23, <1>24
<1>26. ASSUME NEW n \in DOMAIN t2.node
       PROVE  Stores(t2.node[n]) /\ (t2.node[n].isLeaf <=> lv[n] = 0)
  BY <1>3, <1>4, <1>13, <1>14, <1>15, <1>16, <1>17
<1>27. Sound(t2, w2)
  BY <1>3, <1>11, <1>20, <1>25, <1>26, SoundFrom
<1>28. CutDone(w, t2, w2, cur, temp)
  BY <1>10, <1>12, <1>21, <1>27 DEF CutDone
<1> QED BY <1>28

-----------------------------------------------------------------------------
(* A full root is split. *)
RootPut(t, t2, cur, temp, root) ==
  \A n \in DOMAIN t.node :
    Has(t2.node[n], t.node[n].isLeaf, t.node[n].key, t.node[n].child,
        IF n \in {cur, temp} THEN root ELSE t.node[n].father,
        IF n = cur /\ t.node[cur].isLeaf THEN temp ELSE t.node[n].next,
        IF n = temp /\ t.node[cur].isLeaf THEN cur ELSE t.node[n].last)

TopIs(nd, k, p, a, b) == Has(nd, FALSE, <<k, p>>, <<a, b>>, NULL, NULL, NULL)

(* What PutRoot does. *)
LEMMA PutRootIs ==
  ASSUME NEW t, IsTree(t), NEW cur, cur \in DOMAIN t.node, NEW temp, temp \in DOMAIN t.node, cur # temp,
         NEW root \in Nat \ {0}, root \notin DOMAIN t.node,
         NEW k \in Keys, k = t.node[cur].key[1], NEW p \in Keys, p = t.node[temp].key[1],
         NEW t2, t2 = PutRoot(t, cur, temp, root)
  PROVE  /\ IsTree(t2)
         /\ t2.Root = root /\ DOMAIN t2.node = DOMAIN t.node \cup {root}
         /\ TopIs(t2.node[root], k, p, cur, temp)
         /\ RootPut(t, t2, cur, temp, root)
<1> USE DEF TopIs
<1>1. PICK D : D = DOMAIN t.node
  OBVIOUS
<1>2. t \in [Root : Nat, node : [D -> Node]] /\ D \subseteq Nat \ {0} /\ IsFiniteSet(D)
      /\ cur \in D /\ temp \in D /\ cur \in Nat /\ temp \in Nat
  BY <1>1 DEF IsTree
<1>3. PICK top : top = NewNode(FALSE, <<k, p>>, <<cur, temp>>, NULL)
  OBVIOUS
<1>4. top \in Node /\ Has(top, FALSE, <<k, p>>, <<cur, temp>>, NULL, NULL, NULL)
  <2>1. cur \in Cell /\ temp \in Cell
    BY <1>2 DEF Cell
  <2>2. <<k, p>> \in Seq(Keys) /\ <<cur, temp>> \in Seq(Cell)
    BY <2>1
  <2> QED BY <1>3, <2>2 DEF Node, NewNode, Has, NULL
<1>5. PICK E : E = D \cup {root}
  OBVIOUS
<1>6. PICK t1 : t1 = [Root |-> root,
                      node |-> [n \in E |-> IF n = root THEN top ELSE t.node[n]]]
  OBVIOUS
<1>7. PICK ta : ta = Adopt(t1, {cur, temp}, root)
  OBVIOUS
<1>8. t2 = IF t.node[cur].isLeaf THEN WithLast(WithNext(ta, cur, temp), temp, cur) ELSE ta
  <2>1. t1 = [Root |-> root,
              node |-> [n \in DOMAIN t.node \cup {root} |->
                          IF n = root THEN NewNode(FALSE, <<t.node[cur].key[1], t.node[temp].key[1]>>, <<cur, temp>>, NULL)
                          ELSE t.node[n]]]
    BY <1>1, <1>3, <1>5, <1>6
  <2>2. [ta EXCEPT !.node[cur].next = temp, !.node[temp].last = cur]
          = WithLast(WithNext(ta, cur, temp), temp, cur)
    BY DEF WithNext, WithLast
  <2> QED BY <1>7, <2>1, <2>2 DEF PutRoot
<1>9. t1.node \in [E -> Node] /\ t1.Root = root /\ t1 \in [Root : Nat, node : [E -> Node]]
  BY <1>2, <1>4, <1>5, <1>6
<1>10. IsTree(t1) /\ DOMAIN t1.node = E
  <2>1. DOMAIN t1.node = E
    BY <1>9
  <2>2. E \subseteq Nat \ {0} /\ IsFiniteSet(E)
    BY <1>2, <1>5, FS_AddElement
  <2> QED BY <1>9, <2>1, <2>2 DEF IsTree
<1>11. t1.node[root] = top /\ \A n \in D : t1.node[n] = t.node[n]
  BY <1>1, <1>5, <1>6
<1>12. /\ IsTree(ta)
       /\ ta.Root = root /\ DOMAIN ta.node = E
       /\ \A n \in E :
            Has(ta.node[n], t1.node[n].isLeaf, t1.node[n].key, t1.node[n].child,
                IF n \in {cur, temp} THEN root ELSE t1.node[n].father,
                t1.node[n].next, t1.node[n].last)
  <2>1. /\ IsTree(ta)
        /\ ta.Root = t1.Root /\ DOMAIN ta.node = DOMAIN t1.node
        /\ \A n \in DOMAIN t1.node :
             Has(ta.node[n], t1.node[n].isLeaf, t1.node[n].key, t1.node[n].child,
                 IF n \in {cur, temp} THEN root ELSE t1.node[n].father,
                 t1.node[n].next, t1.node[n].last)
    BY <1>7, <1>10, AdoptIs
  <2> QED BY <1>9, <1>10, <2>1
<1>13. Has(ta.node[root], FALSE, <<k, p>>, <<cur, temp>>, NULL, NULL, NULL)
  <2>1. root # cur /\ root # temp /\ root \in E
    BY <1>1, <1>2, <1>5
  <2>2. Has(ta.node[root], top.isLeaf, top.key, top.child, top.father, top.next, top.last)
    BY <1>11, <1>12, <2>1
  <2> QED BY <1>4, <2>2 DEF Has
<1>14. ASSUME NEW n \in D
       PROVE  Has(ta.node[n], t.node[n].isLeaf, t.node[n].key, t.node[n].child,
                  IF n \in {cur, temp} THEN root ELSE t.node[n].father, t.node[n].next, t.node[n].last)
  <2>1. n \in E /\ t1.node[n] = t.node[n]
    BY <1>5, <1>11
  <2> QED BY <1>12, <2>1
<1>15. CASE ~t.node[cur].isLeaf
  <2>1. t2 = ta
    BY <1>8, <1>15
  <2>2. RootPut(t, ta, cur, temp, root)
    BY <1>1, <1>14, <1>15 DEF RootPut
  <2> QED BY <1>1, <1>5, <1>12, <1>13, <2>1, <2>2
<1>16. CASE t.node[cur].isLeaf
  <2>1. PICK tb : tb = WithNext(ta, cur, temp)
    OBVIOUS
  <2>2. /\ IsTree(tb) /\ tb.Root = root /\ DOMAIN tb.node = E
        /\ \A n \in E :
             Has(tb.node[n], ta.node[n].isLeaf, ta.node[n].key, ta.node[n].child,
                 ta.node[n].father, IF n = cur THEN temp ELSE ta.node[n].next, ta.node[n].last)
    <3>1. cur \in DOMAIN ta.node
      BY <1>2, <1>5, <1>12
    <3>2. /\ IsTree(tb) /\ tb.Root = ta.Root /\ DOMAIN tb.node = DOMAIN ta.node
          /\ \A n \in DOMAIN ta.node :
               Has(tb.node[n], ta.node[n].isLeaf, ta.node[n].key, ta.node[n].child,
                   ta.node[n].father, IF n = cur THEN temp ELSE ta.node[n].next, ta.node[n].last)
      BY <1>2, <1>12, <2>1, <3>1, WithNextIs
    <3> QED BY <1>12, <3>2
  <2>3. /\ IsTree(t2) /\ t2.Root = root /\ DOMAIN t2.node = E
        /\ \A n \in E :
             Has(t2.node[n], tb.node[n].isLeaf, tb.node[n].key, tb.node[n].child,
                 tb.node[n].father, tb.node[n].next, IF n = temp THEN cur ELSE tb.node[n].last)
    <3>1. temp \in DOMAIN tb.node /\ t2 = WithLast(tb, temp, cur)
      BY <1>2, <1>5, <1>8, <1>16, <2>1, <2>2
    <3>2. /\ IsTree(t2) /\ t2.Root = tb.Root /\ DOMAIN t2.node = DOMAIN tb.node
          /\ \A n \in DOMAIN tb.node :
               Has(t2.node[n], tb.node[n].isLeaf, tb.node[n].key, tb.node[n].child,
                   tb.node[n].father, tb.node[n].next, IF n = temp THEN cur ELSE tb.node[n].last)
      BY <1>2, <2>2, <3>1, WithLastIs
    <3> QED BY <2>2, <3>2
  <2>4. Has(t2.node[root], FALSE, <<k, p>>, <<cur, temp>>, NULL, NULL, NULL)
    <3>1. root # cur /\ root # temp /\ root \in E
      BY <1>1, <1>2, <1>5
    <3> QED BY <1>13, <2>2, <2>3, <3>1 DEF Has
  <2>5. ASSUME NEW n \in D
        PROVE  Has(t2.node[n], t.node[n].isLeaf, t.node[n].key, t.node[n].child,
                  IF n \in {cur, temp} THEN root ELSE t.node[n].father,
                  IF n = cur THEN temp ELSE t.node[n].next, IF n = temp THEN cur ELSE t.node[n].last)
    <3>1. n \in E
      BY <1>5
    <3> QED BY <1>14, <2>2, <2>3, <3>1 DEF Has
  <2>6. RootPut(t, t2, cur, temp, root)
    BY <1>1, <1>16, <2>5 DEF RootPut
  <2> QED BY <1>1, <1>5, <2>3, <2>4, <2>6
<1> QED BY <1>15, <1>16

-----------------------------------------------------------------------------
(* The halves of a full node. *)
LowerKey(c) == SubSeq(c.key, 1, Mid)
LowerChild(c) == SubSeq(c.child, 1, Mid)
UpperKey(c) == SubSeq(c.key, Mid + 1, MaxChildNumber)
UpperChild(c) == SubSeq(c.child, Mid + 1, MaxChildNumber)

MiddleKey(w, cur, c, p) ==
  /\ p \in Keys /\ p \in Int /\ p \in DOMAIN w.kids[cur] /\ p \in w.area[cur]
  /\ c.key[1] \in Keys /\ c.key[1] \in Int /\ c.key[1] < p /\ LeastKey(w, cur, c.key[1])

HalvesHold(w, cur, c, p) ==
  /\ Len(LowerKey(c)) = Mid /\ Len(UpperKey(c)) = Mid
  /\ LowerKey(c)[1] = c.key[1] /\ UpperKey(c)[1] = p
  /\ Holds(c.isLeaf, LowerKey(c), LowerChild(c), Under(w.kids[cur], p))
  /\ Holds(c.isLeaf, UpperKey(c), UpperChild(c), Over(w.kids[cur], p))
  /\ \A n : ChildFrom(c, Mid + 1, MaxChildNumber, n) <=> (w.level[cur] # 0 /\ KidFrom(w.kids[cur], p, n))

(* The halves hold what is below the middle key and the rest. *)
LEMMA HalvesAre ==
  ASSUME NEW t, NEW w, Sound(t, w), NEW cur, cur \in DOMAIN t.node,
         NEW c, c = t.node[cur], Len(c.key) = MaxChildNumber, NEW p, p = c.key[Mid + 1]
  PROVE  MiddleKey(w, cur, c, p) /\ HalvesHold(w, cur, c, p)
<1>1. Shape(w) /\ w.nodes = DOMAIN t.node
  BY SoundFrame
<1>3. /\ Mid \in Nat /\ Mid >= 2 /\ MaxChildNumber = 2 * Mid /\ MaxChildNumber \in Nat
  BY HalfIs
<1>4. PICK ks, cs, lf : ks = c.key /\ cs = c.child /\ lf = c.isLeaf
  OBVIOUS
<1>6. /\ ks \in Seq(Keys) /\ cs \in Seq(Cell) /\ Len(ks) \in Nat /\ Ascending(ks)
      /\ Len(ks) = MaxChildNumber
      /\ c.isLeaf <=> w.level[cur] = 0
  BY <1>4, SoundNode
<1>7. PICK K : K = w.kids[cur]
  OBVIOUS
<1>8. Holds(lf, ks, cs, K)
  BY <1>4, <1>7, SoundHolds
<1>10. PICK m \in Nat, m1 \in Nat, b \in Nat : m = Mid /\ m1 = m + 1 /\ b = Len(ks)
  BY <1>3, <1>6
<1>11. PICK lk, lc, rk, rc : PartsOf(lk, lc, ks, cs, 1, m) /\ PartsOf(rk, rc, ks, cs, m1, b)
  BY DEF PartsOf
<1>12. KeyAt(p, ks, m1) /\ m # 0 /\ b - m1 + 1 = m /\ b = MaxChildNumber
  BY <1>3, <1>4, <1>6, <1>10 DEF KeyAt
<1>13. Len(lk) = m /\ Holds(lf, lk, lc, Under(K, p))
  BY <1>8, <1>10, <1>11, <1>12, UnderStores
<1>13a. Len(rk) = b - m1 + 1 /\ rk[1] = p /\ Holds(lf, rk, rc, Over(K, p))
  <2>1. KeyAt(p, ks, m1) /\ Holds(lf, ks, cs, K) /\ b = Len(ks) /\ PartsOf(rk, rc, ks, cs, m1, b)
    BY <1>8, <1>10, <1>11, <1>12
  <2> HIDE <1>8, <1>10, <1>11, <1>12
  <2> QED BY <2>1, OverStores
<1>14. PICK kc : kc = ks[1]
  OBVIOUS
<1>15. /\ p \in Keys /\ p \in Int /\ p \in DOMAIN w.kids[cur] /\ p \in w.area[cur] /\ kc < p /\ kc # p
       /\ kc \in Keys /\ kc \in Int /\ LeastKey(w, cur, kc)
  <2>1. p = ks[m1] /\ m1 \in 1..Len(ks) /\ 1 \in 1..Len(ks) /\ 1 < m1
    BY <1>3, <1>10, <1>12 DEF KeyAt
  <2>2. p \in Keys /\ p \in Int /\ kc \in Int /\ kc \in Keys
    BY <1>6, <1>14, <2>1, AscendingUnique
  <2>3. kc < p
    BY <1>6, <1>14, <2>1 DEF Ascending
  <2>4. /\ \A j \in 1..Len(ks) : ks[j] \in DOMAIN w.kids[cur]
        /\ Len(ks) # 0 => LeastKey(w, cur, ks[1])
    BY <1>4, NodeKids
  <2>5. p \in DOMAIN w.kids[cur] /\ LeastKey(w, cur, kc)
    BY <1>14, <2>1, <2>4
  <2>6. DOMAIN w.kids[cur] \subseteq w.area[cur]
    BY <1>1 DEF Shape
  <2> QED BY <2>2, <2>3, <2>5, <2>6
<1>20. ASSUME NEW n
       PROVE  ChildFrom(c, Mid + 1, MaxChildNumber, n) <=> (w.level[cur] # 0 /\ KidFrom(K, p, n))
  <2>1. Pairs(K, ks, cs)
    BY <1>4, <1>7, NodePairs
  <2>2. AtFrom(cs, m1, b, n) <=> KidFrom(K, p, n)
    BY <1>6, <1>10, <1>12, <2>1, UpperChildren
  <2>3. m1 = Mid + 1 /\ b = MaxChildNumber /\ cs = c.child
    BY <1>4, <1>10, <1>12
  <2> QED BY <1>6, <1>7, <2>2, <2>3 DEF ChildFrom, AtFrom, KidFrom
<1>21. lk = LowerKey(c) /\ lc = LowerChild(c) /\ rk = UpperKey(c) /\ rc = UpperChild(c)
  BY <1>4, <1>10, <1>11, <1>12 DEF PartsOf, LowerKey, LowerChild, UpperKey, UpperChild
<1>22. lk[1] = kc
  <2>1. lk = SubSeq(ks, 1, m) /\ 1 \in 1..m /\ m <= Len(ks)
    BY <1>3, <1>6, <1>10, <1>11 DEF PartsOf
  <2> QED BY <1>6, <1>14, <2>1
<1>23. MiddleKey(w, cur, c, p)
  BY <1>4, <1>14, <1>15 DEF MiddleKey
<1>24. Len(LowerKey(c)) = Mid /\ Len(UpperKey(c)) = Mid /\ LowerKey(c)[1] = c.key[1] /\ UpperKey(c)[1] = p
  <2>1. rk[1] = p
    BY <1>13a
  <2> QED BY <1>4, <1>10, <1>12, <1>13, <1>13a, <1>14, <1>21, <1>22, <2>1
<1>25. /\ Holds(c.isLeaf, LowerKey(c), LowerChild(c), Under(w.kids[cur], p))
       /\ Holds(c.isLeaf, UpperKey(c), UpperChild(c), Over(w.kids[cur], p))
  BY <1>4, <1>7, <1>13, <1>13a, <1>21
<1> QED BY <1>7, <1>20, <1>23, <1>24, <1>25 DEF HalvesHold

(* What the split of a node that is not the root comes to. *)
SplitDone(t, w, t2, w2, cur, temp, F) ==
  /\ Sound(t2, w2)
  /\ SameHeld(w, w2)
  /\ t2.Root = t.Root
  /\ DOMAIN t2.node = DOMAIN t.node \cup {temp}
  /\ F \in DOMAIN t.node /\ F # cur /\ F # temp /\ temp # t.Root
  /\ w2.level[t.Root] = w.level[t.Root]
  /\ w2.level[F] = w.level[cur] + 1
  /\ Len(t2.node[temp].key) = Mid
  /\ Len(t2.node[cur].key) = Mid
  /\ Len(t2.node[F].key) = Len(t.node[F].key) + 1
  /\ t2.node[F].isLeaf = t.node[F].isLeaf
  /\ \A n \in DOMAIN t.node : n # cur /\ n # F => SameSize(t, t2, n)

(* After the split the tree is sound, with the same records. *)
LEMMA SplitSound ==
  ASSUME NEW t, NEW w, Sound(t, w), NEW cur, cur \in DOMAIN t.node, cur # t.Root,
         NEW c, c = t.node[cur], Len(c.key) = MaxChildNumber,
         NEW F, F = c.father, NEW temp \in Nat \ {0}, temp \notin DOMAIN t.node,
         NEW p, p = c.key[Mid + 1], NEW f, f = t.node[F], NEW i, i = Place(f, p),
         NEW t2, SplitNodes(t, t2, cur, temp, F, i)
  PROVE  \E w2 : SplitDone(t, w, t2, w2, cur, temp, F)
<1>1. /\ IsTree(t) /\ Shape(w) /\ Linked(w)
      /\ w.nodes = DOMAIN t.node /\ w.root = t.Root
  BY SoundFrame
<1>2. /\ F \in DOMAIN t.node /\ F # cur /\ F # temp /\ cur # temp /\ temp # t.Root
      /\ w.level[F] \in Nat /\ w.level[cur] \in Nat /\ w.level[F] = w.level[cur] + 1
      /\ ~f.isLeaf
  <2>1. t.Root \in DOMAIN t.node
    BY SoundFrame
  <2> QED BY <2>1, NodeFather
<1>3. MiddleKey(w, cur, c, p) /\ HalvesHold(w, cur, c, p)
  BY HalvesAre
<1>4. /\ p \in Keys /\ p \in Int /\ p \in DOMAIN w.kids[cur] /\ p \in w.area[cur]
      /\ c.key[1] \in Int /\ c.key[1] < p /\ LeastKey(w, cur, c.key[1])
  BY <1>3 DEF MiddleKey
<1>5. PICK K, L : K = w.kids[cur] /\ L = w.kids[F]
  OBVIOUS
<1>6. /\ w.father[cur] = F /\ w.next[cur] = c.next /\ w.last[cur] = c.last
      /\ c.isLeaf <=> w.level[cur] = 0
  BY SoundSees
<1>7. w.father[F] = f.father /\ w.next[F] = f.next /\ w.last[F] = f.last
  BY <1>2, SoundSees
<1>8. PICK fk, fc, ff : fk = f.key /\ fc = f.child /\ ff = f.isLeaf
  OBVIOUS
<1>9. Holds(ff, fk, fc, L) /\ fk \in Seq(Keys) /\ Len(fk) \in Nat /\ Len(fk) # 0
  <2>1. Holds(f.isLeaf, f.key, f.child, L)
    BY <1>2, <1>5, SoundHolds
  <2>2. f.key \in Seq(Keys) /\ Len(f.key) \in Nat /\ Len(f.key) # 0
    BY <1>2, SoundNode, SMTT(40)
  <2> QED BY <1>8, <2>1, <2>2
<1>10. PICK gk, gc : PutIntoAt(gk, gc, fk, fc, i, p, temp)
  BY DEF PutIntoAt
<1>11. /\ Len(gk) = Len(fk) + 1
       /\ Holds(ff, gk, gc, Plus(L, p, temp))
  <2>1. BelongsAt(f.key, i, p)
    BY <1>4, FatherSlot
  <2>2. BelongsAt(fk, i, p) /\ ~ff
    BY <1>2, <1>8, <2>1
  <2>3. temp \in Cell
    BY DEF Cell
  <2> QED BY <1>4, <1>9, <1>10, <2>2, <2>3, InsertStores, SMTT(40)
<1>12. /\ IsTree(t2)
       /\ t2.Root = t.Root
       /\ DOMAIN t2.node = DOMAIN t.node \cup {temp}
       /\ Has(t2.node[temp], c.isLeaf, UpperKey(c), UpperChild(c),
              F, IF c.isLeaf THEN c.next ELSE NULL, IF c.isLeaf THEN cur ELSE NULL)
       /\ Has(t2.node[cur], c.isLeaf, LowerKey(c), LowerChild(c),
              F, IF c.isLeaf THEN temp ELSE c.next, c.last)
       /\ Has(t2.node[F], ff, gk, gc, f.father, f.next, f.last)
  BY <1>8, <1>10 DEF SplitNodes, PutIntoAt, UpperKey, UpperChild, LowerKey, LowerChild
<1>13. ASSUME NEW n \in DOMAIN t.node, n # cur, n # F
       PROVE  Has(t2.node[n], t.node[n].isLeaf, t.node[n].key, t.node[n].child,
                  IF ChildFrom(c, Mid + 1, MaxChildNumber, n) THEN temp ELSE t.node[n].father,
                  t.node[n].next, IF c.isLeaf /\ n = c.next THEN temp ELSE t.node[n].last)
  BY <1>13 DEF SplitNodes
<1>14. /\ Len(LowerKey(c)) = Mid /\ Len(UpperKey(c)) = Mid /\ Mid # 0
       /\ Holds(c.isLeaf, LowerKey(c), LowerChild(c), Under(K, p))
       /\ Holds(c.isLeaf, UpperKey(c), UpperChild(c), Over(K, p))
       /\ \A n : ChildFrom(c, Mid + 1, MaxChildNumber, n) <=> (w.level[cur] # 0 /\ KidFrom(K, p, n))
  <2>1. K = w.kids[cur]
    BY <1>5
  <2>2. Mid # 0
    BY HalfIs
  <2>3. HalvesHold(w, cur, c, p)
    BY <1>3
  <2> QED BY <2>1, <2>2, <2>3 DEF HalvesHold
<1>15. Shows(t2.node[temp], w.level[cur] = 0, Over(K, p), F,
             IF w.level[cur] = 0 THEN c.next ELSE NULL, IF w.level[cur] = 0 THEN cur ELSE NULL)
  <2>1. PICK d : d = t2.node[temp]
    OBVIOUS
  <2>2. Holds(d.isLeaf, d.key, d.child, Over(K, p)) /\ Len(d.key) # 0
    BY <1>12, <1>14, <2>1 DEF Has
  <2>3. Stores(d) /\ Kids(d.key, d.child) = Over(K, p)
    BY <2>2, HoldsStores
  <2> QED BY <1>6, <1>12, <2>1, <2>3 DEF Has, Shows
<1>16. Shows(t2.node[cur], w.level[cur] = 0, Under(K, p), F,
             IF w.level[cur] = 0 THEN temp ELSE c.next, c.last)
  <2>1. PICK d : d = t2.node[cur]
    OBVIOUS
  <2>2. Holds(d.isLeaf, d.key, d.child, Under(K, p)) /\ Len(d.key) # 0
    BY <1>12, <1>14, <2>1 DEF Has
  <2>3. Stores(d) /\ Kids(d.key, d.child) = Under(K, p)
    BY <2>2, HoldsStores
  <2> QED BY <1>6, <1>12, <2>1, <2>3 DEF Has, Shows
<1>17. Shows(t2.node[F], FALSE, Plus(L, p, temp), f.father, f.next, f.last)
  <2>1. PICK d : d = t2.node[F]
    OBVIOUS
  <2>2. Holds(d.isLeaf, d.key, d.child, Plus(L, p, temp)) /\ Len(d.key) # 0
    <3>1. d.isLeaf = ff /\ d.key = gk /\ d.child = gc
      BY <1>12, <2>1 DEF Has
    <3>2. Len(gk) # 0
      BY <1>9, <1>11
    <3> QED BY <1>11, <3>1, <3>2
  <2>3. Stores(d) /\ Kids(d.key, d.child) = Plus(L, p, temp)
    BY <2>2, HoldsStores
  <2> QED BY <1>2, <1>8, <1>12, <2>1, <2>3 DEF Has, Shows
<1>18. ASSUME NEW n \in DOMAIN t.node, n # cur, n # F
       PROVE  Shows(t2.node[n], w.level[n] = 0, w.kids[n],
                    IF w.level[cur] # 0 /\ KidFrom(K, p, n) THEN temp ELSE w.father[n], w.next[n],
                    IF w.level[cur] = 0 /\ n = c.next THEN temp ELSE w.last[n])
  <2>1. PICK d, o : d = t2.node[n] /\ o = t.node[n]
    OBVIOUS
  <2>2. Has(d, o.isLeaf, o.key, o.child,
            IF w.level[cur] # 0 /\ KidFrom(K, p, n) THEN temp ELSE o.father,
            o.next, IF w.level[cur] = 0 /\ n = c.next THEN temp ELSE o.last)
    BY <1>6, <1>13, <1>14, <1>18, <2>1
  <2>3. Stores(o)
    BY <2>1, SoundFits
  <2>4. /\ w.kids[n] = Kids(o.key, o.child)
        /\ w.father[n] = o.father /\ w.next[n] = o.next /\ w.last[n] = o.last
        /\ o.isLeaf <=> w.level[n] = 0
    BY <2>1, SoundSees
  <2>5. Stores(d)
    BY <2>2, <2>3 DEF Stores, Has
  <2> QED BY <2>1, <2>2, <2>4, <2>5 DEF Has, Shows
<1>19. IsCut(w, t2, cur, temp, p)
  <2>1. t2.Root = w.root /\ DOMAIN t2.node = w.nodes \cup {temp}
    BY <1>1, <1>12
  <2>2. Shows(t2.node[temp], w.level[cur] = 0, Over(w.kids[cur], p), w.father[cur],
             IF w.level[cur] = 0 THEN w.next[cur] ELSE NULL, IF w.level[cur] = 0 THEN cur ELSE NULL)
    BY <1>5, <1>6, <1>15
  <2>3. Shows(t2.node[cur], w.level[cur] = 0, Under(w.kids[cur], p), w.father[cur],
             IF w.level[cur] = 0 THEN temp ELSE w.next[cur], w.last[cur])
    BY <1>5, <1>6, <1>16
  <2>4. Shows(t2.node[w.father[cur]], FALSE, Plus(w.kids[w.father[cur]], p, temp),
             w.father[w.father[cur]], w.next[w.father[cur]], w.last[w.father[cur]])
    BY <1>5, <1>6, <1>7, <1>17
  <2>5. \A n \in w.nodes : n # cur /\ n # w.father[cur] =>
          Shows(t2.node[n], w.level[n] = 0, w.kids[n],
                IF w.level[cur] # 0 /\ KidFrom(w.kids[cur], p, n) THEN temp ELSE w.father[n], w.next[n],
                IF w.level[cur] = 0 /\ n = w.next[cur] THEN temp ELSE w.last[n])
    BY <1>1, <1>5, <1>6, <1>18
  <2> QED BY <1>12, <2>1, <2>2, <2>3, <2>4, <2>5 DEF IsCut
<1>20. PICK kc \in Int : kc = c.key[1]
  BY <1>4
<1>21. PICK w2 : CutDone(w, t2, w2, cur, temp)
  <2>1. LeastKey(w, cur, kc) /\ kc # p
    BY <1>4, <1>20
  <2> QED BY <1>1, <1>4, <1>19, <2>1, CutSound
<1>22. /\ w2.level[t.Root] = w.level[t.Root]
       /\ w2.level[F] = w.level[cur] + 1
  <2>1. w2.level = SplitLevel(w, cur, temp)
    BY <1>21 DEF CutDone
  <2> QED BY <1>1, <1>2, <2>1, SoundFrame DEF SplitLevel
<1>23. ASSUME NEW n \in DOMAIN t.node, n # cur, n # F
       PROVE  SameSize(t, t2, n)
  BY <1>12, <1>13, <1>23 DEF SameSize, Has
<1>24. /\ Len(t2.node[temp].key) = Mid
       /\ Len(t2.node[cur].key) = Mid
       /\ Len(t2.node[F].key) = Len(t.node[F].key) + 1
       /\ t2.node[F].isLeaf = t.node[F].isLeaf
  BY <1>8, <1>11, <1>12, <1>14 DEF Has
<1>25. SplitDone(t, w, t2, w2, cur, temp, F)
  BY <1>2, <1>12, <1>21, <1>22, <1>23, <1>24 DEF SplitDone, CutDone
<1> QED BY <1>25

-----------------------------------------------------------------------------
(* A full root is split: a new root is put above it, and then it is split  *)
(* as any other node.                                                      *)
GrowOf(w, new, k) ==
  [nodes  |-> w.nodes \cup {new},
   root   |-> new,
   kids   |-> [n \in w.nodes \cup {new} |-> IF n = new THEN [j \in {k} |-> w.root] ELSE w.kids[n]],
   father |-> [n \in w.nodes \cup {new} |-> IF n = new THEN NULL
                                            ELSE IF n = w.root THEN new ELSE w.father[n]],
   next   |-> [n \in w.nodes \cup {new} |-> IF n = new THEN NULL ELSE w.next[n]],
   last   |-> [n \in w.nodes \cup {new} |-> IF n = new THEN NULL ELSE w.last[n]],
   level  |-> [n \in w.nodes \cup {new} |-> IF n = new THEN w.level[w.root] + 1 ELSE w.level[n]],
   area   |-> [n \in w.nodes \cup {new} |-> IF n = new THEN Int ELSE w.area[n]]]

(* What the view with a new root shows. *)
LEMMA GrowIs ==
  ASSUME NEW w, NEW new, new \notin w.nodes, NEW k, NEW v, v = GrowOf(w, new, k)
  PROVE  /\ GrowView(w, v, new, k)
         /\ SameLinks(w, v)
         /\ v.father[new] = NULL /\ v.next[new] = NULL /\ v.last[new] = NULL
BY DEF GrowOf, GrowView, SameLinks

(* A node with two entries. *)
LEMMA TwoHolds ==
  ASSUME NEW k \in Keys, NEW p \in Keys, k < p, NEW a \in Cell, NEW b \in Cell,
         NEW ks, ks = <<k, p>>, NEW cs, cs = <<a, b>>, NEW F, F = [j \in {k} |-> a],
         NEW isLeaf, ~isLeaf
  PROVE  Len(ks) = 2 /\ Holds(isLeaf, ks, cs, Plus(F, p, b))
<1>1. ks \in Seq(Keys) /\ cs \in Seq(Cell) /\ Len(ks) = 2 /\ Len(cs) = 2
      /\ ks[1] = k /\ ks[2] = p /\ cs[1] = a /\ cs[2] = b
  OBVIOUS
<1>2. k \in Int /\ p \in Int
  BY TreeConstants
<1>3. Arrays(Cell, ks, cs)
  BY <1>1, <1>2 DEF Arrays, Ascending
<1>4. PICK G : G = Plus(F, p, b)
  OBVIOUS
<1>5. DOMAIN G = {k, p} /\ G[k] = a /\ G[p] = b /\ G = [j \in DOMAIN G |-> G[j]]
  BY <1>2, <1>4 DEF Plus
<1>6. Pairs(G, ks, cs)
  <2>1. \A i \in 1..Len(ks) : i = 1 \/ i = 2
    BY <1>1
  <2>2. \A i \in 1..Len(ks) : ks[i] \in DOMAIN G /\ G[ks[i]] = cs[i]
    BY <1>1, <1>5, <2>1
  <2>3. \A j \in DOMAIN G : \E i \in 1..Len(ks) : ks[i] = j
    BY <1>1, <1>5
  <2> QED BY <1>5, <2>2, <2>3 DEF Pairs
<1>7. G = Kids(ks, cs)
  BY <1>3, <1>6, PairsAreKids
<1> QED BY <1>1, <1>3, <1>4, <1>7 DEF Holds, Fits

(* The fields of the result. *)
RootSplit(t, t2, cur, c, temp, root, p) ==
  /\ IsTree(t2)
  /\ t2.Root = root
  /\ DOMAIN t2.node = (DOMAIN t.node \cup {temp}) \cup {root}
  /\ Has(t2.node[root], FALSE, <<c.key[1], p>>, <<cur, temp>>, NULL, NULL, NULL)
  /\ Has(t2.node[temp], c.isLeaf, UpperKey(c), UpperChild(c),
         root, NULL, IF c.isLeaf THEN cur ELSE NULL)
  /\ Has(t2.node[cur], c.isLeaf, LowerKey(c), LowerChild(c),
         root, IF c.isLeaf THEN temp ELSE c.next, c.last)
  /\ \A n \in DOMAIN t.node : n # cur =>
       Has(t2.node[n], t.node[n].isLeaf, t.node[n].key, t.node[n].child,
           IF ChildFrom(c, Mid + 1, MaxChildNumber, n) THEN temp ELSE t.node[n].father,
           t.node[n].next, t.node[n].last)

(* What Split does to the root. *)
LEMMA SplitRootIs ==
  ASSUME NEW t, NEW w, Sound(t, w), NEW cur, cur \in DOMAIN t.node, cur = t.Root,
         NEW c, c = t.node[cur], Len(c.key) = MaxChildNumber, NEW p, p = c.key[Mid + 1],
         NEW s, s = Split(t, cur)
  PROVE  /\ s.cur = cur /\ ~s.full
         /\ \E temp, root \in Nat \ {0} :
              /\ temp \notin DOMAIN t.node /\ root \notin DOMAIN t.node /\ temp # root
              /\ RootSplit(t, s.tree, cur, c, temp, root, p)
<1>1. IsTree(t) /\ w.nodes = DOMAIN t.node
  BY SoundFrame
<1>2. PICK temp : temp = Fresh(t)
  OBVIOUS
<1>3. temp \in Nat \ {0} /\ temp \notin DOMAIN t.node
  BY <1>1, <1>2, FreshIs
<1>4. PICK t1 : t1 = Halve(t, cur, temp)
  OBVIOUS
<1>5. PICK root : root = Fresh(t1)
  OBVIOUS
<1>6. PICK t2 : t2 = PutRoot(t1, cur, temp, root)
  OBVIOUS
<1>7. s.tree = t2 /\ s.cur = cur /\ ~s.full
  BY <1>2, <1>4, <1>5, <1>6 DEF Split
<1>8. MiddleKey(w, cur, c, p) /\ HalvesHold(w, cur, c, p)
  BY HalvesAre
<1>9. Len(c.child) = Len(c.key)
  BY SoundNode
<1>10. ~ChildFrom(c, Mid + 1, MaxChildNumber, temp) /\ ~ChildFrom(c, Mid + 1, MaxChildNumber, cur)
  <2>1. PICK a \in Nat \ {0}, b \in Nat : a = Mid + 1 /\ b = MaxChildNumber
    BY HalfIs
  <2>2. ASSUME NEW n, ChildFrom(c, a, b, n)
        PROVE  n \in DOMAIN t.node /\ n # cur
    BY <2>1, <2>2, ChildFromIs
  <2> QED BY <1>3, <2>1, <2>2
<1>11. /\ IsTree(t1)
       /\ t1.Root = t.Root /\ DOMAIN t1.node = DOMAIN t.node \cup {temp}
       /\ Has(t1.node[temp], c.isLeaf, UpperKey(c), UpperChild(c), c.father, NULL, NULL)
       /\ Has(t1.node[cur], c.isLeaf, LowerKey(c), LowerChild(c), c.father, c.next, c.last)
       /\ \A n \in DOMAIN t.node : n # cur =>
              Has(t1.node[n], t.node[n].isLeaf, t.node[n].key, t.node[n].child,
                  IF ChildFrom(c, Mid + 1, MaxChildNumber, n) THEN temp ELSE t.node[n].father,
                  t.node[n].next, t.node[n].last)
  <2>1. Len(c.child) = MaxChildNumber
    BY <1>9
  <2>2. /\ IsTree(t1)
        /\ t1.Root = t.Root /\ DOMAIN t1.node = DOMAIN t.node \cup {temp}
        /\ Has(t1.node[temp], c.isLeaf,
               SubSeq(c.key, Mid + 1, MaxChildNumber), SubSeq(c.child, Mid + 1, MaxChildNumber),
               IF ChildFrom(c, Mid + 1, MaxChildNumber, temp) THEN temp ELSE c.father, NULL, NULL)
        /\ Has(t1.node[cur], c.isLeaf, SubSeq(c.key, 1, Mid), SubSeq(c.child, 1, Mid),
               IF ChildFrom(c, Mid + 1, MaxChildNumber, cur) THEN temp ELSE c.father,
               c.next, c.last)
        /\ \A n \in DOMAIN t.node : n # cur =>
             Has(t1.node[n], t.node[n].isLeaf, t.node[n].key, t.node[n].child,
                 IF ChildFrom(c, Mid + 1, MaxChildNumber, n) THEN temp ELSE t.node[n].father,
                 t.node[n].next, t.node[n].last)
    BY <1>1, <1>3, <1>4, <2>1, HalveIs
  <2> QED BY <1>10, <2>2 DEF UpperKey, UpperChild, LowerKey, LowerChild
<1>12. root \in Nat \ {0} /\ root \notin DOMAIN t1.node
  BY <1>5, <1>11, FreshIs
<1>13. PICK k \in Keys : k = c.key[1]
  BY <1>8 DEF MiddleKey
<1>14. p \in Keys
  BY <1>8 DEF MiddleKey
<1>15. t1.node[cur].key[1] = k /\ t1.node[temp].key[1] = p /\ (t1.node[cur].isLeaf <=> c.isLeaf)
  BY <1>8, <1>11, <1>13 DEF HalvesHold, Has
<1>16. /\ IsTree(t2)
       /\ t2.Root = root /\ DOMAIN t2.node = DOMAIN t1.node \cup {root}
       /\ Has(t2.node[root], FALSE, <<k, p>>, <<cur, temp>>, NULL, NULL, NULL)
       /\ RootPut(t1, t2, cur, temp, root)
  <2>1. cur \in DOMAIN t1.node /\ temp \in DOMAIN t1.node /\ cur # temp
    BY <1>3, <1>11
  <2>2. PICK q \in Keys : q = p
    BY <1>14
  <2>3. k = t1.node[cur].key[1] /\ q = t1.node[temp].key[1] /\ IsTree(t1)
    BY <1>11, <1>15, <2>2
  <2>4. /\ IsTree(t2)
        /\ t2.Root = root /\ DOMAIN t2.node = DOMAIN t1.node \cup {root}
        /\ TopIs(t2.node[root], k, q, cur, temp)
        /\ RootPut(t1, t2, cur, temp, root)
    BY <1>6, <1>12, <2>1, <2>3, PutRootIs
  <2> QED BY <2>2, <2>4 DEF TopIs
<1>17. ASSUME NEW n \in DOMAIN t1.node
       PROVE  Has(t2.node[n], t1.node[n].isLeaf, t1.node[n].key, t1.node[n].child,
                  IF n \in {cur, temp} THEN root ELSE t1.node[n].father,
                  IF n = cur /\ c.isLeaf THEN temp ELSE t1.node[n].next,
                  IF n = temp /\ c.isLeaf THEN cur ELSE t1.node[n].last)
  BY <1>15, <1>16 DEF RootPut
<1>18. Has(t2.node[temp], c.isLeaf, UpperKey(c), UpperChild(c),
           root, NULL, IF c.isLeaf THEN cur ELSE NULL)
  <2>1. temp \in DOMAIN t1.node /\ temp # cur
    BY <1>3, <1>11
  <2> QED BY <1>11, <1>17, <2>1 DEF Has
<1>19. Has(t2.node[cur], c.isLeaf, LowerKey(c), LowerChild(c),
           root, IF c.isLeaf THEN temp ELSE c.next, c.last)
  <2>1. cur \in DOMAIN t1.node /\ temp # cur
    BY <1>3, <1>11
  <2> QED BY <1>11, <1>17, <2>1 DEF Has
<1>20. ASSUME NEW n \in DOMAIN t.node, n # cur
       PROVE  Has(t2.node[n], t.node[n].isLeaf, t.node[n].key, t.node[n].child,
                  IF ChildFrom(c, Mid + 1, MaxChildNumber, n) THEN temp ELSE t.node[n].father,
                  t.node[n].next, t.node[n].last)
  <2>1. n \in DOMAIN t1.node /\ n # temp
    BY <1>3, <1>11
  <2> QED BY <1>11, <1>17, <1>20, <2>1 DEF Has
<1>21. root \notin DOMAIN t.node /\ temp # root
  BY <1>11, <1>12
<1>22. RootSplit(t, t2, cur, c, temp, root, p)
  BY <1>11, <1>13, <1>16, <1>18, <1>19, <1>20 DEF RootSplit
<1> QED BY <1>3, <1>7, <1>12, <1>21, <1>22

-----------------------------------------------------------------------------
(* What the split of the root comes to. *)
SplitRootDone(t, w, t2, w2, temp, root) ==
  /\ Sound(t2, w2)
  /\ SameHeld(w, w2)
  /\ t2.Root = root
  /\ DOMAIN t2.node = (DOMAIN t.node \cup {temp}) \cup {root}
  /\ temp \notin DOMAIN t.node /\ root \notin DOMAIN t.node /\ temp # root
  /\ Len(t2.node[temp].key) = Mid
  /\ Len(t2.node[t.Root].key) = Mid
  /\ Len(t2.node[root].key) = 2
  /\ ~t2.node[root].isLeaf
  /\ \A n \in DOMAIN t.node : n # t.Root => SameSize(t, t2, n)

(* What a view that a new root was put into shows. *)
Grown(w, v, new, k) ==
  /\ Shape(v) /\ Linked(v) /\ SameHeld(w, v)
  /\ v.nodes = w.nodes \cup {new} /\ v.root = new
  /\ v.kids[new] = [j \in {k} |-> w.root]
  /\ v.father[new] = NULL /\ v.next[new] = NULL /\ v.last[new] = NULL
  /\ \A n \in w.nodes :
       /\ v.kids[n] = w.kids[n]
       /\ v.father[n] = IF n = w.root THEN new ELSE w.father[n]
       /\ v.next[n] = w.next[n] /\ v.last[n] = w.last[n]
       /\ v.level[n] = w.level[n]

(* It has the shape of a tree. *)
LEMMA GrownShows ==
  ASSUME NEW w, Shape(w), Linked(w), NEW new, new \notin w.nodes, new # NULL,
         NEW k \in Int, LeastKey(w, w.root, k), NEW v, v = GrowOf(w, new, k)
  PROVE  Grown(w, v, new, k)
<1>1. /\ GrowView(w, v, new, k)
      /\ SameLinks(w, v)
      /\ v.father[new] = NULL /\ v.next[new] = NULL /\ v.last[new] = NULL
  BY GrowIs
<1>2. LeastOf(DOMAIN w.kids[w.root], k)
  BY DEF LeastKey
<1>3. Shape(v)
  BY <1>1, <1>2, GrowShape
<1>4. Linked(v)
  BY <1>1, GrowLinked
<1>5. SameHeld(w, v)
  BY <1>1, GrowHeld
<1> QED BY <1>1, <1>3, <1>4, <1>5 DEF Grown, GrowView, SameLinks

(* After the split of the root the tree is sound. *)
LEMMA SplitRootSound ==
  ASSUME NEW t, NEW w, Sound(t, w), NEW cur, cur \in DOMAIN t.node, cur = t.Root,
         NEW c, c = t.node[cur], Len(c.key) = MaxChildNumber, NEW p, p = c.key[Mid + 1],
         NEW temp \in Nat \ {0}, NEW root \in Nat \ {0},
         temp \notin DOMAIN t.node, root \notin DOMAIN t.node, temp # root,
         NEW t2, RootSplit(t, t2, cur, c, temp, root, p)
  PROVE  \E w2 : SplitRootDone(t, w, t2, w2, temp, root)
<1>1. /\ IsTree(t) /\ Shape(w) /\ Linked(w)
      /\ w.nodes = DOMAIN t.node /\ w.root = t.Root /\ cur = w.root /\ cur \in w.nodes
  BY SoundFrame
<1>2. MiddleKey(w, cur, c, p) /\ HalvesHold(w, cur, c, p)
  BY HalvesAre
<1>3. PICK k \in Int : k = c.key[1] /\ LeastKey(w, cur, k) /\ k \in Keys /\ k < p
  BY <1>2 DEF MiddleKey
<1>4. PICK v : v = GrowOf(w, root, k)
  OBVIOUS
<1>5. /\ Shape(v) /\ Linked(v) /\ SameHeld(w, v)
      /\ v.nodes = w.nodes \cup {root} /\ v.root = root
      /\ v.kids[root] = [j \in {k} |-> cur]
      /\ v.father[root] = NULL /\ v.next[root] = NULL /\ v.last[root] = NULL
      /\ \A n \in w.nodes :
           /\ v.kids[n] = w.kids[n]
           /\ v.father[n] = IF n = cur THEN root ELSE w.father[n]
           /\ v.next[n] = w.next[n] /\ v.last[n] = w.last[n]
           /\ v.level[n] = w.level[n]
  <2>1. root # NULL /\ LeastKey(w, w.root, k)
    BY <1>1, <1>3 DEF NULL
  <2>2. Grown(w, v, root, k)
    BY <1>1, <1>4, <2>1, GrownShows
  <2> QED BY <1>1, <2>2 DEF Grown
<1>6. PICK K, L : K = w.kids[cur] /\ L = [j \in {k} |-> cur]
  OBVIOUS
<1>7. /\ p \in Keys /\ p \in Int /\ p \in DOMAIN w.kids[cur]
  BY <1>2 DEF MiddleKey
<1>8. /\ IsTree(t2)
      /\ t2.Root = root
      /\ DOMAIN t2.node = (DOMAIN t.node \cup {temp}) \cup {root}
      /\ Has(t2.node[root], FALSE, <<c.key[1], p>>, <<cur, temp>>, NULL, NULL, NULL)
      /\ Has(t2.node[temp], c.isLeaf, UpperKey(c), UpperChild(c),
             root, NULL, IF c.isLeaf THEN cur ELSE NULL)
      /\ Has(t2.node[cur], c.isLeaf, LowerKey(c), LowerChild(c),
             root, IF c.isLeaf THEN temp ELSE c.next, c.last)
  BY DEF RootSplit
<1>9. ASSUME NEW n \in DOMAIN t.node, n # cur
      PROVE  Has(t2.node[n], t.node[n].isLeaf, t.node[n].key, t.node[n].child,
                 IF ChildFrom(c, Mid + 1, MaxChildNumber, n) THEN temp ELSE t.node[n].father,
                 t.node[n].next, t.node[n].last)
  BY <1>9 DEF RootSplit
<1>10. /\ Len(LowerKey(c)) = Mid /\ Len(UpperKey(c)) = Mid /\ Mid # 0
       /\ Holds(c.isLeaf, LowerKey(c), LowerChild(c), Under(K, p))
       /\ Holds(c.isLeaf, UpperKey(c), UpperChild(c), Over(K, p))
       /\ \A n : ChildFrom(c, Mid + 1, MaxChildNumber, n) <=> (w.level[cur] # 0 /\ KidFrom(K, p, n))
  <2>1. K = w.kids[cur]
    BY <1>6
  <2>2. Mid # 0
    BY HalfIs
  <2>3. HalvesHold(w, cur, c, p)
    BY <1>2
  <2> QED BY <2>1, <2>2, <2>3 DEF HalvesHold
<1>11. /\ w.next[cur] = c.next /\ w.last[cur] = c.last
       /\ c.isLeaf <=> w.level[cur] = 0
  BY SoundSees
<1>12. c.isLeaf => c.next = NULL
  <2>1. ASSUME c.isLeaf, c.next # NULL
        PROVE  FALSE
    <3>1. c.next \in DOMAIN t.node /\ c.next # cur
      BY <2>1, NodeNext
    <3>2. w.level[cur] = 0
      BY <1>11, <2>1
    <3>3. PICK m : m = c.next
      OBVIOUS
    <3>4. m \in w.nodes /\ m # w.root
      BY <1>1, <3>1, <3>3
    <3>5. w.level[m] \in Nat /\ w.level[m] <= w.level[w.root]
      BY <3>4, SoundFrame
    <3>6. w.level[w.father[m]] \in Nat /\ w.father[m] \in w.nodes /\ w.level[w.father[m]] = w.level[m] + 1
      BY <1>1, <3>4, FatherEdge
    <3>7. w.level[w.father[m]] <= w.level[w.root]
      BY <3>6, SoundFrame
    <3> QED BY <1>1, <3>2, <3>5, <3>6, <3>7
  <2> QED BY <2>1
<1>13. Shows(t2.node[temp], w.level[cur] = 0, Over(K, p), root, NULL,
             IF w.level[cur] = 0 THEN cur ELSE NULL)
  <2>1. PICK d : d = t2.node[temp]
    OBVIOUS
  <2>2. Holds(d.isLeaf, d.key, d.child, Over(K, p)) /\ Len(d.key) # 0
    BY <1>8, <1>10, <2>1 DEF Has
  <2>3. Stores(d) /\ Kids(d.key, d.child) = Over(K, p)
    BY <2>2, HoldsStores
  <2> QED BY <1>8, <1>11, <2>1, <2>3 DEF Has, Shows
<1>14. Shows(t2.node[cur], w.level[cur] = 0, Under(K, p), root,
             IF w.level[cur] = 0 THEN temp ELSE w.next[cur], w.last[cur])
  <2>1. PICK d : d = t2.node[cur]
    OBVIOUS
  <2>2. Holds(d.isLeaf, d.key, d.child, Under(K, p)) /\ Len(d.key) # 0
    BY <1>8, <1>10, <2>1 DEF Has
  <2>3. Stores(d) /\ Kids(d.key, d.child) = Under(K, p)
    BY <2>2, HoldsStores
  <2> QED BY <1>8, <1>11, <2>1, <2>3 DEF Has, Shows
<1>15. PICK gk, gc : gk = <<k, p>> /\ gc = <<cur, temp>>
  OBVIOUS
<1>16. Shows(t2.node[root], FALSE, Plus(L, p, temp), NULL, NULL, NULL) /\ Len(gk) = 2
  <2>1. PICK d : d = t2.node[root]
    OBVIOUS
  <2>2. Has(d, FALSE, gk, gc, NULL, NULL, NULL)
    BY <1>3, <1>8, <1>15, <2>1
  <2>3. cur \in Cell /\ temp \in Cell
    BY <1>1 DEF IsTree, Cell
  <2>4a. ~d.isLeaf /\ d.key = gk /\ d.child = gc
    BY <2>2 DEF Has
  <2>4b. PICK lf : lf = d.isLeaf
    OBVIOUS
  <2>4. Len(gk) = 2 /\ Holds(lf, gk, gc, Plus(L, p, temp))
    BY <1>3, <1>6, <1>7, <1>15, <2>3, <2>4a, <2>4b, TwoHolds, ZenonT(60)
  <2>5. Arrays(Cell, gk, gc) /\ Fits(lf, gk, gc) /\ Kids(gk, gc) = Plus(L, p, temp) /\ Len(gk) # 0
    BY <2>4 DEF Holds
  <2>6a. d.isLeaf = lf /\ d.key = gk /\ d.child = gc
    BY <2>4a, <2>4b
  <2>6b. Stores(d)
    BY <2>5, <2>6a, StoresIs
  <2>6. Stores(d) /\ Kids(d.key, d.child) = Plus(L, p, temp)
    BY <2>5, <2>6a, <2>6b
  <2> QED BY <2>1, <2>2, <2>4, <2>6 DEF Has, Shows
<1>17. ASSUME NEW n \in DOMAIN t.node, n # cur
       PROVE  Shows(t2.node[n], w.level[n] = 0, w.kids[n],
                    IF w.level[cur] # 0 /\ KidFrom(K, p, n) THEN temp ELSE w.father[n], w.next[n], w.last[n])
  <2>1. PICK d, o : d = t2.node[n] /\ o = t.node[n]
    OBVIOUS
  <2>2. Has(d, o.isLeaf, o.key, o.child,
            IF w.level[cur] # 0 /\ KidFrom(K, p, n) THEN temp ELSE o.father, o.next, o.last)
    BY <1>9, <1>10, <1>17, <2>1
  <2>3. Stores(o)
    BY <2>1, SoundFits
  <2>4. /\ w.kids[n] = Kids(o.key, o.child)
        /\ w.father[n] = o.father /\ w.next[n] = o.next /\ w.last[n] = o.last
        /\ o.isLeaf <=> w.level[n] = 0
    BY <2>1, SoundSees
  <2>5. Stores(d)
    BY <2>2, <2>3 DEF Stores, Has
  <2> QED BY <2>1, <2>2, <2>4, <2>5 DEF Has, Shows
<1>18. root # cur /\ v.father[cur] = root /\ v.kids[cur] = K /\ v.level[cur] = w.level[cur]
       /\ v.next[cur] = w.next[cur] /\ v.last[cur] = w.last[cur] /\ v.kids[root] = L /\ cur \in v.nodes
  BY <1>1, <1>5, <1>6
<1>19. IsCut(v, t2, cur, temp, p)
  <2>1. t2.Root = v.root /\ DOMAIN t2.node = v.nodes \cup {temp}
    BY <1>1, <1>5, <1>8
  <2>2. Shows(t2.node[temp], v.level[cur] = 0, Over(v.kids[cur], p), v.father[cur],
             IF v.level[cur] = 0 THEN v.next[cur] ELSE NULL, IF v.level[cur] = 0 THEN cur ELSE NULL)
    <3>1. (IF v.level[cur] = 0 THEN v.next[cur] ELSE NULL) = NULL
      BY <1>11, <1>12, <1>18
    <3> QED BY <1>13, <1>18, <3>1
  <2>3. Shows(t2.node[cur], v.level[cur] = 0, Under(v.kids[cur], p), v.father[cur],
             IF v.level[cur] = 0 THEN temp ELSE v.next[cur], v.last[cur])
    BY <1>14, <1>18
  <2>4. Shows(t2.node[v.father[cur]], FALSE, Plus(v.kids[v.father[cur]], p, temp),
             v.father[v.father[cur]], v.next[v.father[cur]], v.last[v.father[cur]])
    BY <1>5, <1>16, <1>18
  <2>5. ASSUME NEW n \in v.nodes, n # cur, n # v.father[cur]
        PROVE  Shows(t2.node[n], v.level[n] = 0, v.kids[n],
                IF v.level[cur] # 0 /\ KidFrom(v.kids[cur], p, n) THEN temp ELSE v.father[n], v.next[n],
                IF v.level[cur] = 0 /\ n = v.next[cur] THEN temp ELSE v.last[n])
    <3>1. n \in w.nodes /\ n \in DOMAIN t.node
      BY <1>1, <1>5, <1>18, <2>5
    <3>2. v.level[n] = w.level[n] /\ v.kids[n] = w.kids[n] /\ v.father[n] = w.father[n]
          /\ v.next[n] = w.next[n] /\ v.last[n] = w.last[n]
      BY <1>5, <2>5, <3>1
    <3>3. ~(v.level[cur] = 0 /\ n = v.next[cur])
      BY <1>1, <1>11, <1>12, <1>18, <3>1 DEF Linked
    <3> QED BY <1>17, <1>18, <2>5, <3>1, <3>2, <3>3
  <2>6. IsTree(t2)
    BY <1>8
  <2> QED BY <2>1, <2>2, <2>3, <2>4, <2>5, <2>6 DEF IsCut
<1>20. PICK w2 : CutDone(v, t2, w2, cur, temp)
  <2>1. LeastKey(v, cur, k) /\ k # p
    <3>1. v.kids[cur] = w.kids[cur]
      BY <1>6, <1>18
    <3>2. k # p /\ LeastKey(w, cur, k)
      BY <1>3
    <3> QED BY <3>1, <3>2 DEF LeastKey
  <2>2. cur # v.root /\ temp \notin v.nodes /\ p \in DOMAIN v.kids[cur]
    BY <1>1, <1>5, <1>6, <1>7, <1>18
  <2> QED BY <1>5, <1>7, <1>18, <1>19, <2>1, <2>2, CutSound
<1>21. SameHeld(w, w2) /\ Sound(t2, w2)
  BY <1>5, <1>20 DEF CutDone, SameHeld
<1>22. ASSUME NEW n \in DOMAIN t.node, n # t.Root
       PROVE  SameSize(t, t2, n)
  <2>1. n # cur /\ n # root
    BY <1>22
  <2> QED BY <1>8, <1>9, <1>22, <2>1 DEF SameSize, Has
<1>23. /\ Len(t2.node[temp].key) = Mid
       /\ Len(t2.node[cur].key) = Mid
  BY <1>8, <1>10 DEF Has
<1>24. Len(t2.node[root].key) = 2 /\ ~t2.node[root].isLeaf
  BY <1>3, <1>8, <1>15, <1>16 DEF Has
<1>25. SplitRootDone(t, w, t2, w2, temp, root)
  BY <1>8, <1>21, <1>22, <1>23, <1>24 DEF SplitRootDone
<1> QED BY <1>25

=============================================================================
