--------------------------- MODULE BPlusTreeCalls ---------------------------
(***************************************************************************)
(* Proofs about BPlusTree, second part: the calls.  Insert puts a record   *)
(* into its leaf and splits the nodes that are full, from the leaf to the  *)
(* root; Delete takes one out, raises the keys of the ancestors that named *)
(* it, and borrows or merges where a node is short.  Each keeps the view   *)
(* sound and changes the records by that one record.                       *)
(***************************************************************************)
EXTENDS BPlusTreeView

-----------------------------------------------------------------------------
(* Insert, level by level. *)
(* How full a node is: at least half, and below the limit. *)
Room(t, n) == IF n # t.Root THEN Mid ELSE IF t.node[n].isLeaf THEN 0 ELSE 2
SizedAt(t, n) == Room(t, n) <= Len(t.node[n].key) /\ Len(t.node[n].key) < MaxChildNumber
SizedBut(t, c) == \A n \in DOMAIN t.node : n # c => SizedAt(t, n)
AllSized(t) == \A n \in DOMAIN t.node : SizedAt(t, n)

(* A node as long as it was is as full as it was. *)
LEMMA SameSized ==
  ASSUME NEW t, NEW t2, NEW n, SameSize(t, t2, n), SizedAt(t, n)
  PROVE  SizedAt(t2, n)
BY DEF SameSize, SizedAt, Room

(* After i turns: the record is in, and at most node cur on level i is     *)
(* full.                                                                   *)
Entered(w0, s, w, x, r, i, h) ==
  /\ Sound(s.tree, w)
  /\ PutHeld(w0, w, x, r)
  /\ ~s.full => AllSized(s.tree)
  /\ s.full => /\ s.cur \in DOMAIN s.tree.node
               /\ Len(s.tree.node[s.cur].key) = MaxChildNumber
               /\ w.level[s.cur] = i
               /\ w.level[s.tree.Root] = h
               /\ SizedBut(s.tree, s.cur)

(* The first turn puts the record into its leaf. *)
LEMMA EnterTurn ==
  ASSUME NEW t, NEW w, Sound(t, w), AllSized(t), NEW x \in Keys, NEW r, r \in {x} \X Versions[x],
         NEW l, l = Find(t, x), x \notin DOMAIN w.kids[l],
         NEW s, s = Enter(Lower(t, x), l, x, r)
  PROVE  \E w2 : Entered(w, s, w2, x, r, 0, w.level[t.Root])
<1>1. /\ s.cur = l
      /\ s.full <=> Len(t.node[l].key) + 1 = MaxChildNumber
      /\ \E w2 : PutDone(t, w, s.tree, w2, l, x, r)
  BY PutIn
<1>2. PICK w2 : PutDone(t, w, s.tree, w2, l, x, r)
  BY <1>1
<1>3. x \in Int
  BY TreeConstants
<1>4. l \in DOMAIN t.node /\ w.level[l] = 0
  BY <1>3, FindIs, LeafIs
<1>5. PICK u : u = s.tree
  OBVIOUS
<1>6. /\ Sound(u, w2) /\ PutHeld(w, w2, x, r) /\ w2.level = w.level /\ u.Root = t.Root
      /\ DOMAIN u.node = DOMAIN t.node
      /\ Len(u.node[l].key) = Len(t.node[l].key) + 1 /\ u.node[l].isLeaf
      /\ \A n \in DOMAIN t.node : n # l => SameSize(t, u, n)
  BY <1>2, <1>5 DEF PutDone
<1>7. SizedBut(u, l)
  <2>1. ASSUME NEW n \in DOMAIN u.node, n # l
        PROVE  SizedAt(u, n)
    <3>1. SameSize(t, u, n) /\ SizedAt(t, n)
      BY <1>6, <2>1 DEF AllSized
    <3> QED BY <3>1, SameSized
  <2> QED BY <2>1 DEF SizedBut
<1>8. Len(t.node[l].key) \in Nat
  BY <1>4, SoundNode
<1>9. SizedAt(t, l)
  BY <1>4 DEF AllSized
<1>10. ASSUME ~s.full
       PROVE  AllSized(u)
  <2>1. t.node[l].isLeaf
    BY <1>4, SoundSees
  <2>2. Room(u, l) = Room(t, l) /\ Room(u, l) \in Nat
    BY <1>6, <2>1, HalfIs DEF Room
  <2>3. Room(t, l) <= Len(t.node[l].key) /\ Len(t.node[l].key) < MaxChildNumber
    BY <1>9 DEF SizedAt
  <2>4. PICK a \in Nat : a = Len(t.node[l].key)
    BY <1>8
  <2>5. PICK b \in Nat : b = Room(t, l)
    BY <2>2
  <2>6. b <= a /\ a < MaxChildNumber /\ a + 1 # MaxChildNumber
    BY <1>1, <1>10, <2>3, <2>4, <2>5
  <2>7. b <= a + 1 /\ a + 1 < MaxChildNumber
    BY <2>6, HalfIs
  <2>8. SizedAt(u, l)
    BY <1>6, <2>2, <2>4, <2>5, <2>7 DEF SizedAt
  <2> QED BY <1>7, <2>8 DEF AllSized, SizedBut
<1>11. ASSUME s.full
       PROVE  /\ l \in DOMAIN u.node
              /\ Len(u.node[l].key) = MaxChildNumber
              /\ w2.level[l] = 0
              /\ w2.level[u.Root] = w.level[t.Root]
              /\ SizedBut(u, l)
  BY <1>1, <1>4, <1>6, <1>7, <1>11
<1>12. Entered(w, s, w2, x, r, 0, w.level[t.Root])
  BY <1>1, <1>5, <1>6, <1>10, <1>11 DEF Entered
<1> QED BY <1>12

(* Moving records does not undo that. *)
LEMMA HeldOn ==
  ASSUME NEW w, NEW w1, NEW w2, NEW x, NEW r, PutHeld(w, w1, x, r), SameHeld(w1, w2)
  PROVE  PutHeld(w, w2, x, r)
BY DEF PutHeld, SameHeld

(* A node below the root is split. *)
LEMMA SplitTurnInner ==
  ASSUME NEW t, NEW w, Sound(t, w), NEW cur, cur \in DOMAIN t.node, cur # t.Root,
         Len(t.node[cur].key) = MaxChildNumber, SizedBut(t, cur),
         NEW w0, NEW x, NEW r, PutHeld(w0, w, x, r), NEW i \in Nat, w.level[cur] = i,
         NEW s, s = Split(t, cur)
  PROVE  \E w2 : Entered(w0, s, w2, x, r, i + 1, w.level[t.Root])
<1>1. PICK c : c = t.node[cur]
  OBVIOUS
<1>2. PICK F : F = c.father
  OBVIOUS
<1>3. PICK temp : temp = Fresh(t)
  OBVIOUS
<1>4. PICK p : p = c.key[Mid + 1]
  OBVIOUS
<1>5. PICK f : f = t.node[F]
  OBVIOUS
<1>6. PICK j : j = Place(f, p)
  OBVIOUS
<1>7. PICK u : u = s.tree
  OBVIOUS
<1>8. /\ s.cur = F
      /\ s.full <=> Len(t.node[F].key) + 1 = MaxChildNumber
      /\ SplitNodes(t, s.tree, cur, temp, F, Place(t.node[F], p))
  <2>1. Len(c.key) = MaxChildNumber
    BY <1>1
  <2>2. PICK q : q = Split(t, cur)
    OBVIOUS
  <2>3. /\ q.cur = F
        /\ q.full <=> Len(t.node[F].key) + 1 = MaxChildNumber
        /\ SplitNodes(t, q.tree, cur, temp, F, Place(t.node[F], p))
    BY <1>1, <1>2, <1>3, <1>4, <2>1, <2>2, SplitIs
  <2> QED BY <2>2, <2>3
<1>9. temp \in Nat \ {0} /\ temp \notin DOMAIN t.node
  BY <1>3, SoundFrame, FreshIs
<1>10. SplitNodes(t, u, cur, temp, F, j)
  BY <1>5, <1>6, <1>7, <1>8
<1>11. PICK w2 : SplitDone(t, w, u, w2, cur, temp, F)
  BY <1>1, <1>2, <1>4, <1>5, <1>6, <1>9, <1>10, SplitSound
<1>12. /\ Sound(u, w2) /\ SameHeld(w, w2) /\ u.Root = t.Root
       /\ DOMAIN u.node = DOMAIN t.node \cup {temp}
       /\ F \in DOMAIN t.node /\ F # cur /\ F # temp /\ temp # t.Root
       /\ w2.level[t.Root] = w.level[t.Root]
       /\ w2.level[F] = i + 1
       /\ Len(u.node[temp].key) = Mid
       /\ Len(u.node[cur].key) = Mid
       /\ Len(u.node[F].key) = Len(t.node[F].key) + 1
       /\ u.node[F].isLeaf = t.node[F].isLeaf
       /\ \A n \in DOMAIN t.node : n # cur /\ n # F => SameSize(t, u, n)
  BY <1>11 DEF SplitDone
<1>13. SizedBut(u, F)
  <2>1. ASSUME NEW n \in DOMAIN u.node, n # F
        PROVE  SizedAt(u, n)
    <3>1. CASE n = temp \/ n = cur
      <4>1. n # u.Root /\ Len(u.node[n].key) = Mid
        BY <1>12, <3>1
      <4> QED BY <4>1, HalfIs DEF SizedAt, Room
    <3>2. CASE n # temp /\ n # cur
      <4>1. n \in DOMAIN t.node
        BY <1>12, <2>1, <3>2
      <4>2. SameSize(t, u, n) /\ SizedAt(t, n)
        BY <1>12, <2>1, <3>2, <4>1 DEF SizedBut
      <4> QED BY <4>2, SameSized
    <3> QED BY <3>1, <3>2
  <2> QED BY <2>1 DEF SizedBut
<1>14. Len(t.node[F].key) \in Nat /\ SizedAt(t, F)
  <2>1. Len(t.node[F].key) \in Nat
    BY <1>12, SoundNode
  <2> QED BY <1>12, <2>1 DEF SizedBut
<1>15. ASSUME ~s.full
       PROVE  AllSized(u)
  <2>1. SizedAt(u, F)
    BY <1>8, <1>12, <1>14, <1>15, HalfIs, SMTT(40) DEF SizedAt, Room
  <2> QED BY <1>13, <2>1 DEF AllSized, SizedBut
<1>16. ASSUME s.full
       PROVE  /\ F \in DOMAIN u.node
              /\ Len(u.node[F].key) = MaxChildNumber
              /\ w2.level[F] = i + 1
              /\ w2.level[u.Root] = w.level[t.Root]
              /\ SizedBut(u, F)
  BY <1>8, <1>12, <1>13, <1>16
<1>17. PutHeld(w0, w2, x, r)
  BY <1>12, HeldOn
<1>18. Entered(w0, s, w2, x, r, i + 1, w.level[t.Root])
  BY <1>7, <1>8, <1>12, <1>15, <1>16, <1>17 DEF Entered
<1> QED BY <1>18

(* A turn that splits the root is the last one. *)
LEMMA SplitTurnRoot ==
  ASSUME NEW t, NEW w, Sound(t, w), NEW cur, cur \in DOMAIN t.node, cur = t.Root,
         Len(t.node[cur].key) = MaxChildNumber, SizedBut(t, cur),
         NEW w0, NEW x, NEW r, PutHeld(w0, w, x, r), NEW i, NEW h,
         NEW s, s = Split(t, cur)
  PROVE  \E w2 : Entered(w0, s, w2, x, r, i, h)
<1>1. PICK c : c = t.node[cur]
  OBVIOUS
<1>2. PICK p : p = c.key[Mid + 1]
  OBVIOUS
<1>3. /\ s.cur = cur /\ ~s.full
      /\ \E temp, root \in Nat \ {0} :
           /\ temp \notin DOMAIN t.node /\ root \notin DOMAIN t.node /\ temp # root
           /\ RootSplit(t, s.tree, cur, c, temp, root, p)
  BY <1>1, <1>2, SplitRootIs
<1>4. PICK temp, root \in Nat \ {0} :
        /\ temp \notin DOMAIN t.node /\ root \notin DOMAIN t.node /\ temp # root
        /\ RootSplit(t, s.tree, cur, c, temp, root, p)
  BY <1>3
<1>5. PICK u : u = s.tree
  OBVIOUS
<1>6. PICK w2 : SplitRootDone(t, w, u, w2, temp, root)
  BY <1>1, <1>2, <1>4, <1>5, SplitRootSound
<1>7. /\ Sound(u, w2) /\ SameHeld(w, w2) /\ u.Root = root
      /\ DOMAIN u.node = (DOMAIN t.node \cup {temp}) \cup {root}
      /\ temp # root /\ cur # root
      /\ Len(u.node[temp].key) = Mid
      /\ Len(u.node[cur].key) = Mid
      /\ Len(u.node[root].key) = 2
      /\ ~u.node[root].isLeaf
      /\ \A n \in DOMAIN t.node : n # cur => SameSize(t, u, n)
  BY <1>4, <1>6 DEF SplitRootDone
<1>8. AllSized(u)
  <2>1. ASSUME NEW n \in DOMAIN u.node
        PROVE  SizedAt(u, n)
    <3>1. CASE n = temp \/ n = cur
      <4>1. n # u.Root /\ Len(u.node[n].key) = Mid
        BY <1>7, <3>1
      <4> QED BY <4>1, HalfIs DEF SizedAt, Room
    <3>2. CASE n = root
      <4>1. Room(u, n) = 2 /\ Len(u.node[n].key) = 2
        BY <1>7, <3>2 DEF Room
      <4> QED BY <4>1, HalfIs DEF SizedAt
    <3>3. CASE n # temp /\ n # cur /\ n # root
      <4>1. n \in DOMAIN t.node
        BY <1>7, <2>1, <3>3
      <4>2. SameSize(t, u, n) /\ SizedAt(t, n)
        BY <1>7, <2>1, <3>3, <4>1 DEF SizedBut
      <4> QED BY <4>2, SameSized
    <3> QED BY <3>1, <3>2, <3>3
  <2> QED BY <2>1 DEF AllSized
<1>9. PutHeld(w0, w2, x, r)
  BY <1>7, HeldOn
<1>10. Entered(w0, s, w2, x, r, i, h)
  BY <1>3, <1>5, <1>7, <1>8, <1>9 DEF Entered
<1> QED BY <1>10

(* A turn that splits another node leaves at most its father full. *)
LEMMA SplitTurn ==
  ASSUME NEW w0, NEW s, NEW w, NEW x, NEW r, NEW i \in Nat, NEW h, Entered(w0, s, w, x, r, i, h), s.full,
         NEW s2, s2 = Split(s.tree, s.cur)
  PROVE  \E w2 : Entered(w0, s2, w2, x, r, i + 1, h)
<1>1. PICK t, cur : t = s.tree /\ cur = s.cur
  OBVIOUS
<1>2. /\ Sound(t, w) /\ PutHeld(w0, w, x, r) /\ cur \in DOMAIN t.node
      /\ Len(t.node[cur].key) = MaxChildNumber /\ w.level[cur] = i /\ w.level[t.Root] = h
      /\ SizedBut(t, cur) /\ s2 = Split(t, cur)
  BY <1>1 DEF Entered
<1>3. CASE cur = t.Root
  BY <1>2, <1>3, SplitTurnRoot
<1>4. CASE cur # t.Root
  BY <1>2, <1>4, SplitTurnInner
<1> QED BY <1>3, <1>4

(* Insert's loop over the levels. *)
InsertTurns(f, n, a) ==
  f = [i \in 0..n |-> IF i = 0 THEN a
                      ELSE LET s == f[i - 1] IN IF s.full THEN Split(s.tree, s.cur) ELSE s]

(* The recursion of Insert has a solution, ... *)
LEMMA InsertTurnsExist ==
  ASSUME NEW n \in Nat, NEW a
  PROVE  \E f : InsertTurns(f, n, a)
<1> DEFINE S == {m \in 0..n : \E f : InsertTurns(f, m, a)}
<1>1. 0 \in S
  <2> DEFINE f == [i \in 0..0 |-> a]
  <2>1. \A i \in 0..0 : i = 0
    OBVIOUS
  <2>2. InsertTurns(f, 0, a)
    BY <2>1 DEF InsertTurns
  <2> HIDE DEF f
  <2> QED BY <2>2
<1>2. ASSUME NEW m \in 0..n - 1, m \in S
      PROVE  m + 1 \in S
  <2>1. PICK f : InsertTurns(f, m, a)
    BY <1>2
  <2> DEFINE After(s) == IF s.full THEN Split(s.tree, s.cur) ELSE s
             g == [i \in 0..m + 1 |-> IF i = m + 1 THEN After(f[m]) ELSE f[i]]
  <2> HIDE DEF After
  <2>2. ASSUME NEW i \in 0..m
        PROVE  f[i] = IF i = 0 THEN a ELSE After(f[i - 1])
    BY <2>1 DEF InsertTurns, After
  <2>3. \A i \in 0..m + 1 : g[i] = IF i = m + 1 THEN After(f[m]) ELSE f[i]
    OBVIOUS
  <2>4. g = [i \in 0..m + 1 |-> g[i]]
    OBVIOUS
  <2> HIDE DEF g
  <2>5. ASSUME NEW i \in 0..m + 1
        PROVE  g[i] = IF i = 0 THEN a ELSE After(g[i - 1])
    <3>1. CASE i = m + 1
      <4>1. i # 0 /\ i - 1 = m /\ i - 1 \in 0..m + 1 /\ i - 1 # m + 1
        BY <1>2, <3>1
      <4>2. g[i] = After(f[m]) /\ g[i - 1] = f[m]
        BY <2>3, <3>1, <4>1
      <4> QED BY <4>1, <4>2
    <3>2. CASE i \in 0..m
      <4>1. i # m + 1 /\ (i # 0 => i - 1 \in 0..m + 1 /\ i - 1 # m + 1)
        BY <1>2, <3>2
      <4>2. g[i] = f[i] /\ (i # 0 => g[i - 1] = f[i - 1])
        BY <2>3, <2>5, <4>1
      <4> QED BY <2>2, <3>2, <4>2
    <3> QED BY <1>2, <3>1, <3>2
  <2>6. InsertTurns(g, m + 1, a)
    BY <2>4, <2>5 DEF InsertTurns, After
  <2> QED BY <1>2, <2>6
<1> HIDE DEF S
<1>3. n \in S
  BY <1>1, <1>2, UpTo
<1> QED BY <1>3 DEF S

(* ... which goes turn by turn. *)
LEMMA InsertTurnsAre ==
  ASSUME NEW f, NEW n \in Nat, NEW a, InsertTurns(f, n, a)
  PROVE  /\ f[0] = a
         /\ \A i \in 0..n - 1 : f[i + 1] = IF f[i].full THEN Split(f[i].tree, f[i].cur) ELSE f[i]
<1>1. \A i \in 0..n : f[i] = IF i = 0 THEN a
                      ELSE LET s == f[i - 1] IN IF s.full THEN Split(s.tree, s.cur) ELSE s
  BY DEF InsertTurns
<1>2. ASSUME NEW i \in 0..n - 1
      PROVE  f[i + 1] = IF f[i].full THEN Split(f[i].tree, f[i].cur) ELSE f[i]
  <2>1. i + 1 \in 0..n /\ i + 1 # 0 /\ (i + 1) - 1 = i
    OBVIOUS
  <2>2. PICK k : k = i + 1
    OBVIOUS
  <2>3. f[k] = LET s == f[k - 1] IN IF s.full THEN Split(s.tree, s.cur) ELSE s
    BY <1>1, <2>1, <2>2
  <2> QED BY <2>1, <2>2, <2>3
<1> QED BY <1>1, <1>2

-----------------------------------------------------------------------------
(* Insert as a whole. *)
LEMMA HeightIs ==
  ASSUME NEW t, NEW w, Sound(t, w)
  PROVE  Height(t) = w.level[t.Root] /\ Height(t) \in Nat
<1>1. Levels(t) = w.level
  BY SoundLeveled, LevelsAre
<1>2. w.level[t.Root] \in Nat
  BY SoundFrame
<1> QED BY <1>1, <1>2 DEF Height

(* Lowering keys leaves the levels. *)
LEMMA HeightLowered ==
  ASSUME NEW t, NEW w, Sound(t, w), NEW x \in Keys
  PROVE  Height(Lower(t, x)) = w.level[t.Root] /\ Height(Lower(t, x)) \in Nat
<1>1. PICK t2 : t2 = Lower(t, x)
  OBVIOUS
<1>2. IsTree(t) /\ \A n \in DOMAIN t.node : ~t.node[n].isLeaf => Len(t.node[n].key) # 0
  BY SoundFrame, SoundNode
<1>3. /\ t2.Root = t.Root /\ DOMAIN t2.node = DOMAIN t.node
      /\ \A n \in DOMAIN t.node :
           Has(t2.node[n], t.node[n].isLeaf, LowerNode(t, x, n), t.node[n].child,
               t.node[n].father, t.node[n].next, t.node[n].last)
  BY <1>1, <1>2, LowerIs
<1>4. Leveled(t, w.level)
  BY SoundLeveled
<1>5. \A n \in DOMAIN t.node : t2.node[n].isLeaf = t.node[n].isLeaf /\ t2.node[n].child = t.node[n].child
  BY <1>3 DEF Has
<1>6. Leveled(t2, w.level)
  BY <1>3, <1>4, <1>5 DEF Leveled
<1>7. Levels(t2) = w.level
  BY <1>6, LevelsAre
<1>8. w.level[t.Root] \in Nat
  BY SoundFrame
<1> QED BY <1>1, <1>3, <1>7, <1>8 DEF Height

Turned(w0, s, x, r, i, h) == \E w : Entered(w0, s, w, x, r, i, h)

(* A node above the root cannot be full. *)
LEMMA LastTurn ==
  ASSUME NEW w0, NEW s, NEW x, NEW r, NEW h \in Nat, Turned(w0, s, x, r, h + 1, h)
  PROVE  \E w : Sound(s.tree, w) /\ PutHeld(w0, w, x, r) /\ AllSized(s.tree)
<1>1. PICK w : Entered(w0, s, w, x, r, h + 1, h)
  BY DEF Turned
<1>2. PICK t, cur : t = s.tree /\ cur = s.cur
  OBVIOUS
<1>3. Sound(t, w) /\ PutHeld(w0, w, x, r)
  BY <1>1, <1>2 DEF Entered
<1>4. ~s.full
  <2>1. ASSUME s.full
        PROVE  FALSE
    <3>1. cur \in DOMAIN t.node /\ w.level[cur] = h + 1 /\ w.level[t.Root] = h
      BY <1>1, <1>2, <2>1 DEF Entered
    <3>2. w.level[cur] <= w.level[t.Root]
      BY <1>3, <3>1, SoundFrame
    <3> QED BY <3>1, <3>2
  <2> QED BY <2>1
<1> QED BY <1>1, <1>2, <1>3, <1>4 DEF Entered

(* A record put into a sound tree: the tree is sound, the record is in it, *)
(* and every node is as full as it should be.                              *)
LEMMA InsertSound ==
  ASSUME NEW t, NEW w, Sound(t, w), AllSized(t), NEW x \in Keys, NEW r, r \in {x} \X Versions[x],
         NEW l, l = Find(t, x), x \notin DOMAIN w.kids[l],
         NEW t2, t2 = Insert(Lower(t, x), l, x, r)
  PROVE  \E w2 : Sound(t2, w2) /\ PutHeld(w, w2, x, r) /\ AllSized(t2)
<1>1. PICK h \in Nat : h = Height(Lower(t, x)) /\ h = w.level[t.Root]
  BY HeightLowered
<1>2. PICK a : a = Enter(Lower(t, x), l, x, r)
  OBVIOUS
<1>3. PICK f : f = CHOOSE g : InsertTurns(g, h + 1, a)
  OBVIOUS
<1>4. h + 1 \in Nat /\ InsertTurns(f, h + 1, a)
  <2>1. h + 1 \in Nat
    OBVIOUS
  <2>2. \E g : InsertTurns(g, h + 1, a)
    BY <2>1, InsertTurnsExist
  <2> QED BY <1>3, <2>1, <2>2
<1>5. t2 = f[h + 1].tree
  BY <1>1, <1>2, <1>3 DEF Insert, InsertTurns
<1>6. /\ f[0] = a
      /\ \A i \in 0..h : f[i + 1] = IF f[i].full THEN Split(f[i].tree, f[i].cur) ELSE f[i]
  <2>1. (h + 1) - 1 = h
    OBVIOUS
  <2> QED BY <1>4, <2>1, InsertTurnsAre
<1>7. Turned(w, a, x, r, 0, h)
  <2>1. \E w2 : Entered(w, a, w2, x, r, 0, w.level[t.Root])
    BY <1>2, EnterTurn
  <2> QED BY <1>1, <2>1 DEF Turned
<1> DEFINE S == {i \in 0..h + 1 : Turned(w, f[i], x, r, i, h)}
<1>8. 0 \in S
  BY <1>6, <1>7
<1>9. ASSUME NEW i \in 0..h, i \in S
      PROVE  i + 1 \in S
  <2>1. PICK s, s2 : s = f[i] /\ s2 = f[i + 1]
    OBVIOUS
  <2>2. s2 = IF s.full THEN Split(s.tree, s.cur) ELSE s
    BY <1>6, <1>9, <2>1
  <2>3. PICK w2 : Entered(w, s, w2, x, r, i, h)
    BY <1>9, <2>1 DEF Turned
  <2>4. i \in Nat
    BY <1>9
  <2>5. CASE s.full
    <3>1. s2 = Split(s.tree, s.cur)
      BY <2>2, <2>5
    <3>2. \E w3 : Entered(w, s2, w3, x, r, i + 1, h)
      BY <2>3, <2>4, <2>5, <3>1, SplitTurn
    <3> QED BY <2>1, <3>2 DEF Turned
  <2>6. CASE ~s.full
    <3>1. s2 = s
      BY <2>2, <2>6
    <3>2. Entered(w, s, w2, x, r, i + 1, h)
      BY <2>3, <2>6 DEF Entered
    <3>3. Turned(w, s, x, r, i + 1, h)
      BY <3>2 DEF Turned
    <3>4. f[i + 1] = s /\ i + 1 \in 0..h + 1
      BY <1>9, <2>1, <3>1
    <3> QED BY <3>3, <3>4
  <2> QED BY <2>5, <2>6
<1> HIDE DEF S
<1>10. h + 1 \in S
  <2>1. h + 1 \in Nat /\ (h + 1) - 1 = h /\ h + 1 \in 0..h + 1
    OBVIOUS
  <2>2. \A i \in 0..(h + 1) - 1 : i \in S => i + 1 \in S
    BY <1>9, <2>1
  <2> QED BY <1>8, <2>1, <2>2, UpTo
<1>11. Turned(w, f[h + 1], x, r, h + 1, h)
  BY <1>10 DEF S
<1>12. PICK s : s = f[h + 1]
  OBVIOUS
<1> QED BY <1>5, <1>11, <1>12, LastTurn

-----------------------------------------------------------------------------
(* An entry is taken out of a node. *)
TakeFromAt(gk, gc, ks, cs, i) == gk = RemoveAt(ks, i) /\ gc = RemoveAt(cs, i)

(* The arrays without the entry for p at position i. *)
LEMMA RemoveStores ==
  ASSUME NEW isLeaf, NEW ks, NEW cs, NEW F, Holds(isLeaf, ks, cs, F),
         NEW i, NEW p, KeyAt(p, ks, i),
         NEW gk, NEW gc, TakeFromAt(gk, gc, ks, cs, i)
  PROVE  Len(gk) = Len(ks) - 1 /\ OmitsAt(gk, ks, i) /\ Holds(isLeaf, gk, gc, Minus(F, p))
<1> USE DEF Holds, KeyAt, TakeFromAt
<1>1. i \in 1..Len(ks) /\ p = ks[i] /\ Arrays(Cell, ks, cs)
  OBVIOUS
<1>2. /\ Arrays(Cell, gk, gc)
      /\ Len(gk) = Len(ks) - 1
      /\ Kids(gk, gc) = Minus(Kids(ks, cs), ks[i])
  BY <1>1, RemoveKids
<1>3. OmitsAt(gk, ks, i) /\ OmitsAt(gc, cs, i)
  <2>1. ks \in Seq(Keys) /\ cs \in Seq(Cell) /\ Len(cs) = Len(ks)
    BY <1>1 DEF Arrays
  <2>2. OmitsAt(gk, ks, i)
    BY <1>1, <2>1, RemoveAtElements
  <2>3. i \in 1..Len(cs)
    BY <1>1, <2>1
  <2>4. OmitsAt(gc, cs, i)
    BY <2>1, <2>3, RemoveAtElements
  <2> QED BY <2>2, <2>4
<1>4. Fits(isLeaf, gk, gc)
  <2>1. SUFFICES ASSUME isLeaf, NEW j \in 1..Len(gk)
                 PROVE  gc[j] \in {gk[j]} \X Versions[gk[j]]
    BY DEF Fits
  <2>2. \A m \in 1..Len(ks) : cs[m] \in {ks[m]} \X Versions[ks[m]]
    BY <2>1 DEF Fits
  <2>3. Len(cs) = Len(ks) /\ Len(ks) \in Nat
    BY <1>1 DEF Arrays
  <2>4. /\ gk[j] = IF j < i THEN ks[j] ELSE ks[j + 1]
        /\ gc[j] = IF j < i THEN cs[j] ELSE cs[j + 1]
    BY <1>2, <1>3, <2>1, <2>3 DEF OmitsAt
  <2>5. j \in 1..Len(ks) /\ j + 1 \in 1..Len(ks)
    BY <1>2, <2>1, <2>3
  <2>6. CASE j < i
    BY <2>2, <2>4, <2>5, <2>6
  <2>7. CASE ~(j < i)
    <3>1. PICK m : m = j + 1
      OBVIOUS
    <3> QED BY <2>2, <2>4, <2>5, <2>7, <3>1
  <2> QED BY <2>6, <2>7
<1> QED BY <1>2, <1>3, <1>4

(* The arrays after CutAt. *)
LEMMA CutAtIs ==
  ASSUME NEW t, IsTree(t), NEW c, c \in DOMAIN t.node, NEW nd, nd = t.node[c], NEW i
  PROVE  CutAt(t, c, i) = WithArrays(t, c, RemoveAt(nd.key, i), RemoveAt(nd.child, i))
<1>1. PICK D : D = DOMAIN t.node
  OBVIOUS
<1>2. t \in [Root : Nat, node : [D -> Node]] /\ c \in D
  BY <1>1 DEF IsTree
<1>3. nd \in Node
  BY <1>2
<1>4. PICK ks, cs : ks = RemoveAt(nd.key, i) /\ cs = RemoveAt(nd.child, i)
  OBVIOUS
<1>5. WithArrays(t, c, ks, cs) = [t EXCEPT !.node[c] = [nd EXCEPT !.key = ks, !.child = cs]]
  BY <1>2 DEF WithArrays
<1>6. CutAt(t, c, i) = [t EXCEPT !.node[c] = [nd EXCEPT !.key = ks, !.child = cs]]
  BY <1>2, <1>3, <1>4 DEF Node, CutAt
<1> QED BY <1>4, <1>5, <1>6

(* What TakeOut does to a leaf. *)
TakenOutOfLeaf(t, l, x, t1, i, c, s) ==
  /\ (i = 1 /\ l # t.Root) => s.tree = RaiseAncestors(t1, l, x)
  /\ ~(i = 1 /\ l # t.Root) => s.tree = t1
  /\ s.cur = l
  /\ s.short <=> (Len(c.key) - 1) * 2 < MaxChildNumber

(* What TakeOut does to a leaf. *)
LEMMA TakeOutLeafIs ==
  ASSUME NEW t, NEW l, NEW c, c = t.node[l], c.isLeaf, NEW x,
         NEW i, i = Binary_Search(c, x), NEW t1, t1 = CutAt(t, l, i), NEW s, s = TakeOut(t, l, x)
  PROVE  TakenOutOfLeaf(t, l, x, t1, i, c, s)
BY DEF TakeOut, TakenOutOfLeaf

(* What the loss of a record comes to. *)
TakenDone(t, w, t2, w2, l, x) ==
  /\ Sound(t2, w2)
  /\ TakenHeld(w, w2, x)
  /\ w2.level = w.level
  /\ t2.Root = t.Root
  /\ DOMAIN t2.node = DOMAIN t.node
  /\ Len(t2.node[l].key) = Len(t.node[l].key) - 1
  /\ t2.node[l].isLeaf
  /\ \A n \in DOMAIN t.node : n # l => SameSize(t, t2, n)

(* The tree with one entry cut out of a leaf. *)
CutLeaf(t, w, t1, l, x) ==
  /\ IsTree(t1)
  /\ t1.Root = t.Root /\ DOMAIN t1.node = DOMAIN t.node
  /\ Has(t1.node[l], TRUE, t1.node[l].key, t1.node[l].child,
         t.node[l].father, t.node[l].next, t.node[l].last)
  /\ Stores(t1.node[l])
  /\ Kids(t1.node[l].key, t1.node[l].child) = Minus(w.kids[l], x)
  /\ Len(t1.node[l].key) = Len(t.node[l].key) - 1
  /\ \A n \in DOMAIN t.node : n # l => t1.node[n] = t.node[n]

(* The leaf without the entry. *)
LEMMA CutLeafIs ==
  ASSUME NEW t, NEW w, Sound(t, w), NEW l, l \in DOMAIN t.node, NEW c, c = t.node[l], c.isLeaf,
         NEW i, NEW x, KeyAt(x, c.key, i), NEW t1, t1 = CutAt(t, l, i)
  PROVE  CutLeaf(t, w, t1, l, x) /\ OmitsAt(t1.node[l].key, c.key, i)
<1>1. PICK ks, cs : ks = c.key /\ cs = c.child
  OBVIOUS
<1>2. PICK gk, gc : gk = RemoveAt(ks, i) /\ gc = RemoveAt(cs, i)
  OBVIOUS
<1>3. PICK lf : lf = c.isLeaf
  OBVIOUS
<1>4. Holds(lf, ks, cs, w.kids[l])
  <2>1. Holds(c.isLeaf, c.key, c.child, w.kids[l])
    BY SoundHolds
  <2> QED BY <1>1, <1>3, <2>1
<1>5. Len(gk) = Len(ks) - 1 /\ OmitsAt(gk, ks, i) /\ Holds(lf, gk, gc, Minus(w.kids[l], x))
  <2>1. KeyAt(x, ks, i) /\ TakeFromAt(gk, gc, ks, cs, i)
    BY <1>1, <1>2 DEF TakeFromAt
  <2> QED BY <1>4, <2>1, RemoveStores
<1>6. gk \in Seq(Keys) /\ gc \in Seq(Cell) /\ Arrays(Cell, gk, gc) /\ Fits(lf, gk, gc)
      /\ Kids(gk, gc) = Minus(w.kids[l], x)
  BY <1>5 DEF Holds, Arrays
<1>7. IsTree(t)
  BY SoundFrame
<1>8. t1 = WithArrays(t, l, gk, gc)
  BY <1>1, <1>2, <1>7, CutAtIs
<1>9. /\ IsTree(t1)
      /\ t1.Root = t.Root /\ DOMAIN t1.node = DOMAIN t.node
      /\ Has(t1.node[l], c.isLeaf, gk, gc, c.father, c.next, c.last)
      /\ \A n \in DOMAIN t.node : n # l => t1.node[n] = t.node[n]
  <2>1. /\ IsTree(t1)
      /\ t1.Root = t.Root /\ DOMAIN t1.node = DOMAIN t.node
      /\ Has(t1.node[l], t.node[l].isLeaf, gk, gc, t.node[l].father, t.node[l].next, t.node[l].last)
      /\ \A n \in DOMAIN t.node : n # l => t1.node[n] = t.node[n]
    <3>1. gk \in Seq(Keys) /\ gc \in Seq(Cell)
      BY <1>6
    <3>2. IsTree(t1) /\ t1.Root = t.Root /\ DOMAIN t1.node = DOMAIN t.node
      BY <1>7, <1>8, <3>1, WithArraysIs
    <3>3. Has(t1.node[l], t.node[l].isLeaf, gk, gc, t.node[l].father, t.node[l].next, t.node[l].last)
      BY <1>7, <1>8, <3>1, WithArraysIs
    <3>4. \A n \in DOMAIN t.node : n # l => t1.node[n] = t.node[n]
      BY <1>7, <1>8, <3>1, WithArraysIs
    <3> QED BY <3>2, <3>3, <3>4
  <2> QED BY <2>1
<1>10. PICK d : d = t1.node[l]
  OBVIOUS
<1>11. d.isLeaf = lf /\ d.key = gk /\ d.child = gc /\ d.isLeaf
  BY <1>3, <1>9, <1>10 DEF Has
<1>12. Stores(d)
  <2>1. lf
    BY <1>3
  <2> QED BY <1>6, <1>11, <2>1, StoresIs
<1>13. c \in Node /\ c.isLeaf \in BOOLEAN
  <2>1. c \in Node
    BY SoundNode
  <2> QED BY <2>1, NodeHas
<1>14. Has(t1.node[l], TRUE, t1.node[l].key, t1.node[l].child,
         t.node[l].father, t.node[l].next, t.node[l].last)
  BY <1>9, <1>13 DEF Has
<1>15. Kids(t1.node[l].key, t1.node[l].child) = Minus(w.kids[l], x)
  BY <1>6, <1>10, <1>11
<1>16. Len(t1.node[l].key) = Len(t.node[l].key) - 1 /\ OmitsAt(t1.node[l].key, c.key, i)
  BY <1>1, <1>5, <1>10, <1>11
<1>17. Stores(t1.node[l])
  BY <1>10, <1>12
<1> QED BY <1>9, <1>14, <1>15, <1>16, <1>17 DEF CutLeaf

(* A record is taken out of a leaf whose smallest key stays. *)
LEMMA TakenPlain ==
  ASSUME NEW t, NEW w, Sound(t, w), NEW l, l \in DOMAIN t.node, t.node[l].isLeaf,
         NEW x \in Int, x \in DOMAIN w.kids[l], l # t.Root => \E k \in Int : LeastKey(w, l, k) /\ k # x,
         NEW t1, CutLeaf(t, w, t1, l, x)
  PROVE  \E w2 : TakenDone(t, w, t1, w2, l, x)
<1>1. /\ IsTree(t1)
      /\ t1.Root = t.Root /\ DOMAIN t1.node = DOMAIN t.node
      /\ Has(t1.node[l], TRUE, t1.node[l].key, t1.node[l].child,
             t.node[l].father, t.node[l].next, t.node[l].last)
      /\ Stores(t1.node[l])
      /\ Kids(t1.node[l].key, t1.node[l].child) = Minus(w.kids[l], x)
      /\ Len(t1.node[l].key) = Len(t.node[l].key) - 1
      /\ \A n \in DOMAIN t.node : n # l => t1.node[n] = t.node[n]
  BY DEF CutLeaf
<1>2. /\ Shape(w) /\ Linked(w)
      /\ w.nodes = DOMAIN t.node /\ w.root = t.Root
  BY SoundFrame
<1>3. w.level[l] = 0
  BY SoundSees
<1>4. PICK w2 : w2 = View(t1, w.level, w.area)
  OBVIOUS
<1>5. /\ w2.nodes = DOMAIN t1.node /\ w2.root = t1.Root
      /\ w2.level = w.level /\ w2.area = w.area
      /\ \A n \in DOMAIN t1.node : /\ w2.kids[n] = Kids(t1.node[n].key, t1.node[n].child)
                                   /\ w2.father[n] = t1.node[n].father
                                   /\ w2.next[n] = t1.node[n].next
                                   /\ w2.last[n] = t1.node[n].last
  BY <1>4, ViewIs
<1>6. ASSUME NEW n, n \in DOMAIN t.node
      PROVE  /\ Stores(t1.node[n])
             /\ t1.node[n].isLeaf <=> w.level[n] = 0
             /\ w2.father[n] = w.father[n] /\ w2.next[n] = w.next[n] /\ w2.last[n] = w.last[n]
             /\ n # l => w2.kids[n] = w.kids[n]
  <2>1. /\ w.kids[n] = Kids(t.node[n].key, t.node[n].child)
        /\ w.father[n] = t.node[n].father
        /\ w.next[n] = t.node[n].next
        /\ w.last[n] = t.node[n].last
        /\ t.node[n].isLeaf <=> w.level[n] = 0
        /\ Stores(t.node[n])
    BY <1>6, SoundSees, SoundFits
  <2>2. CASE n = l
    BY <1>1, <1>3, <1>5, <1>6, <2>1, <2>2 DEF Has
  <2>3. CASE n # l
    <3>1. t1.node[n] = t.node[n]
      BY <1>1, <1>6, <2>3
    <3> QED BY <1>1, <1>5, <1>6, <2>1, <2>3, <3>1
  <2> QED BY <2>2, <2>3
<1>7. w2.nodes = w.nodes /\ w2.root = w.root /\ w2.kids[l] = Minus(w.kids[l], x)
  BY <1>1, <1>2, <1>5
<1>8. SameTree(w, w2)
  BY <1>2, <1>5, <1>6, <1>7 DEF SameTree
<1>9. LeafView(w, w2, l)
  BY <1>2, <1>5, <1>6, <1>8 DEF LeafView
<1>10. Shape(w2)
  <2>1. DOMAIN w2.kids[l] = DOMAIN w.kids[l] \ {x}
    BY <1>7 DEF Minus
  <2>2. DOMAIN w.kids[l] \subseteq w.area[l]
    BY <1>2 DEF Shape
  <2>3. ASSUME l # w.root, NEW k \in Int, LeastOf(DOMAIN w.kids[l], k)
        PROVE  LeastOf(DOMAIN w2.kids[l], k)
    <3>1. PICK j \in Int : LeastOf(DOMAIN w.kids[l], j) /\ j # x
      BY <1>2, <2>3 DEF LeastKey
    <3>2. j = k
      BY <2>3, <3>1 DEF LeastOf
    <3> QED BY <2>1, <2>3, <3>1, <3>2 DEF LeastOf
  <2> QED BY <1>2, <1>3, <1>9, <2>1, <2>2, <2>3, LeafShape
<1>11. Linked(w2)
  <2>1. SameLinks(w, w2)
    BY <1>2, <1>6 DEF SameLinks
  <2> QED BY <1>2, <1>5, <1>8, <2>1, SameAreasLinked
<1>12. Sound(t1, w2)
  <2>1. \A n \in DOMAIN t1.node : Stores(t1.node[n])
    BY <1>1, <1>6
  <2>2. \A n \in DOMAIN t1.node : t1.node[n].isLeaf <=> w.level[n] = 0
    BY <1>1, <1>6
  <2> QED BY <1>1, <1>4, <1>10, <1>11, <2>1, <2>2, SoundFrom
<1>13. TakenHeld(w, w2, x)
  <2>1. Leaf(w, l)
    BY <1>2, <1>3 DEF Leaf
  <2>2. \A n \in w.nodes : w.level[n] = 0 /\ n # l => w2.kids[n] = w.kids[n]
    BY <1>2, <1>6
  <2> QED BY <1>2, <1>5, <1>7, <2>1, <2>2, MinusHeld
<1>14. \A n \in DOMAIN t.node : n # l => SameSize(t, t1, n)
  BY <1>1 DEF SameSize
<1>15. t1.node[l].isLeaf
  BY <1>1 DEF Has
<1>16. TakenDone(t, w, t1, w2, l, x)
  BY <1>1, <1>5, <1>12, <1>13, <1>14, <1>15 DEF TakenDone
<1> QED BY <1>16

-----------------------------------------------------------------------------
(* The positions that the smallest key of a leaf has in the nodes above.   *)
(* t1 is the tree without the key in the leaf: the rest is as in t.        *)
SameAbove(t, t1) ==
  /\ t1.Root = t.Root /\ DOMAIN t1.node = DOMAIN t.node
  /\ \A n \in DOMAIN t.node : t1.node[n].father = t.node[n].father
  /\ \A n \in DOMAIN t.node : ~t.node[n].isLeaf => t1.node[n] = t.node[n]
IsOutdated(above, t, key) ==
  above = [n \in DOMAIN t.node |->
             LET father == t.node[n].father
             IN  IF n = t.Root THEN {}
                 ELSE IF n = t.node[father].child[1] THEN {<<father, 1>>} \cup above[father]
                 ELSE {<<father, Binary_Search(t.node[father], key)>>}]

(* The recursion of Outdated has a solution. *)
LEMMA OutdatedExists ==
  ASSUME NEW t, NEW w, Sound(t, w), NEW t1, SameAbove(t, t1), NEW key
  PROVE  \E h : IsOutdated(h, t1, key)
<1>1. PICK N : N = DOMAIN t.node
  OBVIOUS
<1>2. PICK stop : stop = {n \in N : n = t1.Root \/ n # t1.node[t1.node[n].father].child[1]}
  OBVIOUS
<1>3. PICK nx : nx = [n \in N |-> t1.node[n].father]
  OBVIOUS
<1>4. PICK b : b = [n \in N |->
                     LET father == t1.node[n].father
                     IN  IF n = t1.Root THEN {}
                         ELSE IF n = t1.node[father].child[1] THEN {<<father, 1>>}
                         ELSE {<<father, Binary_Search(t1.node[father], key)>>}]
  OBVIOUS
<1>5. PICK h \in Nat : h = w.level[t.Root]
  BY SoundFrame
<1>6. PICK rank : rank = [n \in N |-> h - w.level[n]]
  OBVIOUS
<1>7. /\ w.nodes = N /\ w.root = t.Root
      /\ \A n \in N : w.level[n] \in Nat
      /\ \A n \in N : w.level[n] <= h
  BY <1>1, <1>5, SoundFrame
<1>8. rank \in [N -> Nat] /\ \A n \in N : rank[n] <= h
  BY <1>6, <1>7
<1>9. ASSUME NEW n \in N, n \notin stop
      PROVE  nx[n] \in N /\ rank[nx[n]] < rank[n]
  <2>1. n # t.Root /\ n \in DOMAIN t.node
    BY <1>1, <1>2, <1>9 DEF SameAbove
  <2>2. PICK F : F = t.node[n].father
    OBVIOUS
  <2>3. F \in DOMAIN t.node /\ w.level[F] \in Nat /\ w.level[n] \in Nat /\ w.level[F] = w.level[n] + 1
    BY <2>1, <2>2, NodeFather
  <2>4. nx[n] = F
    BY <1>1, <1>3, <2>1, <2>2 DEF SameAbove
  <2> QED BY <1>1, <1>6, <2>1, <2>3, <2>4
<1>10. PICK f : Gathers(f, N, stop, b, nx)
  BY <1>5, <1>8, <1>9, GathersExists
<1>11. \A n \in N : f[n] = IF n \in stop THEN b[n] ELSE b[n] \cup f[nx[n]]
  BY <1>10 DEF Gathers
<1>12. f = [n \in N |-> f[n]]
  BY <1>10 DEF Gathers
<1>13. N = DOMAIN t1.node
  BY <1>1 DEF SameAbove
<1>14. ASSUME NEW n \in N
       PROVE  f[n] = LET father == t1.node[n].father
                     IN  IF n = t1.Root THEN {}
                         ELSE IF n = t1.node[father].child[1] THEN {<<father, 1>>} \cup f[father]
                         ELSE {<<father, Binary_Search(t1.node[father], key)>>}
  <2>1. CASE n = t1.Root
    BY <1>2, <1>4, <1>11, <2>1
  <2>2. CASE n # t1.Root /\ n = t1.node[t1.node[n].father].child[1]
    BY <1>2, <1>3, <1>4, <1>11, <2>2
  <2>3. CASE n # t1.Root /\ n # t1.node[t1.node[n].father].child[1]
    BY <1>2, <1>4, <1>11, <2>3
  <2> QED BY <2>1, <2>2, <2>3
<1>15. IsOutdated(f, t1, key)
  BY <1>12, <1>13, <1>14 DEF IsOutdated
<1> QED BY <1>15

(* One step of it. *)
LEMMA OutdatedTurns ==
  ASSUME NEW t, NEW t1, SameAbove(t, t1), NEW key, NEW h, IsOutdated(h, t1, key),
         NEW n, n \in DOMAIN t.node, NEW F, F = t.node[n].father, NEW f, f = t.node[F],
         F \in DOMAIN t.node, ~f.isLeaf
  PROVE  /\ n = t.Root => h[n] = {}
         /\ n # t.Root /\ n = f.child[1] => h[n] = {<<F, 1>>} \cup h[F]
         /\ n # t.Root /\ n # f.child[1] => h[n] = {<<F, Binary_Search(f, key)>>}
<1>1. n \in DOMAIN t1.node /\ t1.Root = t.Root /\ t1.node[n].father = F /\ t1.node[F] = f
  BY DEF SameAbove
<1>2. h[n] = LET father == t1.node[n].father
             IN  IF n = t1.Root THEN {}
                 ELSE IF n = t1.node[father].child[1] THEN {<<father, 1>>} \cup h[father]
                 ELSE {<<father, Binary_Search(t1.node[father], key)>>}
  BY <1>1 DEF IsOutdated
<1>3. h[n] = IF n = t.Root THEN {}
             ELSE IF n = f.child[1] THEN {<<F, 1>>} \cup h[F]
             ELSE {<<F, Binary_Search(f, key)>>}
  BY <1>1, <1>2
<1> QED BY <1>3

(* It ends at the root. *)
LEMMA OutdatedRoot ==
  ASSUME NEW t, NEW t1, SameAbove(t, t1), NEW key, NEW h, IsOutdated(h, t1, key),
         t.Root \in DOMAIN t.node
  PROVE  h[t.Root] = {}
BY DEF SameAbove, IsOutdated

(* A key that is also in a node further up is the smallest of its node.    *)
LEMMA HigherLeast ==
  ASSUME NEW w, Shape(w), Branches(w), NEW F \in w.nodes, NEW m \in w.nodes,
         w.level[m] > w.level[F], w.level[F] # 0,
         NEW key \in Int, key \in DOMAIN w.kids[m], key \in DOMAIN w.kids[F]
  PROVE  LeastKey(w, F, key)
<1>1. w.level[m] \in Nat /\ w.level[F] \in Nat /\ w.level[m] # 0
  BY DEF Shape
<1>2. PICK c : c = w.kids[m][key]
  OBVIOUS
<1>3. /\ key \in w.area[c] /\ c \in w.nodes
      /\ w.level[c] \in Nat /\ w.level[m] = w.level[c] + 1
      /\ LeastOf(DOMAIN w.kids[c], key)
  BY <1>1, <1>2, ChildEdge
<1>4. DOMAIN w.kids[F] \subseteq w.area[F] /\ w.area[F] \subseteq Int
  BY DEF Shape
<1>5. w.area[F] \subseteq w.area[c]
  <2>1. w.level[F] <= w.level[c] /\ key \in w.area[F]
    BY <1>1, <1>3, <1>4
  <2> QED BY <1>3, <2>1, AreasNested
<1>6. ASSUME NEW j \in DOMAIN w.kids[F]
      PROVE  key <= j
  <2>1. j \in Int /\ j \in w.area[c]
    BY <1>4, <1>5
  <2>2. PICK l \in w.nodes : w.level[l] = 0 /\ LeastOf(DOMAIN w.kids[l], j)
    BY InnerKeyIsInLeaf
  <2>3. j \in DOMAIN w.kids[l]
    BY <2>2 DEF LeastOf
  <2> QED BY <1>3, <2>1, <2>2, <2>3, LeastBelow
<1> QED BY <1>6 DEF LeastKey, LeastOf

(* Node m, above node n, has key at position i. *)
InAncestor(t, w, n, key, m, i) ==
  /\ m \in w.nodes
  /\ w.level[m] > w.level[n]
  /\ i \in 1..Len(t.node[m].key)
  /\ t.node[m].key[i] = key
OutdatedAt(t, w, S, n, key) == \A m, i : <<m, i>> \in S <=> InAncestor(t, w, n, key, m, i)

(* A key of a node is found at its position. *)
LEMMA SearchedAt ==
  ASSUME NEW t, NEW w, Sound(t, w), NEW n, n \in DOMAIN t.node,
         Len(t.node[n].key) # 0, NEW j, NEW x \in Int, KeyAt(x, t.node[n].key, j)
  PROVE  Binary_Search(t.node[n], x) = j
<1>1. PICK nd : nd = t.node[n]
  OBVIOUS
<1>2. PICK i : i = Binary_Search(nd, x)
  OBVIOUS
<1>3. Len(nd.key) # 0
  BY <1>1
<1>4. i \in 1..Len(nd.key) /\ Leads(w, n, x, nd.key[i])
  BY <1>1, <1>2, <1>3, NodeSearched
<1>5. nd.key \in Seq(Keys) /\ Ascending(nd.key)
  BY <1>1, SoundNode
<1>6. \A q \in 1..Len(nd.key) : nd.key[q] \in Int /\ nd.key[q] \in DOMAIN w.kids[n]
  BY <1>1, NodeKids
<1>7. j \in 1..Len(nd.key) /\ nd.key[j] = x
  BY <1>1 DEF KeyAt
<1>8. nd.key[i] = x
  <2>1. PICK k \in Int : k = nd.key[i]
    BY <1>4, <1>6
  <2>2. x \in DOMAIN w.kids[n]
    BY <1>6, <1>7
  <2>3. PICK K : K = DOMAIN w.kids[n]
    OBVIOUS
  <2>4. Chosen(K, x, k) /\ x \in K
    BY <1>4, <2>1, <2>2, <2>3 DEF Leads
  <2>5. k = x
    BY <2>4 DEF Chosen
  <2> QED BY <2>1, <2>5
<1>9. i = j
  BY <1>4, <1>5, <1>7, <1>8, AscendingUnique
<1> QED BY <1>1, <1>2, <1>9

(* The first key of a first child is the first key of its father. *)
LEMMA FatherPosition ==
  ASSUME NEW t, NEW w, Sound(t, w), NEW n, n \in DOMAIN t.node, n # t.Root,
         NEW key \in Int, LeastKey(w, n, key),
         NEW F, F = t.node[n].father, NEW f, f = t.node[F]
  PROVE  /\ F \in DOMAIN t.node /\ F \in w.nodes /\ ~f.isLeaf
         /\ w.level[F] \in Nat /\ w.level[n] \in Nat /\ w.level[F] = w.level[n] + 1
         /\ f.key \in Seq(Keys) /\ Ascending(f.key) /\ Len(f.key) # 0
         /\ key \in DOMAIN w.kids[F]
         /\ \E j \in 1..Len(f.key) : /\ f.key[j] = key /\ f.child[j] = n
                                     /\ Binary_Search(f, key) = j
                                     /\ f.child[1] = n <=> j = 1
                                     /\ LeastKey(w, F, key) <=> j = 1
<1>1. /\ F \in DOMAIN t.node /\ F \in w.nodes /\ ~f.isLeaf
      /\ w.level[F] \in Nat /\ w.level[n] \in Nat /\ w.level[F] = w.level[n] + 1
  BY NodeFather
<1>2. f.key \in Seq(Keys) /\ Ascending(f.key) /\ Len(f.key) # 0 /\ Len(f.key) \in Nat
  BY <1>1, SoundNode
<1>3. /\ Shape(w) /\ n \in w.nodes /\ n # w.root /\ w.father[n] = F
  BY SoundFrame, SoundSees
<1>4. key \in DOMAIN w.kids[F] /\ w.kids[F][key] = n
  BY <1>3, FatherKey DEF LeastKey
<1>5a. F \in DOMAIN t.node
  BY <1>1
<1>5c. \A i \in 1..Len(f.key) : f.key[i] \in Int /\ f.key[i] \in DOMAIN w.kids[F]
  BY <1>5a, NodeKids
<1>5d. \A k \in DOMAIN w.kids[F] : \E i \in 1..Len(f.key) : f.key[i] = k
  BY <1>5a, NodeKids
<1>5e. Len(f.key) # 0 => LeastKey(w, F, f.key[1])
  BY <1>5a, NodeKids
<1>5f. Pairs(w.kids[F], f.key, f.child)
  BY <1>5a, NodePairs
<1>5. PICK j \in 1..Len(f.key) : f.key[j] = key
  BY <1>4, <1>5d
<1>6. f.child[j] = n
  <2>1. w.kids[F][f.key[j]] = f.child[j]
    BY <1>5, <1>5f DEF Pairs
  <2> QED BY <1>4, <1>5, <2>1
<1>7. Binary_Search(f, key) = j
  <2>1. Len(f.key) # 0
    BY <1>2
  <2>2. KeyAt(key, f.key, j)
    BY <1>5 DEF KeyAt
  <2>3. PICK i : i = j
    OBVIOUS
  <2>4. KeyAt(key, f.key, i)
    BY <2>2, <2>3
  <2>5. Binary_Search(f, key) = i
    BY <1>5a, <2>1, <2>4, SearchedAt
  <2> QED BY <2>3, <2>5
<1>8. 1 \in 1..Len(f.key) /\ LeastKey(w, F, f.key[1]) /\ f.key[1] \in Int
  <2>1. 1 \in 1..Len(f.key)
    BY <1>2
  <2> QED BY <1>2, <1>5c, <1>5e, <2>1
<1>9. LeastKey(w, F, key) <=> j = 1
  <2>1. ASSUME LeastKey(w, F, key)
        PROVE  j = 1
    <3>1. key = f.key[1]
      BY <1>8, <2>1 DEF LeastKey, LeastOf
    <3>2. f.key[j] = f.key[1]
      BY <1>5, <3>1
    <3> QED BY <1>2, <1>8, <3>2, AscendingUnique
  <2>2. ASSUME j = 1
        PROVE  LeastKey(w, F, key)
    BY <1>5, <1>8, <2>2
  <2> QED BY <2>1, <2>2
<1>10. f.child[1] = n <=> j = 1
  <2>1. ASSUME f.child[1] = n
        PROVE  j = 1
    <3>1. t.node[n].key[1] = f.key[1] /\ Len(t.node[n].key) # 0
      <4>1. PICK i \in 1..Len(f.key) : i = 1
        BY <1>8
      <4>2. PICK c : c = f.child[i]
        OBVIOUS
      <4>3. F \in DOMAIN t.node /\ f = t.node[F] /\ ~f.isLeaf
        BY <1>1
      <4>4. Len(t.node[c].key) # 0 /\ t.node[c].key[1] = f.key[i]
        <5>1. ChildAt(t, F, f, i, c)
          BY <4>2, <4>3 DEF ChildAt
        <5> QED BY <5>1, ChildKey
      <4> QED BY <2>1, <4>1, <4>2, <4>4
    <3>2. LeastKey(w, n, t.node[n].key[1]) /\ t.node[n].key[1] \in Int
      BY <1>8, <3>1, NodeKids
    <3>3. key = f.key[1]
      BY <3>1, <3>2, SMTT(40) DEF LeastKey, LeastOf
    <3>4. f.key[j] = f.key[1]
      BY <1>5, <3>3
    <3> QED BY <1>2, <1>8, <3>4, AscendingUnique
  <2>2. ASSUME j = 1
        PROVE  f.child[1] = n
    BY <1>6, <2>2
  <2> QED BY <2>1, <2>2
<1> QED BY <1>1, <1>2, <1>4, <1>5, <1>6, <1>7, <1>9, <1>10

(* It gives the places above the leaf that have its smallest key. *)
LEMMA OutdatedIs ==
  ASSUME NEW t, NEW w, Sound(t, w), NEW t1, SameAbove(t, t1), NEW key \in Int,
         NEW l, l \in DOMAIN t.node, LeastKey(w, l, key)
  PROVE  OutdatedAt(t, w, Outdated(t1, l, key), l, key)
<1>1. PICK h : h = CHOOSE g : IsOutdated(g, t1, key)
  OBVIOUS
<1>2. IsOutdated(h, t1, key)
  <2>1. \E g : IsOutdated(g, t1, key)
    BY OutdatedExists
  <2> QED BY <1>1, <2>1
<1>3. Outdated(t1, l, key) = h[l]
  BY <1>1 DEF Outdated, IsOutdated
<1>4. /\ Shape(w) /\ w.nodes = DOMAIN t.node /\ w.root = t.Root /\ t.Root \in DOMAIN t.node
      /\ \A n \in w.nodes : w.level[n] \in Nat
      /\ \A n \in w.nodes : w.level[n] <= w.level[w.root]
  BY SoundFrame
<1>5. Branches(w)
  BY SoundBranches
<1> DEFINE S == {n \in w.nodes : LeastKey(w, n, key) => OutdatedAt(t, w, h[n], n, key)}
<1>6. w.root \in S
  <2>1. h[w.root] = {}
    BY <1>2, <1>4, OutdatedRoot
  <2>2. \A m, i : ~InAncestor(t, w, w.root, key, m, i)
    BY <1>4 DEF InAncestor
  <2> QED BY <1>4, <2>1, <2>2 DEF OutdatedAt
<1>7. ASSUME NEW n \in w.nodes, n # w.root, w.father[n] \in w.nodes, w.father[n] \in S
      PROVE  n \in S
  <2>1. SUFFICES ASSUME LeastKey(w, n, key)
                 PROVE  OutdatedAt(t, w, h[n], n, key)
    OBVIOUS
  <2>2. PICK F : F = t.node[n].father
    OBVIOUS
  <2>3. PICK f : f = t.node[F]
    OBVIOUS
  <2>4. F = w.father[n] /\ n \in DOMAIN t.node /\ n # t.Root
    BY <1>4, <1>7, <2>2, SoundSees
  <2>5. /\ F \in DOMAIN t.node /\ F \in w.nodes /\ ~f.isLeaf
        /\ w.level[F] \in Nat /\ w.level[n] \in Nat /\ w.level[F] = w.level[n] + 1
        /\ f.key \in Seq(Keys) /\ Ascending(f.key) /\ Len(f.key) # 0
        /\ key \in DOMAIN w.kids[F]
        /\ \E j \in 1..Len(f.key) : /\ f.key[j] = key /\ f.child[j] = n
                                    /\ Binary_Search(f, key) = j
                                    /\ f.child[1] = n <=> j = 1
                                    /\ LeastKey(w, F, key) <=> j = 1
    <3>1. n \in DOMAIN t.node /\ n # t.Root
      BY <2>4
    <3> QED BY <2>1, <2>2, <2>3, <3>1, FatherPosition
  <2>6. PICK j \in 1..Len(f.key) : /\ f.key[j] = key /\ f.child[j] = n
                                   /\ Binary_Search(f, key) = j
                                   /\ f.child[1] = n <=> j = 1
                                   /\ LeastKey(w, F, key) <=> j = 1
    BY <2>5
  <2>7. /\ n # t.Root /\ n = f.child[1] => h[n] = {<<F, 1>>} \cup h[F]
        /\ n # t.Root /\ n # f.child[1] => h[n] = {<<F, Binary_Search(f, key)>>}
    <3>1. n \in DOMAIN t.node /\ F \in DOMAIN t.node /\ ~f.isLeaf
      BY <2>4, <2>5
    <3> QED BY <1>2, <2>2, <2>3, <3>1, OutdatedTurns
  <2>8. ASSUME NEW m, NEW i, InAncestor(t, w, n, key, m, i)
        PROVE  (m = F /\ i = j) \/ (LeastKey(w, F, key) /\ InAncestor(t, w, F, key, m, i))
    <3>1. /\ m \in w.nodes /\ w.level[m] \in Nat /\ w.level[m] > w.level[n]
          /\ i \in 1..Len(t.node[m].key) /\ t.node[m].key[i] = key
      BY <1>4, <2>8 DEF InAncestor
    <3>2. key \in DOMAIN w.kids[m]
      BY <1>4, <3>1, NodeKids
    <3>3. key \in w.area[m] /\ key \in w.area[F]
      BY <1>4, <2>5, <3>1, <3>2 DEF Shape
    <3>4. CASE w.level[m] = w.level[F]
      <4>1. m = F
        BY <1>4, <2>5, <3>1, <3>3, <3>4, SameLevelApart
      <4>2. i \in 1..Len(f.key) /\ f.key[i] = f.key[j]
        BY <2>3, <2>6, <3>1, <4>1
      <4>3. i = j
        BY <2>5, <4>2, AscendingUnique
      <4> QED BY <4>1, <4>3
    <3>5. CASE w.level[m] > w.level[F]
      <4>1. w.level[F] # 0
        BY <2>5
      <4>2. LeastKey(w, F, key)
        BY <1>4, <1>5, <2>5, <3>1, <3>2, <3>5, <4>1, HigherLeast
      <4> QED BY <3>1, <3>5, <4>2 DEF InAncestor
    <3> QED BY <2>5, <3>1, <3>4, <3>5
  <2>9. InAncestor(t, w, n, key, F, j)
    BY <2>3, <2>5, <2>6 DEF InAncestor
  <2>10. ASSUME LeastKey(w, F, key), NEW m, NEW i, InAncestor(t, w, F, key, m, i)
         PROVE  InAncestor(t, w, n, key, m, i)
    BY <1>4, <2>5, <2>10 DEF InAncestor
  <2>11. CASE j = 1
    <3>1. LeastKey(w, F, key) /\ h[n] = {<<F, 1>>} \cup h[F]
      BY <2>4, <2>6, <2>7, <2>11
    <3>2. OutdatedAt(t, w, h[F], F, key)
      BY <1>7, <2>4, <3>1
    <3>3. ASSUME NEW m, NEW i
          PROVE  <<m, i>> \in h[n] <=> InAncestor(t, w, n, key, m, i)
      <4>1. <<m, i>> \in h[n] <=> (m = F /\ i = 1) \/ <<m, i>> \in h[F]
        BY <3>1
      <4>2. <<m, i>> \in h[F] <=> InAncestor(t, w, F, key, m, i)
        BY <3>2 DEF OutdatedAt
      <4> QED BY <2>8, <2>9, <2>10, <2>11, <3>1, <4>1, <4>2
    <3> QED BY <3>3 DEF OutdatedAt
  <2>12. CASE j # 1
    <3>1. ~LeastKey(w, F, key) /\ h[n] = {<<F, j>>}
      BY <2>4, <2>6, <2>7, <2>12
    <3>2. ASSUME NEW m, NEW i
          PROVE  <<m, i>> \in h[n] <=> InAncestor(t, w, n, key, m, i)
      <4>1. <<m, i>> \in h[n] <=> (m = F /\ i = j)
        BY <3>1
      <4> QED BY <2>8, <2>9, <3>1, <4>1
    <3> QED BY <3>2 DEF OutdatedAt
  <2> QED BY <2>11, <2>12
<1>8. w.nodes \subseteq S
  <2> HIDE DEF S
  <2> QED BY <1>4, <1>6, <1>7, FromRoot
<1> QED BY <1>3, <1>4, <1>8

(* The keys of a node when those at the outdated positions are replaced.   *)
LEMMA RaisedArrayIs ==
  ASSUME NEW ks \in Seq(Keys), NEW k \in Keys, NEW O, NEW n, NEW ls, ls = RaisedArray(O, n, ks, k)
  PROVE  /\ ls \in Seq(Keys) /\ Len(ls) = Len(ks)
         /\ \A i \in 1..Len(ks) : ls[i] = IF <<n, i>> \in O THEN k ELSE ks[i]
<1>1. PICK m \in Nat : m = Len(ks)
  OBVIOUS
<1>2. DOMAIN ks = 1..m /\ \A i \in 1..m : ks[i] \in Keys
  BY <1>1
<1>3. ls = [i \in 1..m |-> IF <<n, i>> \in O THEN k ELSE ks[i]]
  BY <1>2 DEF RaisedArray
<1>4. ASSUME NEW i \in 1..m
      PROVE  (IF <<n, i>> \in O THEN k ELSE ks[i]) \in Keys
  BY <1>2
<1>5. ls \in [1..m -> Keys]
  BY <1>3, <1>4
<1>6. ls \in Seq(Keys) /\ Len(ls) = m
  BY <1>5
<1> QED BY <1>1, <1>3, <1>6

(* What RaiseAncestors does. *)
AllRaised(t, t2, O, k) ==
  /\ IsTree(t2)
  /\ t2.Root = t.Root /\ DOMAIN t2.node = DOMAIN t.node
  /\ \A n \in DOMAIN t.node :
       Has(t2.node[n], t.node[n].isLeaf, RaisedArray(O, n, t.node[n].key, k), t.node[n].child,
           t.node[n].father, t.node[n].next, t.node[n].last)
LEMMA RaiseIs ==
  ASSUME NEW t, IsTree(t), NEW l, l \in DOMAIN t.node, NEW x, NEW O, O = Outdated(t, l, x),
         NEW k \in Keys, k = t.node[l].key[1], NEW t2, t2 = RaiseAncestors(t, l, x)
  PROVE  AllRaised(t, t2, O, k)
<1>1. PICK D : D = DOMAIN t.node
  OBVIOUS
<1>2. t \in [Root : Nat, node : [D -> Node]] /\ D \subseteq Nat \ {0} /\ IsFiniteSet(D)
  BY <1>1 DEF IsTree
<1>3. t2.Root = t.Root
      /\ t2.node = [n \in D |-> [t.node[n] EXCEPT !.key = RaisedArray(O, n, t.node[n].key, k)]]
  <2> DEFINE g == [n \in D |-> [t.node[n] EXCEPT !.key = RaisedArray(O, n, t.node[n].key, k)]]
  <2>1. t2 = [t EXCEPT !.node = g]
    BY <1>1 DEF RaiseAncestors
  <2> HIDE DEF g
  <2>2. t2.Root = t.Root /\ t2.node = g
    BY <1>2, <2>1
  <2> QED BY <2>2 DEF g
<1>4. ASSUME NEW n \in D
      PROVE  /\ t2.node[n] \in Node
             /\ Has(t2.node[n], t.node[n].isLeaf, RaisedArray(O, n, t.node[n].key, k), t.node[n].child,
                    t.node[n].father, t.node[n].next, t.node[n].last)
  <2>1. PICK nd \in Node : nd = t.node[n]
    BY <1>2
  <2>2. nd.key \in Seq(Keys)
    BY NodeHas
  <2>3. PICK ls \in Seq(Keys) : ls = RaisedArray(O, n, nd.key, k)
    BY <2>2, RaisedArrayIs
  <2>4. t2.node[n] = [nd EXCEPT !.key = ls]
    BY <1>3, <2>1, <2>3
  <2>5. [nd EXCEPT !.key = ls] \in Node
    BY DEF Node
  <2>6. Has([nd EXCEPT !.key = ls], nd.isLeaf, ls, nd.child, nd.father, nd.next, nd.last)
    BY DEF Node, Has
  <2> QED BY <2>1, <2>3, <2>4, <2>5, <2>6
<1>5. t2.node \in [D -> Node]
  BY <1>3, <1>4
<1>6. t2 = [Root |-> t2.Root, node |-> t2.node]
  BY <1>2, <1>3 DEF RaiseAncestors
<1>7. t2 \in [Root : Nat, node : [D -> Node]]
  BY <1>2, <1>3, <1>5, <1>6
<1>8. DOMAIN t2.node = D
  BY <1>3
<1>9. IsTree(t2)
  BY <1>2, <1>7, <1>8 DEF IsTree
<1> QED BY <1>1, <1>3, <1>4, <1>8, <1>9 DEF AllRaised

(* What becomes of the keys of an inner node. *)
LEMMA RaisedKids ==
  ASSUME NEW t, NEW w, Sound(t, w), NEW l, l \in DOMAIN t.node, w.level[l] = 0,
         NEW x \in Int, LeastKey(w, l, x), NEW k \in Keys, NextKey(DOMAIN w.kids[l], x, k),
         NEW O, OutdatedAt(t, w, O, l, x),
         NEW n, n \in DOMAIN t.node, NEW nd, nd = t.node[n],
         NEW ls, ls = RaisedArray(O, n, nd.key, k)
  PROVE  /\ Len(ls) = Len(nd.key) /\ Arrays(Cell, ls, nd.child)
         /\ nd.isLeaf => ls = nd.key
         /\ ~nd.isLeaf => IsRaised(w.kids[n], Kids(ls, nd.child), x, k)
<1>1. /\ n \in w.nodes /\ l \in w.nodes
      /\ nd.key \in Seq(Keys) /\ nd.child \in Seq(Cell) /\ Len(nd.key) \in Nat
      /\ Arrays(Cell, nd.key, nd.child) /\ Ascending(nd.key)
      /\ w.kids[n] = Kids(nd.key, nd.child)
      /\ nd.isLeaf <=> w.level[n] = 0
      /\ ~nd.isLeaf => Len(nd.key) # 0
  BY SoundNode
<1>2. k \in Int /\ w.level[n] \in Nat /\ Shape(w)
  BY <1>1, TreeConstants, SoundFrame
<1>3. \A j \in 1..Len(nd.key) : nd.key[j] \in Int /\ nd.key[j] \in DOMAIN w.kids[n]
  BY NodeKids
<1>4. ls \in Seq(Keys) /\ Len(ls) = Len(nd.key)
      /\ \A i \in 1..Len(nd.key) : ls[i] = IF <<n, i>> \in O THEN k ELSE nd.key[i]
  BY <1>1, RaisedArrayIs
<1>5. ASSUME NEW i \in 1..Len(nd.key)
      PROVE  <<n, i>> \in O <=> ~nd.isLeaf /\ nd.key[i] = x
  <2>1. <<n, i>> \in O <=> InAncestor(t, w, l, x, n, i)
    BY DEF OutdatedAt
  <2>2. InAncestor(t, w, l, x, n, i) <=> w.level[n] > 0 /\ nd.key[i] = x
    BY <1>1 DEF InAncestor
  <2> QED BY <1>1, <1>2, <2>1, <2>2
<1>6. CASE nd.isLeaf \/ x \notin DOMAIN w.kids[n]
  <2>1. ASSUME NEW i \in 1..Len(nd.key)
        PROVE  ls[i] = nd.key[i]
    BY <1>3, <1>4, <1>5, <1>6
  <2>2. ls = nd.key
    BY <1>1, <1>4, <2>1, SMTT(40)
  <2>3. ~nd.isLeaf => IsRaised(w.kids[n], Kids(ls, nd.child), x, k)
    BY <1>1, <1>6, <2>2 DEF IsRaised
  <2> QED BY <1>1, <2>2, <2>3
<1>7. CASE ~nd.isLeaf /\ x \in DOMAIN w.kids[n]
  <2>1. PICK i \in 1..Len(nd.key) : nd.key[i] = x
    <3>1. \A q \in DOMAIN w.kids[n] : \E i \in 1..Len(nd.key) : nd.key[i] = q
      BY NodeKids, SMTT(40)
    <3> QED BY <1>7, <3>1
  <2>2. ReplacedAt(ls, nd.key, i, k)
    <3>1. ASSUME NEW j \in 1..Len(nd.key)
          PROVE  ls[j] = IF j = i THEN k ELSE nd.key[j]
      <4>1. CASE j = i
        BY <1>4, <1>5, <1>7, <2>1, <4>1
      <4>2. CASE j # i
        <5>1. nd.key[j] # x
          BY <1>1, <2>1, <4>2, AscendingUnique
        <5> QED BY <1>4, <1>5, <4>2, <5>1
      <4> QED BY <4>1, <4>2
    <3> QED BY <1>4, <3>1 DEF ReplacedAt
  <2>3. ASSUME NEW j \in 1..Len(nd.key)
        PROVE  (j < i => nd.key[j] < k) /\ (i < j => k < nd.key[j])
    <3>1. PICK m : m = nd.key[j]
      OBVIOUS
    <3>2. m \in DOMAIN w.kids[n] /\ m \in Int
      BY <1>3, <3>1
    <3>3. w.level[n] # 0
      BY <1>1, <1>7
    <3>4. x < k /\ k \in DOMAIN w.kids[l] /\ LeastOf(DOMAIN w.kids[l], x)
      BY DEF NextKey, LeastKey
    <3>5. m <= x \/ k < m
      BY <1>1, <1>2, <3>2, <3>3, <3>4, NoInnerKeyBetween
    <3>6. (j < i => m < x) /\ (i < j => x < m)
      BY <1>1, <2>1, <3>1 DEF Ascending
    <3> QED BY <1>2, <3>1, <3>2, <3>4, <3>5, <3>6
  <2>4. PICK kk, cc : kk = nd.key /\ cc = nd.child
    OBVIOUS
  <2>5. /\ Arrays(Cell, kk, cc) /\ i \in 1..Len(kk) /\ ReplacedAt(ls, kk, i, k)
        /\ \A j \in 1..Len(kk) : (j < i => kk[j] < k) /\ (i < j => k < kk[j])
    BY <1>1, <2>2, <2>3, <2>4
  <2>6. Arrays(Cell, ls, cc) /\ Kids(ls, cc) = Renamed(Kids(kk, cc), kk[i], k)
    BY <1>4, <2>5, RenameKids
  <2>7. Arrays(Cell, ls, nd.child) /\ Kids(ls, nd.child) = Renamed(w.kids[n], x, k)
    BY <1>1, <2>1, <2>4, <2>6
  <2> QED BY <1>4, <1>7, <2>7 DEF IsRaised
<1> QED BY <1>6, <1>7

(* The smallest key of a leaf is taken out, and the nodes above learn it.  *)
LEMMA TakenRaised ==
  ASSUME NEW t, NEW w, Sound(t, w), NEW l, l \in DOMAIN t.node, t.node[l].isLeaf,
         NEW c, c = t.node[l], Len(c.key) >= 2, NEW x \in Int, x = c.key[1],
         NEW t1, CutLeaf(t, w, t1, l, x), OmitsAt(t1.node[l].key, c.key, 1),
         NEW t2, t2 = RaiseAncestors(t1, l, x)
  PROVE  \E w2 : TakenDone(t, w, t2, w2, l, x)
<1>1. /\ IsTree(t1)
      /\ t1.Root = t.Root /\ DOMAIN t1.node = DOMAIN t.node
      /\ Has(t1.node[l], TRUE, t1.node[l].key, t1.node[l].child,
             t.node[l].father, t.node[l].next, t.node[l].last)
      /\ Stores(t1.node[l])
      /\ Kids(t1.node[l].key, t1.node[l].child) = Minus(w.kids[l], x)
      /\ Len(t1.node[l].key) = Len(t.node[l].key) - 1
      /\ \A n \in DOMAIN t.node : n # l => t1.node[n] = t.node[n]
  BY DEF CutLeaf
<1>2. /\ Shape(w) /\ Linked(w)
      /\ w.nodes = DOMAIN t.node /\ w.root = t.Root
      /\ \A n \in w.nodes : w.level[n] \in Nat
  BY SoundFrame
<1>3. w.level[l] = 0
  BY SoundSees
<1>4. c.key \in Seq(Keys) /\ Ascending(c.key) /\ Len(c.key) \in Nat
  BY SoundNode
<1>5. 1 \in 1..Len(c.key) /\ 2 \in 1..Len(c.key)
  BY <1>4
<1>6. PICK k : k = c.key[2]
  OBVIOUS
<1>7. k \in Keys /\ k \in Int
  <2>1. k \in Keys
    BY <1>4, <1>5, <1>6
  <2> QED BY <2>1, TreeConstants
<1>8. t1.node[l].key[1] = k
  BY <1>4, <1>5, <1>6 DEF OmitsAt
<1>9. \A j \in 1..Len(c.key) : c.key[j] \in Int /\ c.key[j] \in DOMAIN w.kids[l]
  BY NodeKids
<1>10. \A q \in DOMAIN w.kids[l] : \E j \in 1..Len(c.key) : c.key[j] = q
  <2>1. Pairs(w.kids[l], c.key, c.child)
    BY NodePairs
  <2> QED BY <2>1 DEF Pairs
<1>11. Len(c.key) # 0 => LeastKey(w, l, c.key[1])
  BY NodeKids
<1>12. LeastKey(w, l, x) /\ LeastOf(DOMAIN w.kids[l], x)
  BY <1>4, <1>11 DEF LeastKey
<1>13. NextKey(DOMAIN w.kids[l], x, k)
  <2>1. x < k
    BY <1>4, <1>5, <1>6 DEF Ascending
  <2>2. x \in DOMAIN w.kids[l] /\ k \in DOMAIN w.kids[l]
    BY <1>5, <1>6, <1>9
  <2>3. ASSUME NEW q \in DOMAIN w.kids[l]
        PROVE  q <= x \/ k <= q
    <3>1. PICK j \in 1..Len(c.key) : c.key[j] = q
      BY <1>10
    <3>2. CASE j = 1
      <4>1. q = x
        BY <3>1, <3>2
      <4> QED BY <4>1
    <3>3. CASE j = 2
      <4>1. q = k
        BY <1>6, <3>1, <3>3
      <4> QED BY <1>7, <4>1
    <3>4. CASE j > 2
      <4>1. c.key[2] < c.key[j]
        BY <1>4, <1>5, <3>4 DEF Ascending
      <4>2. PICK m \in Int : m = q
        BY <1>9, <3>1
      <4> QED BY <1>6, <1>7, <3>1, <4>1, <4>2
    <3> QED BY <3>2, <3>3, <3>4
  <2> QED BY <2>1, <2>2, <2>3 DEF NextKey
<1>14. PICK O : O = Outdated(t1, l, x)
  OBVIOUS
<1>15. SameAbove(t, t1)
  <2>1. ASSUME NEW n \in DOMAIN t.node
        PROVE  t1.node[n].father = t.node[n].father /\ (~t.node[n].isLeaf => t1.node[n] = t.node[n])
    <3>1. CASE n = l
      BY <1>1, <3>1 DEF Has
    <3>2. CASE n # l
      BY <1>1, <3>2
    <3> QED BY <3>1, <3>2
  <2> QED BY <1>1, <2>1 DEF SameAbove
<1>16. OutdatedAt(t, w, O, l, x)
  BY <1>12, <1>14, <1>15, OutdatedIs
<1>17. /\ IsTree(t2)
       /\ t2.Root = t1.Root /\ DOMAIN t2.node = DOMAIN t1.node
       /\ \A n \in DOMAIN t1.node :
            Has(t2.node[n], t1.node[n].isLeaf, RaisedArray(O, n, t1.node[n].key, k), t1.node[n].child,
                t1.node[n].father, t1.node[n].next, t1.node[n].last)
  <2>1. l \in DOMAIN t1.node /\ k = t1.node[l].key[1]
    BY <1>1, <1>8
  <2>2. IsTree(t1) /\ k \in Keys
    BY <1>1, <1>7
  <2>3. AllRaised(t1, t2, O, k)
    BY <1>14, <2>1, <2>2, RaiseIs
  <2> QED BY <2>3 DEF AllRaised
<1>18. Has(t2.node[l], TRUE, t1.node[l].key, t1.node[l].child,
           t.node[l].father, t.node[l].next, t.node[l].last)
  <2>1. PICK d : d = t1.node[l]
    OBVIOUS
  <2>2. d \in Node /\ d.key \in Seq(Keys)
    BY <1>1, <2>1, NodeHas DEF IsTree
  <2>3. PICK ls : ls = RaisedArray(O, l, d.key, k)
    OBVIOUS
  <2>4. ls \in Seq(Keys) /\ Len(ls) = Len(d.key)
        /\ \A i \in 1..Len(d.key) : ls[i] = IF <<l, i>> \in O THEN k ELSE d.key[i]
    BY <1>7, <2>2, <2>3, RaisedArrayIs, SMTT(40)
  <2>5. \A i : <<l, i>> \notin O
    <3>1. \A i : ~InAncestor(t, w, l, x, l, i)
      BY <1>3 DEF InAncestor
    <3> QED BY <1>16, <3>1 DEF OutdatedAt
  <2>6. ls = d.key
    <3>1. \A i \in 1..Len(d.key) : ls[i] = d.key[i]
      BY <2>4, <2>5
    <3> QED BY <2>2, <2>4, <3>1
  <2>7. Has(t2.node[l], d.isLeaf, ls, d.child, d.father, d.next, d.last)
    BY <1>1, <1>17, <2>1, <2>3
  <2> QED BY <1>1, <2>1, <2>6, <2>7 DEF Has
<1>19. ASSUME NEW n, n \in DOMAIN t.node, n # l
       PROVE  Has(t2.node[n], t.node[n].isLeaf, RaisedArray(O, n, t.node[n].key, k), t.node[n].child,
                  t.node[n].father, t.node[n].next, t.node[n].last)
  <2>1. t1.node[n] = t.node[n] /\ n \in DOMAIN t1.node
    BY <1>1, <1>19
  <2> QED BY <1>17, <2>1
<1>20. PICK ar : ar = [n \in w.nodes |-> {y \in Int : Back(y, x, k) \in w.area[n]}]
  OBVIOUS
<1>21. PICK w2 : w2 = View(t2, w.level, ar)
  OBVIOUS
<1>21a. PICK lv : lv = w.level
  OBVIOUS
<1>22. /\ w2.nodes = DOMAIN t2.node /\ w2.root = t2.Root
       /\ w2.level = w.level /\ w2.area = ar
       /\ \A n \in DOMAIN t2.node : /\ w2.kids[n] = Kids(t2.node[n].key, t2.node[n].child)
                                    /\ w2.father[n] = t2.node[n].father
                                    /\ w2.next[n] = t2.node[n].next
                                    /\ w2.last[n] = t2.node[n].last
  <2>1. w2 = View(t2, lv, ar)
    BY <1>21, <1>21a
  <2>2. w2.level = lv /\ w2.area = ar /\ w2.nodes = DOMAIN t2.node /\ w2.root = t2.Root
    BY <2>1, ViewIs
  <2>3. \A n \in DOMAIN t2.node : /\ w2.kids[n] = Kids(t2.node[n].key, t2.node[n].child)
                                    /\ w2.father[n] = t2.node[n].father
                                    /\ w2.next[n] = t2.node[n].next
                                    /\ w2.last[n] = t2.node[n].last
    BY <2>1 DEF View
  <2> QED BY <1>21a, <2>2, <2>3
<1>23. DOMAIN t2.node = DOMAIN t.node /\ t2.Root = t.Root
  BY <1>1, <1>17
<1>24. ASSUME NEW n, n \in DOMAIN t.node
       PROVE  /\ Stores(t2.node[n])
              /\ t2.node[n].isLeaf <=> w.level[n] = 0
              /\ w2.father[n] = w.father[n] /\ w2.next[n] = w.next[n] /\ w2.last[n] = w.last[n]
              /\ w.level[n] # 0 => IsRaised(w.kids[n], w2.kids[n], x, k)
              /\ w.level[n] = 0 /\ n # l => w2.kids[n] = w.kids[n]
              /\ n # l => SameSize(t, t2, n)
  <2>1. PICK m : m = t.node[n]
    OBVIOUS
  <2>2. /\ w.kids[n] = Kids(m.key, m.child)
        /\ w.father[n] = m.father
        /\ w.next[n] = m.next
        /\ w.last[n] = m.last
        /\ m.isLeaf <=> w.level[n] = 0
        /\ Stores(m)
    BY <1>24, <2>1, SoundSees, SoundFits
  <2>3. /\ w2.kids[n] = Kids(t2.node[n].key, t2.node[n].child)
        /\ w2.father[n] = t2.node[n].father
        /\ w2.next[n] = t2.node[n].next
        /\ w2.last[n] = t2.node[n].last
    BY <1>22, <1>23, <1>24
  <2>4. CASE n = l
    <3>1. PICK d : d = t2.node[l]
      OBVIOUS
    <3>2. /\ d.isLeaf /\ d.key = t1.node[l].key /\ d.child = t1.node[l].child
          /\ d.father = m.father /\ d.next = m.next /\ d.last = m.last
      BY <1>18, <2>1, <2>4, <3>1 DEF Has
    <3>3. t1.node[l].isLeaf
      BY <1>1 DEF Has
    <3>4. Stores(d)
      BY <1>1, <3>2, <3>3 DEF Stores
    <3> QED BY <1>3, <2>2, <2>3, <2>4, <3>1, <3>2, <3>4
  <2>5. CASE n # l
    <3>1. PICK ls : ls = RaisedArray(O, n, m.key, k)
      OBVIOUS
    <3>2. Has(t2.node[n], m.isLeaf, ls, m.child, m.father, m.next, m.last)
      BY <1>19, <1>24, <2>1, <2>5, <3>1
    <3>3. /\ Len(ls) = Len(m.key) /\ Arrays(Cell, ls, m.child)
          /\ m.isLeaf => ls = m.key
          /\ ~m.isLeaf => IsRaised(w.kids[n], Kids(ls, m.child), x, k)
      BY <1>3, <1>7, <1>12, <1>13, <1>16, <1>24, <2>1, <3>1, RaisedKids
    <3>4. Stores(t2.node[n])
      BY <2>2, <3>2, <3>3 DEF Has, Stores
    <3>5. SameSize(t, t2, n)
      BY <1>23, <1>24, <2>1, <3>2, <3>3 DEF Has, SameSize
    <3> QED BY <2>2, <2>3, <2>5, <3>2, <3>3, <3>4, <3>5, ZenonT(60) DEF Has
  <2> QED BY <2>4, <2>5
<1>25. w2.kids[l] = Minus(w.kids[l], x)
  <2>1. w2.kids[l] = Kids(t2.node[l].key, t2.node[l].child)
    BY <1>22, <1>23
  <2>2. t2.node[l].key = t1.node[l].key /\ t2.node[l].child = t1.node[l].child
    BY <1>18 DEF Has
  <2> QED BY <1>1, <2>1, <2>2
<1>26. SameTree(w, w2)
  BY <1>2, <1>22, <1>23, <1>24, ZenonT(60) DEF SameTree
<1>27. RaiseView(w, w2, l, x, k)
  <2>1. \A n \in w.nodes : w.level[n] # 0 => IsRaised(w.kids[n], w2.kids[n], x, k)
    BY <1>2, <1>24
  <2>2. \A n \in w.nodes : w.level[n] = 0 /\ n # l => w2.kids[n] = w.kids[n]
    BY <1>2, <1>24
  <2> QED BY <1>20, <1>22, <1>25, <1>26, <2>1, <2>2 DEF RaiseView
<1>28. Shape(w2)
  BY <1>2, <1>3, <1>7, <1>12, <1>13, <1>27, RaiseShape
<1>29. Linked(w2)
  <2>1. SameLinks(w, w2)
    BY <1>2, <1>24 DEF SameLinks
  <2> QED BY <1>2, <1>3, <1>7, <1>12, <1>13, <1>27, <2>1, RaiseLinked
<1>30. Sound(t2, w2)
  <2>1. \A n \in DOMAIN t2.node : Stores(t2.node[n])
    BY <1>23, <1>24
  <2>2. \A n \in DOMAIN t2.node : t2.node[n].isLeaf <=> w.level[n] = 0
    BY <1>23, <1>24
  <2> QED BY <1>17, <1>21, <1>28, <1>29, <2>1, <2>2, SoundFrom, ZenonT(60)
<1>31. TakenHeld(w, w2, x)
  <2>1. Leaf(w, l)
    BY <1>2, <1>3 DEF Leaf
  <2>2. \A n \in w.nodes : w.level[n] = 0 /\ n # l => w2.kids[n] = w.kids[n]
    BY <1>2, <1>24
  <2>3. x \in DOMAIN w.kids[l]
    BY <1>12 DEF LeastOf
  <2>4. w2.nodes = w.nodes /\ w2.level = w.level
    BY <1>2, <1>22, <1>23
  <2> QED BY <1>2, <1>25, <2>1, <2>2, <2>3, <2>4, MinusHeld
<1>32. Len(t2.node[l].key) = Len(t.node[l].key) - 1 /\ t2.node[l].isLeaf
  BY <1>1, <1>18 DEF Has
<1>33. TakenDone(t, w, t2, w2, l, x)
  BY <1>22, <1>23, <1>24, <1>30, <1>31, <1>32 DEF TakenDone
<1> QED BY <1>33

(* A record is taken out of a leaf. *)
LEMMA TakeOutLeafSound ==
  ASSUME NEW t, NEW w, Sound(t, w), NEW l, l \in DOMAIN t.node, t.node[l].isLeaf,
         NEW x \in Int, x \in DOMAIN w.kids[l], l # t.Root => Len(t.node[l].key) >= 2,
         NEW s, s = TakeOut(t, l, x)
  PROVE  /\ s.cur = l
         /\ s.short <=> (Len(t.node[l].key) - 1) * 2 < MaxChildNumber
         /\ \E w2 : TakenDone(t, w, s.tree, w2, l, x)
<1>1. PICK c : c = t.node[l]
  OBVIOUS
<1>2. c.key \in Seq(Keys) /\ Ascending(c.key) /\ Len(c.key) \in Nat
  BY <1>1, SoundNode
<1>3. PICK i \in 1..Len(c.key) : c.key[i] = x
  <2>1. Pairs(w.kids[l], c.key, c.child)
    BY <1>1, NodePairs
  <2> QED BY <2>1 DEF Pairs
<1>4. KeyAt(x, c.key, i)
  BY <1>3 DEF KeyAt
<1>5. Binary_Search(c, x) = i
  <2>1. Len(t.node[l].key) # 0
    BY <1>1, <1>2, <1>3
  <2>2. PICK j : j = i
    OBVIOUS
  <2>3. KeyAt(x, t.node[l].key, j)
    BY <1>1, <1>4, <2>2
  <2>4. Binary_Search(t.node[l], x) = j
    BY <2>1, <2>3, SearchedAt
  <2> QED BY <1>1, <2>2, <2>4
<1>6. PICK t1 : t1 = CutAt(t, l, i)
  OBVIOUS
<1>7. TakenOutOfLeaf(t, l, x, t1, i, c, s)
  BY <1>1, <1>5, <1>6, TakeOutLeafIs
<1>8. CutLeaf(t, w, t1, l, x) /\ OmitsAt(t1.node[l].key, c.key, i)
  BY <1>1, <1>4, <1>6, CutLeafIs
<1>9. CASE i = 1 /\ l # t.Root
  <2>1. s.tree = RaiseAncestors(t1, l, x)
    BY <1>7, <1>9 DEF TakenOutOfLeaf
  <2>2. x = c.key[1] /\ Len(c.key) >= 2 /\ OmitsAt(t1.node[l].key, c.key, 1)
    BY <1>1, <1>3, <1>8, <1>9
  <2>3. \E w2 : TakenDone(t, w, s.tree, w2, l, x)
    BY <1>1, <1>8, <2>1, <2>2, TakenRaised
  <2> QED BY <1>1, <1>7, <2>3 DEF TakenOutOfLeaf
<1>10. CASE ~(i = 1 /\ l # t.Root)
  <2>1. s.tree = t1
    BY <1>7, <1>10 DEF TakenOutOfLeaf
  <2>2. ASSUME l # t.Root
        PROVE  \E k \in Int : LeastKey(w, l, k) /\ k # x
    <3>1. i # 1 /\ 1 \in 1..Len(c.key) /\ Len(c.key) # 0
      BY <1>2, <1>3, <1>10, <2>2
    <3>2. c.key[1] < c.key[i] /\ c.key[1] \in Int
      <4>1. c.key[1] < c.key[i]
        BY <1>2, <1>3, <3>1 DEF Ascending
      <4>2. c.key[1] \in Keys
        BY <1>2, <3>1
      <4> QED BY <4>1, <4>2, TreeConstants
    <3>3. Len(c.key) # 0 => LeastKey(w, l, c.key[1])
      BY <1>1, NodeKids
    <3>4. PICK k \in Int : k = c.key[1]
      BY <3>2
    <3>5. LeastKey(w, l, k) /\ k # x
      BY <1>3, <3>1, <3>2, <3>3, <3>4
    <3> QED BY <3>5
  <2>3. \E w2 : TakenDone(t, w, t1, w2, l, x)
    BY <1>8, <2>2, TakenPlain
  <2> QED BY <1>1, <1>7, <2>1, <2>3 DEF TakenOutOfLeaf
<1> QED BY <1>9, <1>10

-----------------------------------------------------------------------------
(* Two neighbours below one father: kc and k2 are its keys for them.       *)
Neighbours(w, c, c2, kc, k2) ==
  /\ c \in w.nodes /\ c # w.root /\ kc \in Int /\ LeastOf(DOMAIN w.kids[c], kc)
  /\ k2 \in Int /\ NextKey(DOMAIN w.kids[w.father[c]], kc, k2)
  /\ c2 \in w.nodes /\ IsKid(w, w.father[c], k2, c2)

(* What is known of two neighbours.                                        *)
LEMMA NeighboursAre ==
  ASSUME NEW w, Shape(w), NEW c, NEW c2, NEW kc, NEW k2, Neighbours(w, c, c2, kc, k2),
         NEW F, F = w.father[c]
  PROVE  /\ F \in w.nodes /\ F # c /\ F # c2 /\ c # c2 /\ c2 # w.root
         /\ w.father[c2] = F
         /\ w.level[F] \in Nat /\ w.level[c] \in Nat
         /\ w.level[F] = w.level[c] + 1 /\ w.level[c2] = w.level[c]
         /\ k2 \in DOMAIN w.kids[F] /\ w.kids[F][k2] = c2
         /\ k2 \in Int /\ kc \in Int /\ kc < k2
         /\ LeastOf(DOMAIN w.kids[c2], k2)
         /\ LeastOf(DOMAIN w.kids[c], kc) /\ kc \in DOMAIN w.kids[c]
         /\ kc \in DOMAIN w.kids[F] /\ w.kids[F][kc] = c
<1>1. /\ c \in w.nodes /\ c # w.root /\ kc \in Int /\ LeastOf(DOMAIN w.kids[c], kc)
      /\ k2 \in Int /\ NextKey(DOMAIN w.kids[F], kc, k2)
      /\ c2 \in w.nodes /\ IsKid(w, F, k2, c2)
  BY DEF Neighbours
<1>2. /\ F \in w.nodes /\ F # c
      /\ w.level[F] \in Nat /\ w.level[c] \in Nat
      /\ w.level[F] = w.level[c] + 1
      /\ kc \in DOMAIN w.kids[F]
      /\ w.kids[F][kc] = c
  BY <1>1, FatherKey
<1>3. k2 \in DOMAIN w.kids[F] /\ kc < k2 /\ w.kids[F][k2] = c2 /\ w.level[F] # 0
  BY <1>1, <1>2 DEF NextKey, IsKid
<1>4. /\ c2 # w.root /\ w.father[c2] = F
      /\ w.level[c2] \in Nat /\ w.level[F] = w.level[c2] + 1
      /\ LeastOf(DOMAIN w.kids[c2], k2)
  BY <1>1, <1>2, <1>3, ChildEdge
<1>5. c # c2
  BY <1>1, <1>3, <1>4 DEF LeastOf
<1>6. kc \in DOMAIN w.kids[c]
  BY <1>1 DEF LeastOf
<1> QED BY <1>1, <1>2, <1>3, <1>4, <1>5, <1>6

(* Of two neighbouring leaves one is behind the other in the chain, and    *)
(* not the other way round.                                                *)
LEMMA NeighboursLinked ==
  ASSUME NEW w, Shape(w), Linked(w), NEW c, NEW c2, NEW kc, NEW k2, Neighbours(w, c, c2, kc, k2),
         w.level[c] = 0
  PROVE  /\ w.next[c] = c2 /\ w.last[c2] = c
         /\ w.next[c2] # c /\ w.next[c2] # c2
         /\ w.next[c2] = NULL \/ Leaf(w, w.next[c2])
<1>1. PICK F : F = w.father[c]
  OBVIOUS
<1>2. /\ F \in w.nodes /\ c # c2
      /\ w.level[F] # 0
      /\ w.level[c2] = 0
      /\ w.kids[F][k2] = c2 /\ w.kids[F][kc] = c
      /\ k2 \in Int /\ kc \in Int
  BY <1>1, NeighboursAre
<1>3. NextKey(DOMAIN w.kids[F], kc, k2)
  BY <1>1 DEF Neighbours
<1>4. IsKid(w, F, kc, c) /\ IsKid(w, F, k2, c2)
  BY <1>2 DEF IsKid
<1>5. Adjacent(w, c, c2)
  BY <1>2, <1>3, <1>4, NeighboursAdjacent
<1>6. c \in w.nodes /\ c2 \in w.nodes /\ Leaf(w, c) /\ Leaf(w, c2)
  BY <1>2 DEF Neighbours, Leaf
<1>7. ~Adjacent(w, c2, c)
  <2>1. SUFFICES ASSUME Adjacent(w, c2, c) PROVE FALSE
    OBVIOUS
  <2>2. PICK x \in Int : x \in w.area[c] /\ x + 1 \in w.area[c2]
    BY <1>5 DEF Adjacent
  <2>3. PICK y \in Int : y \in w.area[c2] /\ y + 1 \in w.area[c]
    BY <2>1 DEF Adjacent
  <2>4. \A z \in Int : ~(z \in w.area[c] /\ z \in w.area[c2])
    BY <1>2, <1>6, SameLevelApart
  <2>5. Convex(w.area[c]) /\ Convex(w.area[c2])
    BY <1>6, AreaConvex
  <2>6. CASE x + 1 <= y
    BY <2>2, <2>3, <2>4, <2>5, <2>6 DEF Convex
  <2>7. CASE y + 1 <= x
    BY <2>2, <2>3, <2>4, <2>5, <2>7 DEF Convex
  <2>8. CASE x = y
    BY <2>2, <2>3, <2>4, <2>8
  <2> QED BY <2>6, <2>7, <2>8
<1>8. ~Adjacent(w, c2, c2)
  BY DEF Adjacent
<1>9. OnChain(w, c2)
  BY <1>6 DEF Linked
<1>10. /\ w.next[c] = c2 <=> Adjacent(w, c, c2)
       /\ w.last[c2] = c <=> Adjacent(w, c, c2)
       /\ w.next[c2] = c <=> Adjacent(w, c2, c)
       /\ w.next[c2] = c2 <=> Adjacent(w, c2, c2)
  BY <1>6 DEF Linked
<1> QED BY <1>5, <1>7, <1>8, <1>9, <1>10 DEF OnChain

(* The links when c2 is merged into c.                                     *)
MergedLinks(w, w2, c, c2) ==
  /\ \A n \in w2.nodes :
       w2.next[n] = IF w.level[c] = 0 /\ n = c THEN w.next[c2] ELSE w.next[n]
  /\ \A n \in w2.nodes :
       w2.last[n] = IF w.level[c] = 0 /\ n = w.next[c2] THEN c ELSE w.last[n]

(* Merging leaves the tree well formed, and its records where they were.   *)
LEMMA Merging ==
  ASSUME NEW w, Shape(w), Linked(w), NEW c, NEW c2, NEW kc, NEW k2, Neighbours(w, c, c2, kc, k2),
         NEW w2, MergeView(w, w2, c, c2, k2), MergedLinks(w, w2, c, c2)
  PROVE  Shape(w2) /\ Linked(w2) /\ SameHeld(w, w2)
<1>1. PICK k \in Int : k = kc
  BY DEF Neighbours
<1>2. PICK j \in Int : j = k2
  BY DEF Neighbours
<1>3. /\ c \in w.nodes /\ c # w.root /\ LeastOf(DOMAIN w.kids[c], k)
      /\ NextKey(DOMAIN w.kids[w.father[c]], k, j)
      /\ c2 \in w.nodes /\ IsKid(w, w.father[c], j, c2)
  BY <1>1, <1>2 DEF Neighbours
<1>4. MergeView(w, w2, c, c2, j)
  BY <1>2
<1>5. c # c2 /\ w.level[c2] = w.level[c]
  BY NeighboursAre
<1>6. Shape(w2)
  BY <1>3, <1>4, MergeShape
<1>7. SameHeld(w, w2)
  BY <1>3, <1>4, <1>5, MergeHeld
<1>8. CASE w.level[c] = 0
  <2>1. MergeLinks(w, w2, c, c2)
    BY <1>8 DEF MergedLinks, MergeLinks
  <2>2. Linked(w2)
    BY <1>3, <1>4, <1>8, <2>1, MergeLinked
  <2> QED BY <1>6, <1>7, <2>2
<1>9. CASE w.level[c] # 0
  <2>1. \A n \in w2.nodes : w2.next[n] = w.next[n] /\ w2.last[n] = w.last[n]
    BY <1>9 DEF MergedLinks
  <2>2. Linked(w2)
    BY <1>3, <1>4, <1>5, <1>9, <2>1, MergeInnerLinked
  <2> QED BY <1>6, <1>7, <2>2
<1> QED BY <1>8, <1>9

-----------------------------------------------------------------------------
(* A child of a node. *)
KidOf(F, n) == \E k \in DOMAIN F : F[k] = n

MergeLevel(w, c2) == [n \in w.nodes \ {c2} |-> w.level[n]]
MergeArea(w, c, c2) ==
  [n \in w.nodes \ {c2} |-> IF n = c THEN w.area[c] \cup w.area[c2] ELSE w.area[n]]

(* What t2 is when, in the tree that w shows, c2 is merged into c.         *)
IsMerged(w, t2, c, c2, k2) ==
  /\ IsTree(t2)
  /\ t2.Root = w.root
  /\ DOMAIN t2.node = w.nodes \ {c2}
  /\ Shows(t2.node[c], w.level[c] = 0, Both(w.kids[c], w.kids[c2]), w.father[c],
           IF w.level[c] = 0 THEN w.next[c2] ELSE w.next[c], w.last[c])
  /\ Shows(t2.node[w.father[c]], FALSE, Minus(w.kids[w.father[c]], k2),
           w.father[w.father[c]], w.next[w.father[c]], w.last[w.father[c]])
  /\ \A n \in w.nodes : n # c /\ n # c2 /\ n # w.father[c] =>
       Shows(t2.node[n], w.level[n] = 0, w.kids[n],
             IF w.level[c] # 0 /\ KidOf(w.kids[c2], n) THEN c ELSE w.father[n], w.next[n],
             IF w.level[c] = 0 /\ n = w.next[c2] THEN c ELSE w.last[n])
JoinDone(w, t2, w2, c2) ==
  Sound(t2, w2) /\ SameHeld(w, w2) /\ w2.level = MergeLevel(w, c2)

(* Such a tree is sound.                                                   *)
LEMMA JoinSound ==
  ASSUME NEW w, Shape(w), Linked(w), NEW c, NEW c2, NEW kc, NEW k2, Neighbours(w, c, c2, kc, k2),
         NEW t2, IsMerged(w, t2, c, c2, k2)
  PROVE  \E w2 : JoinDone(w, t2, w2, c2)
<1>1. PICK F : F = w.father[c]
  OBVIOUS
<1>2. PICK K, K2, L : K = w.kids[c] /\ K2 = w.kids[c2] /\ L = w.kids[F]
  OBVIOUS
<1>3. /\ IsTree(t2)
      /\ t2.Root = w.root
      /\ DOMAIN t2.node = w.nodes \ {c2}
  BY DEF IsMerged
<1>4. /\ F \in w.nodes /\ F # c /\ F # c2 /\ c # c2 /\ c2 # w.root
      /\ w.father[c2] = F
      /\ w.level[F] \in Nat /\ w.level[c] \in Nat
      /\ w.level[F] = w.level[c] + 1 /\ w.level[c2] = w.level[c]
  BY <1>1, NeighboursAre
<1>5. c \in w.nodes /\ c2 \in w.nodes /\ c # w.root
  BY DEF Neighbours
<1>6. Shows(t2.node[c], w.level[c] = 0, Both(K, K2), F,
            IF w.level[c] = 0 THEN w.next[c2] ELSE w.next[c], w.last[c])
  BY <1>1, <1>2 DEF IsMerged
<1>7. Shows(t2.node[F], FALSE, Minus(L, k2), w.father[F], w.next[F], w.last[F])
  BY <1>1, <1>2 DEF IsMerged
<1>8. ASSUME NEW n \in w.nodes, n # c, n # c2, n # F
      PROVE  Shows(t2.node[n], w.level[n] = 0, w.kids[n],
                   IF w.level[c] # 0 /\ KidOf(K2, n) THEN c ELSE w.father[n], w.next[n],
                   IF w.level[c] = 0 /\ n = w.next[c2] THEN c ELSE w.last[n])
  BY <1>1, <1>2, <1>8 DEF IsMerged
<1>9. ASSUME NEW n \in w.nodes, n = c \/ n = F
      PROVE  ~(w.level[c] # 0 /\ KidOf(K2, n))
  <2>1. ASSUME w.level[c] # 0, NEW k \in DOMAIN w.kids[c2], w.kids[c2][k] = n
        PROVE  w.level[n] \in Nat /\ w.level[c2] = w.level[n] + 1
    BY <1>4, <1>5, <2>1, ChildEdge
  <2> QED BY <1>2, <1>4, <1>9, <2>1 DEF KidOf
<1>10. PICK lv, ar : lv = MergeLevel(w, c2) /\ ar = MergeArea(w, c, c2)
  OBVIOUS
<1>11. PICK w2 : w2 = View(t2, lv, ar)
  OBVIOUS
<1>12. /\ w2.nodes = DOMAIN t2.node /\ w2.root = w.root
       /\ w2.level = lv /\ w2.area = ar
       /\ \A n \in DOMAIN t2.node : /\ w2.kids[n] = Kids(t2.node[n].key, t2.node[n].child)
                                    /\ w2.father[n] = t2.node[n].father
                                    /\ w2.next[n] = t2.node[n].next
                                    /\ w2.last[n] = t2.node[n].last
  BY <1>3, <1>11, ViewIs
<1>13. \A n \in w.nodes \ {c2} : lv[n] = w.level[n]
  BY <1>10 DEF MergeLevel
<1>14. /\ w2.kids[c] = Both(K, K2) /\ w2.father[c] = F
       /\ w2.next[c] = IF w.level[c] = 0 THEN w.next[c2] ELSE w.next[c]
       /\ w2.last[c] = w.last[c]
       /\ Stores(t2.node[c]) /\ (t2.node[c].isLeaf <=> w.level[c] = 0)
  <2>1. c \in DOMAIN t2.node
    BY <1>3, <1>4, <1>5
  <2> QED BY <1>6, <1>12, <2>1 DEF Shows
<1>15. /\ w2.kids[F] = Minus(L, k2) /\ w2.father[F] = w.father[F]
       /\ w2.next[F] = w.next[F]
       /\ w2.last[F] = w.last[F]
       /\ Stores(t2.node[F]) /\ ~t2.node[F].isLeaf
  <2>1. F \in DOMAIN t2.node
    BY <1>3, <1>4
  <2> QED BY <1>7, <1>12, <2>1 DEF Shows
<1>16. ASSUME NEW n \in w.nodes, n # c, n # c2, n # F
       PROVE  /\ w2.kids[n] = w.kids[n]
              /\ w2.father[n] = IF w.level[c] # 0 /\ KidOf(K2, n) THEN c ELSE w.father[n]
              /\ w2.next[n] = w.next[n]
              /\ w2.last[n] = IF w.level[c] = 0 /\ n = w.next[c2] THEN c ELSE w.last[n]
              /\ Stores(t2.node[n]) /\ (t2.node[n].isLeaf <=> w.level[n] = 0)
  <2>1. n \in DOMAIN t2.node
    BY <1>3, <1>16
  <2> QED BY <1>8, <1>12, <1>16, <2>1 DEF Shows
<1>17. MergeView(w, w2, c, c2, k2)
  <2>1. w2.nodes = w.nodes \ {c2} /\ w2.root = w.root
    BY <1>3, <1>12
  <2>2. \A n \in w.nodes : n # c /\ n # c2 /\ n # w.father[c] => w2.kids[n] = w.kids[n]
    BY <1>1, <1>16
  <2>3. ASSUME NEW n \in w.nodes, n # c2
        PROVE  w2.father[n] = IF w.level[c] # 0 /\ KidOf(K2, n) THEN c ELSE w.father[n]
    <3>1. CASE n = c
      BY <1>1, <1>9, <1>14, <3>1
    <3>2. CASE n = F
      BY <1>9, <1>15, <3>2
    <3>3. CASE n # c /\ n # F
      BY <1>16, <2>3, <3>3
    <3> QED BY <3>1, <3>2, <3>3
  <2>4. w2.level = [n \in w2.nodes |-> w.level[n]]
    BY <1>10, <1>12, <2>1 DEF MergeLevel
  <2>5. w2.area = [n \in w2.nodes |-> IF n = c THEN w.area[c] \cup w.area[c2] ELSE w.area[n]]
    BY <1>10, <1>12, <2>1 DEF MergeArea
  <2>6. \A n \in w.nodes :
          n # c2 => w2.father[n] = IF w.level[c] # 0 /\ \E k \in DOMAIN w.kids[c2] : w.kids[c2][k] = n
                                     THEN c ELSE w.father[n]
    BY <1>2, <2>3 DEF KidOf
  <2> QED BY <1>1, <1>2, <1>14, <1>15, <2>1, <2>2, <2>4, <2>5, <2>6 DEF MergeView
<1>18. MergedLinks(w, w2, c, c2)
  <2>1. ASSUME w.level[c] = 0
        PROVE  w.next[c2] # c /\ w.next[c2] # F
    <3>1. w.next[c2] # c /\ (w.next[c2] = NULL \/ Leaf(w, w.next[c2]))
      BY <2>1, NeighboursLinked
    <3>2. NULL \notin w.nodes
      BY DEF Linked
    <3> QED BY <1>4, <2>1, <3>1, <3>2 DEF Leaf
  <2>2. ASSUME NEW n \in w2.nodes
        PROVE  /\ w2.next[n] = IF w.level[c] = 0 /\ n = c THEN w.next[c2] ELSE w.next[n]
               /\ w2.last[n] = IF w.level[c] = 0 /\ n = w.next[c2] THEN c ELSE w.last[n]
    <3>1. CASE n = c
      BY <1>14, <2>1, <3>1
    <3>2. CASE n = F
      BY <1>4, <1>15, <2>1, <3>2
    <3>3. CASE n # c /\ n # F
      <4>1. n \in w.nodes /\ n # c2
        BY <1>3, <1>12, <2>2
      <4> QED BY <1>16, <3>3, <4>1
    <3> QED BY <3>1, <3>2, <3>3
  <2> QED BY <2>2 DEF MergedLinks
<1>19. Shape(w2) /\ Linked(w2) /\ SameHeld(w, w2)
  BY <1>17, <1>18, Merging
<1>20. ASSUME NEW n \in DOMAIN t2.node
       PROVE  Stores(t2.node[n]) /\ (t2.node[n].isLeaf <=> lv[n] = 0)
  <2>1. n \in w.nodes /\ n # c2
    BY <1>3
  <2>2. lv[n] = w.level[n]
    BY <1>13, <2>1
  <2>3. CASE n = c
    BY <1>14, <2>2, <2>3
  <2>4. CASE n = F
    BY <1>4, <1>15, <2>2, <2>4
  <2>5. CASE n # c /\ n # F
    BY <1>16, <2>1, <2>2, <2>5
  <2> QED BY <2>3, <2>4, <2>5
<1>21. Sound(t2, w2)
  BY <1>3, <1>11, <1>19, <1>20, SoundFrom
<1>22. JoinDone(w, t2, w2, c2)
  BY <1>10, <1>12, <1>19, <1>21 DEF JoinDone
<1> QED BY <1>22

-----------------------------------------------------------------------------
(* What merging does to the nodes.                                         *)

(* A node is freed: the others stay as they are.                           *)
LEMMA FreedIs ==
  ASSUME NEW t, IsTree(t), NEW m, NEW t2, t2 = Freed(t, m)
  PROVE  /\ IsTree(t2)
         /\ t2.Root = t.Root /\ DOMAIN t2.node = DOMAIN t.node \ {m}
         /\ \A n \in DOMAIN t.node : n # m => t2.node[n] = t.node[n]
<1>1. PICK D : D = DOMAIN t.node
  OBVIOUS
<1>2. t \in [Root : Nat, node : [D -> Node]] /\ D \subseteq Nat \ {0} /\ IsFiniteSet(D)
  BY <1>1 DEF IsTree
<1>3. PICK f \in [D -> Node] : f = t.node
  BY <1>2
<1>4. PICK E : E = D \ {m}
  OBVIOUS
<1> DEFINE f2 == [n \in E |-> f[n]]
<1>5. f2 \in [E -> Node] /\ \A n \in E : f2[n] = f[n]
  BY <1>4
<1>6. t2 = [t EXCEPT !.node = f2]
  BY <1>1, <1>2, <1>3, <1>4 DEF Freed
<1> HIDE DEF f2
<1>7. t2.Root = t.Root /\ t2.node = f2
  BY <1>2, <1>6
<1>8. t2 \in [Root : Nat, node : [E -> Node]]
  BY <1>2, <1>5, <1>6
<1>9. DOMAIN t2.node = E
  BY <1>5, <1>7
<1>10. IsFiniteSet(E)
  BY <1>2, <1>4, FS_Subset
<1>11. IsTree(t2)
  BY <1>2, <1>4, <1>8, <1>9, <1>10 DEF IsTree
<1> QED BY <1>1, <1>3, <1>4, <1>5, <1>7, <1>9, <1>11

(* Leaf r is taken out from between prev and succ. *)
LinkedOut(t, t2, prev, succ) ==
  \A n \in DOMAIN t.node :
    Has(t2.node[n], t.node[n].isLeaf, t.node[n].key, t.node[n].child, t.node[n].father,
        IF n = prev THEN succ ELSE t.node[n].next,
        IF n = succ THEN prev ELSE t.node[n].last)

(* What UnlinkLeaf does. *)
LEMMA UnlinkLeafIs ==
  ASSUME NEW t, IsTree(t), NEW r, NEW prev, prev = t.node[r].last, prev \in DOMAIN t.node,
         NEW succ, succ = t.node[r].next, succ \in DOMAIN t.node \/ succ = NULL,
         NEW t2, t2 = UnlinkLeaf(t, r)
  PROVE  /\ IsTree(t2)
         /\ t2.Root = t.Root /\ DOMAIN t2.node = DOMAIN t.node
         /\ LinkedOut(t, t2, prev, succ)
<1>1. PICK D : D = DOMAIN t.node
  OBVIOUS
<1>2. /\ t \in [Root : Nat, node : [D -> Node]] /\ D \subseteq Nat \ {0}
      /\ prev \in D /\ (succ \in D \/ succ = 0)
  BY <1>1 DEF IsTree, NULL
<1>3. PICK ta : ta = WithNext(t, prev, succ)
  OBVIOUS
<1>4. prev \in Nat /\ succ \in Nat
  <2>1. prev \in Nat
    BY <1>2
  <2>2. CASE succ \in D
    BY <1>2, <2>1, <2>2
  <2>3. CASE succ = 0
    BY <2>1, <2>3
  <2> QED BY <1>2, <2>2, <2>3
<1>5. /\ IsTree(ta) /\ ta.Root = t.Root /\ DOMAIN ta.node = D
      /\ \A n \in D :
           Has(ta.node[n], t.node[n].isLeaf, t.node[n].key, t.node[n].child,
               t.node[n].father, IF n = prev THEN succ ELSE t.node[n].next, t.node[n].last)
  BY <1>1, <1>3, <1>4, WithNextIs
<1>6. t2 = IF succ = NULL THEN ta ELSE WithLast(ta, succ, prev)
  <2>1. prev # NULL
    BY <1>2 DEF NULL
  <2> QED BY <1>3, <2>1 DEF UnlinkLeaf, WithNext, WithLast
<1>7. CASE succ = NULL
  <2>1. \A n \in D : n # succ
    BY <1>2, <1>7 DEF NULL
  <2>2. t2 = ta
    BY <1>6, <1>7
  <2> QED BY <1>1, <1>5, <2>1, <2>2 DEF LinkedOut
<1>8. CASE succ # NULL
  <2>1. succ \in D /\ t2 = WithLast(ta, succ, prev)
    BY <1>1, <1>6, <1>8
  <2>2. /\ IsTree(t2) /\ t2.Root = t.Root /\ DOMAIN t2.node = D
        /\ \A n \in D :
             Has(t2.node[n], ta.node[n].isLeaf, ta.node[n].key, ta.node[n].child,
                 ta.node[n].father, ta.node[n].next, IF n = succ THEN prev ELSE ta.node[n].last)
    <3>1. succ \in DOMAIN ta.node /\ IsTree(ta)
      BY <1>5, <2>1
    <3>2. /\ IsTree(t2) /\ t2.Root = ta.Root /\ DOMAIN t2.node = DOMAIN ta.node
          /\ \A n \in DOMAIN ta.node :
               Has(t2.node[n], ta.node[n].isLeaf, ta.node[n].key, ta.node[n].child,
                   ta.node[n].father, ta.node[n].next, IF n = succ THEN prev ELSE ta.node[n].last)
      BY <1>4, <2>1, <3>1, WithLastIs
    <3> QED BY <1>5, <3>2
  <2>3. ASSUME NEW n \in D
        PROVE  Has(t2.node[n], t.node[n].isLeaf, t.node[n].key, t.node[n].child, t.node[n].father,
                   IF n = prev THEN succ ELSE t.node[n].next,
                   IF n = succ THEN prev ELSE t.node[n].last)
    BY <1>5, <2>2 DEF Has
  <2> QED BY <1>1, <2>2, <2>3 DEF LinkedOut
<1> QED BY <1>7, <1>8

(* The children of a node are at the positions of its keys. *)
LEMMA SubnodesAre ==
  ASSUME NEW t, NEW c, NEW nd, nd = t.node[c], nd.child \in Seq(Cell), Len(nd.child) = Len(nd.key), NEW n
  PROVE  n \in Subnodes(t, c) <=> ChildFrom(nd, 1, Len(nd.key), n)
<1>1. PICK cs \in Seq(Cell) : cs = nd.child
  OBVIOUS
<1>2. n \in Range(cs) <=> \E i \in 1..Len(cs) : cs[i] = n
  BY RangeIs
<1> QED BY <1>1, <1>2 DEF Subnodes, ChildFrom

(* The arrays ks and cs are those of a and b, one behind the other. *)
LEMMA AbsorbWith ==
  ASSUME NEW t, IsTree(t), NEW c, c \in DOMAIN t.node, NEW r, r \in DOMAIN t.node,
         NEW a, a = t.node[c], NEW b, b = t.node[r]
  PROVE  Absorb(t, c, r) = Adopt(WithArrays(t, c, a.key \o b.key, a.child \o b.child), Subnodes(t, r), c)
<1>1. PICK D : D = DOMAIN t.node
  OBVIOUS
<1>2. t \in [Root : Nat, node : [D -> Node]] /\ c \in D
  BY <1>1 DEF IsTree
<1>3. a \in Node
  BY <1>2
<1>4. PICK ks, cs : ks = a.key \o b.key /\ cs = a.child \o b.child
  OBVIOUS
<1>5. PICK ta : ta = [t EXCEPT !.node[c].key = @ \o t.node[r].key, !.node[c].child = @ \o t.node[r].child]
  OBVIOUS
<1>6. WithArrays(t, c, ks, cs) = [t EXCEPT !.node[c] = [a EXCEPT !.key = ks, !.child = cs]]
  BY <1>2 DEF WithArrays
<1>7. ta = [t EXCEPT !.node[c] = [a EXCEPT !.key = ks, !.child = cs]]
  BY <1>2, <1>3, <1>4, <1>5 DEF Node
<1>8. Absorb(t, c, r) = Adopt(ta, Subnodes(t, r), c)
  BY <1>5 DEF Absorb
<1> QED BY <1>4, <1>6, <1>7, <1>8

-----------------------------------------------------------------------------
(* The children of F at positions i and i + 1 are a and b.                 *)
SideBySide(t, F, i, a, b) ==
  /\ F \in DOMAIN t.node /\ ~t.node[F].isLeaf
  /\ i \in Nat \ {0} /\ i + 1 <= Len(t.node[F].key)
  /\ a = t.node[F].child[i] /\ b = t.node[F].child[i + 1]

(* What is known of two nodes side by side, in terms of the tree. *)
LEMMA SideIs ==
  ASSUME NEW t, NEW w, Sound(t, w), NEW F, NEW i, NEW a, NEW b, SideBySide(t, F, i, a, b),
         NEW kc, kc = t.node[F].key[i], NEW k2, k2 = t.node[F].key[i + 1]
  PROVE  /\ a \in DOMAIN t.node /\ b \in DOMAIN t.node /\ a # t.Root /\ b # t.Root
         /\ a # b /\ F # a /\ F # b
         /\ t.node[a].father = F /\ t.node[b].father = F
         /\ w.level[a] \in Nat /\ w.level[b] = w.level[a] /\ w.level[F] = w.level[a] + 1
         /\ Len(t.node[a].key) # 0 /\ Len(t.node[b].key) # 0
         /\ t.node[a].key[1] = kc /\ t.node[b].key[1] = k2
         /\ kc \in Keys /\ k2 \in Keys /\ kc \in Int /\ k2 \in Int /\ kc < k2
         /\ t.node[a].isLeaf <=> w.level[a] = 0
         /\ t.node[b].isLeaf <=> t.node[a].isLeaf
         /\ Neighbours(w, a, b, kc, k2)
<1>1. PICK f : f = t.node[F]
  OBVIOUS
<1>2. /\ F \in DOMAIN t.node /\ ~f.isLeaf
      /\ i \in Nat \ {0} /\ i + 1 <= Len(f.key)
      /\ a = f.child[i] /\ b = f.child[i + 1]
  BY <1>1 DEF SideBySide
<1>3. /\ f.key \in Seq(Keys) /\ Ascending(f.key) /\ Len(f.key) \in Nat
  BY <1>1, <1>2, SoundNode
<1>4. i \in 1..Len(f.key) /\ i + 1 \in 1..Len(f.key)
  BY <1>2, <1>3
<1>5. /\ a \in DOMAIN t.node /\ a # t.Root
      /\ t.node[a].father = F
      /\ w.level[a] \in Nat /\ w.level[F] \in Nat /\ w.level[F] = w.level[a] + 1
      /\ Len(t.node[a].key) # 0
      /\ t.node[a].key[1] = f.key[i]
  BY <1>1, <1>2, <1>4, NodeChild, SMTT(40)
<1>6. /\ b \in DOMAIN t.node /\ b # t.Root
      /\ t.node[b].father = F
      /\ w.level[b] \in Nat /\ w.level[F] = w.level[b] + 1
      /\ Len(t.node[b].key) # 0
      /\ t.node[b].key[1] = f.key[i + 1]
  <2>1. PICK j \in 1..Len(f.key) : j = i + 1
    BY <1>4
  <2>2. b = f.child[j]
    BY <1>2, <2>1
  <2> QED BY <1>1, <1>2, <2>1, <2>2, NodeChild, SMTT(40)
<1>7. /\ f.key[i] \in Keys /\ f.key[i + 1] \in Keys /\ f.key[i] \in Int /\ f.key[i + 1] \in Int
      /\ f.key[i] < f.key[i + 1]
  <2>1. f.key[i] \in Keys /\ f.key[i + 1] \in Keys
    BY <1>3, <1>4
  <2>2. f.key[i] \in Int /\ f.key[i + 1] \in Int
    BY <2>1, TreeConstants
  <2>3. i < i + 1
    BY <1>2
  <2> QED BY <1>3, <1>4, <2>1, <2>2, <2>3 DEF Ascending
<1>8. w.level[b] = w.level[a] /\ F # a /\ F # b
  BY <1>5, <1>6
<1>9. a # b
  BY <1>5, <1>6, <1>7
<1>10. /\ t.node[a].isLeaf <=> w.level[a] = 0
       /\ t.node[b].isLeaf <=> w.level[b] = 0
  <2>1. t.node[a].isLeaf <=> w.level[a] = 0
    BY <1>5, SoundSees
  <2>2. t.node[b].isLeaf <=> w.level[b] = 0
    BY <1>6, SoundSees
  <2> QED BY <2>1, <2>2
<1>11. Neighbours(w, a, b, kc, k2)
  <2>1. w.nodes = DOMAIN t.node /\ w.root = t.Root
    BY SoundFrame
  <2>2. w.father[a] = F
    BY <1>5, SoundSees
  <2>3. LeastOf(DOMAIN w.kids[a], kc)
    <3>1. LeastKey(w, a, t.node[a].key[1])
      BY <1>5, NodeKids
    <3> QED BY <1>1, <1>5, <3>1 DEF LeastKey
  <2>4. PICK K : K = DOMAIN w.kids[F]
    OBVIOUS
  <2>5. /\ \A j \in 1..Len(f.key) : f.key[j] \in Int /\ f.key[j] \in K
        /\ \A k \in K : \E j \in 1..Len(f.key) : f.key[j] = k
    <3>1. \A j \in 1..Len(f.key) : f.key[j] \in Int /\ f.key[j] \in K
      BY <1>1, <1>2, <2>4, NodeKids
    <3>2. Pairs(w.kids[F], f.key, f.child)
      BY <1>1, <1>2, NodePairs
    <3>3. \A k \in K : \E j \in 1..Len(f.key) : f.key[j] = k
      BY <2>4, <3>2 DEF Pairs
    <3> QED BY <3>1, <3>3
  <2>6. ASSUME NEW k \in K
        PROVE  k <= f.key[i] \/ f.key[i + 1] <= k
    <3>1. PICK j \in 1..Len(f.key) : f.key[j] = k
      BY <2>5, <2>6
    <3>2. f.key[j] \in Int
      BY <2>5
    <3>3. CASE j < i
      BY <1>3, <1>4, <1>7, <3>1, <3>2, <3>3 DEF Ascending
    <3>4. CASE j = i
      BY <1>7, <3>1, <3>4
    <3>5. CASE j = i + 1
      BY <1>7, <3>1, <3>5
    <3>6. CASE j > i + 1
      BY <1>3, <1>4, <1>7, <3>1, <3>2, <3>6 DEF Ascending
    <3> QED BY <1>4, <3>1, <3>3, <3>4, <3>5, <3>6
  <2>7. NextKey(K, kc, k2)
    BY <1>1, <1>4, <1>7, <2>5, <2>6 DEF NextKey
  <2>8. w.kids[F][k2] = b
    <3>1. Pairs(w.kids[F], f.key, f.child)
      BY <1>1, <1>2, NodePairs
    <3>2. \A j \in 1..Len(f.key) : w.kids[F][f.key[j]] = f.child[j]
      BY <3>1 DEF Pairs
    <3> QED BY <1>1, <1>2, <1>4, <3>2
  <2> QED BY <1>1, <1>5, <1>6, <1>7, <2>1, <2>2, <2>3, <2>4, <2>7, <2>8 DEF Neighbours, IsKid
<1> QED BY <1>1, <1>5, <1>6, <1>7, <1>8, <1>9, <1>10, <1>11

(* Two leaves side by side. *)
LEMMA SideLinked ==
  ASSUME NEW t, NEW w, Sound(t, w), NEW F, NEW i, NEW a, NEW b, SideBySide(t, F, i, a, b), t.node[a].isLeaf
  PROVE  /\ t.node[a].next = b /\ t.node[b].last = a
         /\ t.node[b].next # a /\ t.node[b].next # b
         /\ t.node[b].next = NULL \/ (t.node[b].next \in DOMAIN t.node /\ t.node[t.node[b].next].isLeaf)
<1>1. PICK kc, k2 : kc = t.node[F].key[i] /\ k2 = t.node[F].key[i + 1]
  OBVIOUS
<1>2. Neighbours(w, a, b, kc, k2)
  BY <1>1, SideIs
<1>3. /\ a \in DOMAIN t.node /\ b \in DOMAIN t.node
      /\ w.level[a] = 0
  BY <1>1, SideIs
<1>4. w.next[a] = t.node[a].next /\ w.last[b] = t.node[b].last /\ w.next[b] = t.node[b].next
  BY <1>3, SoundSees
<1>5. Shape(w) /\ Linked(w)
  BY SoundFrame
<1>6. /\ w.next[a] = b /\ w.last[b] = a
      /\ w.next[b] # a /\ w.next[b] # b
      /\ w.next[b] = NULL \/ Leaf(w, w.next[b])
  BY <1>2, <1>3, <1>5, NeighboursLinked
<1>7. \A n : Leaf(w, n) => n \in DOMAIN t.node /\ t.node[n].isLeaf
  BY LeafIs
<1> QED BY <1>4, <1>6, <1>7

-----------------------------------------------------------------------------
(* Node b is absorbed by its left neighbour a. *)
Absorbed(t, u, a, b) ==
  LET l == t.node[a]
      r == t.node[b]
  IN  /\ IsTree(u)
      /\ u.Root = t.Root /\ DOMAIN u.node = DOMAIN t.node
      /\ Has(u.node[a], l.isLeaf, l.key \o r.key, l.child \o r.child, l.father, l.next, l.last)
      /\ \A n \in DOMAIN t.node : n # a =>
           Has(u.node[n], t.node[n].isLeaf, t.node[n].key, t.node[n].child,
               IF ChildFrom(r, 1, Len(r.key), n) THEN a ELSE t.node[n].father,
               t.node[n].next, t.node[n].last)

(* What Absorb does. *)
LEMMA AbsorbIs ==
  ASSUME NEW t, NEW w, Sound(t, w), NEW F, NEW i, NEW a, NEW b, SideBySide(t, F, i, a, b),
         NEW u, u = Absorb(t, a, b)
  PROVE  /\ Absorbed(t, u, a, b)
         /\ u.node[F] = t.node[F] /\ u.node[b] = t.node[b]
<1>1. PICK l, r : l = t.node[a] /\ r = t.node[b]
  OBVIOUS
<1>2. PICK kc, k2 : kc = t.node[F].key[i] /\ k2 = t.node[F].key[i + 1]
  OBVIOUS
<1>3. /\ a \in DOMAIN t.node /\ b \in DOMAIN t.node
      /\ a # b /\ F # a /\ F # b
      /\ w.level[a] \in Nat /\ w.level[b] = w.level[a] /\ w.level[F] = w.level[a] + 1
  BY <1>2, SideIs
<1>4. F \in DOMAIN t.node
  BY DEF SideBySide
<1>5. IsTree(t)
  BY SoundFrame
<1>6. l.key \in Seq(Keys) /\ l.child \in Seq(Cell)
  BY <1>1, <1>3, SoundNode
<1>7. r.key \in Seq(Keys) /\ r.child \in Seq(Cell) /\ Len(r.key) \in Nat /\ Len(r.child) = Len(r.key)
  BY <1>1, <1>3, SoundNode
<1>8. PICK ks \in Seq(Keys), cs \in Seq(Cell) : ks = l.key \o r.key /\ cs = l.child \o r.child
  BY <1>6, <1>7, ConcatProperties
<1>9. PICK ta : ta = WithArrays(t, a, ks, cs)
  OBVIOUS
<1>10. /\ IsTree(ta)
       /\ ta.Root = t.Root /\ DOMAIN ta.node = DOMAIN t.node
       /\ Has(ta.node[a], l.isLeaf, ks, cs, l.father, l.next, l.last)
       /\ \A n \in DOMAIN t.node : n # a => ta.node[n] = t.node[n]
  BY <1>1, <1>3, <1>5, <1>9, WithArraysIs
<1>11. PICK s : s = Subnodes(t, b)
  OBVIOUS
<1>12. u = Adopt(ta, s, a)
  BY <1>1, <1>3, <1>5, <1>8, <1>9, <1>11, AbsorbWith
<1>13. \A n : n \in s <=> ChildFrom(r, 1, Len(r.key), n)
  BY <1>1, <1>7, <1>11, SubnodesAre
<1>14. ASSUME NEW n, ChildFrom(r, 1, Len(r.key), n)
       PROVE  n \in DOMAIN t.node /\ n # a /\ n # F /\ n # b
  <2>0. PICK q \in Nat : q = Len(r.key)
    BY <1>7
  <2>1. PICK p \in Nat \ {0} : p = 1
    OBVIOUS
  <2>2. ChildFrom(r, p, q, n) /\ q <= Len(r.key)
    BY <1>7, <1>14, <2>0, <2>1
  <2>3. /\ n \in DOMAIN t.node /\ n # b
        /\ w.level[n] \in Nat /\ w.level[b] = w.level[n] + 1
    BY <1>1, <1>3, <2>2, ChildFromIs
  <2>4. n # a
    <3>1. PICK m \in Nat : m = w.level[n]
      BY <2>3
    <3>2. w.level[a] = m + 1 /\ m + 1 # m
      BY <1>3, <2>3, <3>1
    <3> QED BY <3>1, <3>2
  <2>5. n # F
    <3>1. PICK m \in Nat : m = w.level[n]
      BY <2>3
    <3>2. w.level[F] = m + 2 /\ m + 2 # m
      BY <1>3, <2>3, <3>1
    <3> QED BY <3>1, <3>2
  <2> QED BY <2>3, <2>4, <2>5
<1>15. a \in Nat
  BY <1>3, SoundNode
<1>16. /\ IsTree(u)
       /\ u.Root = ta.Root /\ DOMAIN u.node = DOMAIN ta.node
       /\ \A n \in DOMAIN ta.node :
            Has(u.node[n], ta.node[n].isLeaf, ta.node[n].key, ta.node[n].child,
                IF n \in s THEN a ELSE ta.node[n].father, ta.node[n].next, ta.node[n].last)
  BY <1>10, <1>12, <1>15, AdoptIs
<1>17. Has(u.node[a], l.isLeaf, ks, cs, l.father, l.next, l.last)
  <2>1. a \notin s
    BY <1>13, <1>14
  <2> QED BY <1>3, <1>10, <1>16, <2>1 DEF Has
<1>18. ASSUME NEW n \in DOMAIN t.node, n # a
       PROVE  Has(u.node[n], t.node[n].isLeaf, t.node[n].key, t.node[n].child,
                  IF ChildFrom(r, 1, Len(r.key), n) THEN a ELSE t.node[n].father,
                  t.node[n].next, t.node[n].last)
  BY <1>10, <1>13, <1>16, <1>18
<1>19. Absorbed(t, u, a, b)
  BY <1>1, <1>8, <1>10, <1>16, <1>17, <1>18 DEF Absorbed
<1>20. ASSUME NEW n \in DOMAIN t.node, n # a, ~ChildFrom(r, 1, Len(r.key), n)
       PROVE  u.node[n] = t.node[n]
  <2>1. u.node[n] \in Node /\ t.node[n] \in Node
    BY <1>5, <1>10, <1>16 DEF IsTree
  <2>2. Has(u.node[n], t.node[n].isLeaf, t.node[n].key, t.node[n].child,
            t.node[n].father, t.node[n].next, t.node[n].last)
    BY <1>18, <1>20
  <2> QED BY <2>1, <2>2, HasSame
<1> QED BY <1>3, <1>4, <1>14, <1>19, <1>20

(* What TakeOut does to an inner node when its first key stays. *)
TakenOutOfInner(u, F, f, i, b, ta, s) ==
  /\ u.node[f.child[1]].isLeaf => s.tree = Freed(UnlinkLeaf(ta, b), b)
  /\ ~u.node[f.child[1]].isLeaf => s.tree = Freed(ta, b)
  /\ s.cur = F
  /\ s.short <=> (Len(f.key) - 1) * 2 < MaxChildNumber

(* What TakeOut does to an inner node. *)
LEMMA TakeOutInnerIs ==
  ASSUME NEW u, NEW F, NEW f, f = u.node[F], ~f.isLeaf, NEW x,
         NEW i, i = Binary_Search(f, x), i # 1, NEW b, b = f.child[i],
         NEW ta, ta = CutAt(u, F, i), NEW s, s = TakeOut(u, F, x)
  PROVE  TakenOutOfInner(u, F, f, i, b, ta, s)
BY DEF TakeOut, TakenOutOfInner

(* Node b is merged into its left neighbour a, and taken out of the tree. *)
JoinNodes(t, t2, F, i, a, b) ==
  LET l == t.node[a]
      r == t.node[b]
      f == t.node[F]
  IN  /\ IsTree(t2)
      /\ t2.Root = t.Root
      /\ DOMAIN t2.node = DOMAIN t.node \ {b}
      /\ Has(t2.node[a], l.isLeaf, l.key \o r.key, l.child \o r.child,
             l.father, IF l.isLeaf THEN r.next ELSE l.next, l.last)
      /\ Has(t2.node[F], f.isLeaf, RemoveAt(f.key, i + 1), RemoveAt(f.child, i + 1),
             f.father, f.next, f.last)
      /\ \A n \in DOMAIN t.node : n # a /\ n # b /\ n # F =>
           Has(t2.node[n], t.node[n].isLeaf, t.node[n].key, t.node[n].child,
               IF ChildFrom(r, 1, Len(r.key), n) THEN a ELSE t.node[n].father,
               t.node[n].next, IF l.isLeaf /\ n = r.next THEN a ELSE t.node[n].last)

(* Both together: a node is merged into its left neighbour. *)
LEMMA JoinIs ==
  ASSUME NEW t, NEW w, Sound(t, w), NEW F, NEW i, NEW a, NEW b, SideBySide(t, F, i, a, b),
         NEW x, x = t.node[b].key[1], NEW s, s = TakeOut(Absorb(t, a, b), F, x)
  PROVE  /\ s.cur = F
         /\ s.short <=> (Len(t.node[F].key) - 1) * 2 < MaxChildNumber
         /\ JoinNodes(t, s.tree, F, i, a, b)
<1>1. PICK l, r, f : l = t.node[a] /\ r = t.node[b] /\ f = t.node[F]
  OBVIOUS
<1>2. PICK kc, k2 : kc = f.key[i] /\ k2 = f.key[i + 1]
  OBVIOUS
<1>3. /\ a \in DOMAIN t.node /\ b \in DOMAIN t.node /\ a # t.Root
      /\ a # b /\ F # a /\ F # b
      /\ l.father = F
      /\ x = k2 /\ k2 \in Int
      /\ r.isLeaf <=> l.isLeaf
  BY <1>1, <1>2, SideIs
<1>4. /\ F \in DOMAIN t.node /\ ~f.isLeaf
      /\ i \in Nat \ {0} /\ i + 1 <= Len(f.key)
      /\ b = f.child[i + 1]
  BY <1>1 DEF SideBySide
<1>5. /\ f.key \in Seq(Keys) /\ f.child \in Seq(Cell) /\ Len(f.key) \in Nat
      /\ Len(f.child) = Len(f.key)
  BY <1>1, <1>4, SoundNode
<1>6. PICK u : u = Absorb(t, a, b)
  OBVIOUS
<1>7. /\ Absorbed(t, u, a, b)
      /\ u.node[F] = t.node[F] /\ u.node[b] = t.node[b]
  BY <1>6, AbsorbIs
<1>8. /\ IsTree(u)
      /\ u.Root = t.Root /\ DOMAIN u.node = DOMAIN t.node
      /\ Has(u.node[a], l.isLeaf, l.key \o r.key, l.child \o r.child, l.father, l.next, l.last)
      /\ \A n \in DOMAIN t.node : n # a =>
           Has(u.node[n], t.node[n].isLeaf, t.node[n].key, t.node[n].child,
               IF ChildFrom(r, 1, Len(r.key), n) THEN a ELSE t.node[n].father,
               t.node[n].next, t.node[n].last)
  BY <1>1, <1>7 DEF Absorbed
<1>9. PICK j : j = Binary_Search(f, x)
  OBVIOUS
<1>10. j = i + 1 /\ j # 1 /\ b = f.child[j] /\ j \in 1..Len(f.key)
  <2>1. PICK q \in Int : q = x
    BY <1>3
  <2>2. KeyAt(q, t.node[F].key, i + 1)
    BY <1>1, <1>2, <1>3, <1>4, <1>5, <2>1 DEF KeyAt
  <2>3. Len(t.node[F].key) # 0
    <3>1. Len(f.key) # 0
      BY <1>4, <1>5
    <3> QED BY <1>1, <3>1
  <2>4. Binary_Search(t.node[F], q) = i + 1
    BY <1>4, <2>2, <2>3, SearchedAt
  <2>5. j = i + 1
    BY <1>1, <1>9, <2>1, <2>4
  <2> QED BY <1>4, <1>5, <2>5
<1>11. PICK ta : ta = CutAt(u, F, j)
  OBVIOUS
<1>12. TakenOutOfInner(u, F, f, j, b, ta, s)
  BY <1>1, <1>4, <1>6, <1>7, <1>9, <1>10, <1>11, TakeOutInnerIs
<1>13. /\ u.node[f.child[1]].isLeaf => s.tree = Freed(UnlinkLeaf(ta, b), b)
       /\ ~u.node[f.child[1]].isLeaf => s.tree = Freed(ta, b)
       /\ s.cur = F
       /\ s.short <=> (Len(f.key) - 1) * 2 < MaxChildNumber
  BY <1>12 DEF TakenOutOfInner
<1>14. PICK fk, fc : fk = RemoveAt(f.key, j) /\ fc = RemoveAt(f.child, j)
  OBVIOUS
<1>15. fk \in Seq(Keys) /\ fc \in Seq(Cell)
  BY <1>5, <1>10, <1>14, RemoveAtElements
<1>16. ta = WithArrays(u, F, fk, fc)
  <2>1. F \in DOMAIN u.node /\ f = u.node[F] /\ IsTree(u)
    BY <1>1, <1>4, <1>7, <1>8
  <2> QED BY <1>11, <1>14, <2>1, CutAtIs
<1>17. /\ IsTree(ta)
       /\ ta.Root = u.Root /\ DOMAIN ta.node = DOMAIN u.node
       /\ Has(ta.node[F], f.isLeaf, fk, fc, f.father, f.next, f.last)
       /\ \A n \in DOMAIN u.node : n # F => ta.node[n] = u.node[n]
  <2>1. F \in DOMAIN u.node /\ f = u.node[F] /\ IsTree(u)
    BY <1>1, <1>4, <1>7, <1>8
  <2> QED BY <1>15, <1>16, <2>1, WithArraysIs
<1>18. u.node[f.child[1]].isLeaf <=> l.isLeaf
  <2>1. PICK d : d = f.child[1]
    OBVIOUS
  <2>2. d \in DOMAIN t.node /\ (t.node[d].isLeaf <=> l.isLeaf)
    BY <1>1, <1>3, <2>1, NodeFather
  <2>3. CASE d = a
    BY <1>8, <2>1, <2>3 DEF Has
  <2>4. CASE d # a
    BY <1>8, <2>1, <2>2, <2>4 DEF Has
  <2> QED BY <2>3, <2>4
<1>19. ASSUME NEW n \in DOMAIN t.node, n # a, n # F
       PROVE  Has(ta.node[n], t.node[n].isLeaf, t.node[n].key, t.node[n].child,
                  IF ChildFrom(r, 1, Len(r.key), n) THEN a ELSE t.node[n].father,
                  t.node[n].next, t.node[n].last)
  <2>1. ta.node[n] = u.node[n]
    BY <1>8, <1>17, <1>19
  <2> QED BY <1>8, <1>19, <2>1
<1>20. ta.node[a] = u.node[a] /\ ta.node[b] = r
  BY <1>1, <1>3, <1>7, <1>8, <1>17
<1>21. PICK t2 : t2 = s.tree
  OBVIOUS
<1>22. CASE ~l.isLeaf
  <2>1. t2 = Freed(ta, b)
    BY <1>13, <1>18, <1>21, <1>22
  <2>2. /\ IsTree(t2)
        /\ t2.Root = ta.Root /\ DOMAIN t2.node = DOMAIN ta.node \ {b}
        /\ \A n \in DOMAIN ta.node : n # b => t2.node[n] = ta.node[n]
    BY <1>17, <2>1, FreedIs
  <2>3. t2.node[a] = u.node[a] /\ t2.node[F] = ta.node[F]
    BY <1>3, <1>4, <1>8, <1>17, <1>20, <2>2
  <2>4. ASSUME NEW n \in DOMAIN t.node, n # a, n # b, n # F
        PROVE  Has(t2.node[n], t.node[n].isLeaf, t.node[n].key, t.node[n].child,
                  IF ChildFrom(r, 1, Len(r.key), n) THEN a ELSE t.node[n].father,
                  t.node[n].next, t.node[n].last)
    <3>1. t2.node[n] = ta.node[n]
      BY <1>8, <1>17, <2>2, <2>4
    <3> QED BY <1>19, <2>4, <3>1
  <2>5. JoinNodes(t, t2, F, i, a, b)
    BY <1>1, <1>8, <1>10, <1>14, <1>17, <1>22, <2>2, <2>3, <2>4 DEF JoinNodes
  <2> QED BY <1>1, <1>13, <1>21, <2>5
<1>23. CASE l.isLeaf
  <2>1. PICK tb : tb = UnlinkLeaf(ta, b)
    OBVIOUS
  <2>2. t2 = Freed(tb, b)
    BY <1>13, <1>18, <1>21, <1>23, <2>1
  <2>3. PICK succ : succ = r.next
    OBVIOUS
  <2>4. /\ r.last = a /\ succ # a /\ succ # b
        /\ succ = NULL \/ (succ \in DOMAIN t.node /\ t.node[succ].isLeaf)
    BY <1>1, <1>23, <2>3, SideLinked
  <2>5. succ # F
    <3>1. NULL \notin DOMAIN t.node
      BY SoundFrame
    <3> QED BY <1>1, <1>4, <2>4, <3>1
  <2>6. /\ a = ta.node[b].last /\ a \in DOMAIN ta.node
        /\ succ = ta.node[b].next /\ (succ \in DOMAIN ta.node \/ succ = NULL)
    BY <1>3, <1>8, <1>17, <1>20, <2>3, <2>4
  <2>7. /\ IsTree(tb)
        /\ tb.Root = ta.Root /\ DOMAIN tb.node = DOMAIN ta.node
        /\ LinkedOut(ta, tb, a, succ)
    BY <1>17, <2>1, <2>6, UnlinkLeafIs
  <2>8. ASSUME NEW n \in DOMAIN ta.node
        PROVE  Has(tb.node[n], ta.node[n].isLeaf, ta.node[n].key, ta.node[n].child, ta.node[n].father,
                   IF n = a THEN succ ELSE ta.node[n].next,
                   IF n = succ THEN a ELSE ta.node[n].last)
    BY <2>7 DEF LinkedOut
  <2>9. /\ IsTree(t2)
        /\ t2.Root = tb.Root /\ DOMAIN t2.node = DOMAIN tb.node \ {b}
        /\ \A n \in DOMAIN tb.node : n # b => t2.node[n] = tb.node[n]
    BY <2>2, <2>7, FreedIs
  <2>10. Has(t2.node[a], l.isLeaf, l.key \o r.key, l.child \o r.child, l.father, succ, l.last)
    <3>1. t2.node[a] = tb.node[a] /\ a \in DOMAIN ta.node
      BY <1>3, <1>8, <1>17, <2>7, <2>9
    <3>2. Has(ta.node[a], l.isLeaf, l.key \o r.key, l.child \o r.child, l.father, l.next, l.last)
      BY <1>8, <1>20
    <3>3. Has(tb.node[a], ta.node[a].isLeaf, ta.node[a].key, ta.node[a].child, ta.node[a].father,
              succ, ta.node[a].last)
      BY <2>4, <2>8, <3>1
    <3> QED BY <3>1, <3>2, <3>3 DEF Has
  <2>11. Has(t2.node[F], f.isLeaf, fk, fc, f.father, f.next, f.last)
    <3>1. t2.node[F] = tb.node[F] /\ F \in DOMAIN ta.node
      BY <1>3, <1>4, <1>8, <1>17, <2>7, <2>9
    <3> QED BY <1>3, <1>17, <2>5, <2>8, <3>1 DEF Has
  <2>12. ASSUME NEW n \in DOMAIN t.node, n # a, n # b, n # F
         PROVE  Has(t2.node[n], t.node[n].isLeaf, t.node[n].key, t.node[n].child,
                  IF ChildFrom(r, 1, Len(r.key), n) THEN a ELSE t.node[n].father,
                  t.node[n].next, IF n = succ THEN a ELSE t.node[n].last)
    <3>1. t2.node[n] = tb.node[n] /\ n \in DOMAIN ta.node
      BY <1>8, <1>17, <2>7, <2>9, <2>12
    <3>2. Has(ta.node[n], t.node[n].isLeaf, t.node[n].key, t.node[n].child,
              IF ChildFrom(r, 1, Len(r.key), n) THEN a ELSE t.node[n].father,
              t.node[n].next, t.node[n].last)
      BY <1>19, <2>12
    <3> QED BY <2>8, <2>12, <3>1, <3>2 DEF Has
  <2>13. JoinNodes(t, t2, F, i, a, b)
    BY <1>1, <1>8, <1>10, <1>14, <1>17, <1>23, <2>3, <2>7, <2>9, <2>10, <2>11, <2>12 DEF JoinNodes
  <2> QED BY <1>1, <1>13, <1>21, <2>13
<1> QED BY <1>22, <1>23

-----------------------------------------------------------------------------
(* The arrays of two neighbours, one behind the other. *)
Behind(gk, gc, ks, cs, lk, lc) == gk = ks \o lk /\ gc = cs \o lc
AllBelow(ks, lk) == \A i \in 1..Len(ks) : \A j \in 1..Len(lk) : ks[i] < lk[j]
(* The elements of t are those of s and then those of z. *)
Chained(t, s, z) ==
  \A i \in 1..Len(s) + Len(z) : t[i] = IF i <= Len(s) THEN s[i] ELSE z[i - Len(s)]

(* What the concatenation of two sequences is. *)
LEMMA ChainedIs ==
  ASSUME NEW S, NEW s \in Seq(S), NEW z \in Seq(S), NEW t, t = s \o z
  PROVE  Chained(t, s, z)
BY ConcatProperties, ZenonT(60) DEF Chained

(* The arrays of two neighbours hold the entries of both. *)
LEMMA BothStores ==
  ASSUME NEW isLeaf, NEW ks, NEW cs, NEW G, Holds(isLeaf, ks, cs, G),
         NEW lk, NEW lc, NEW H, Holds(isLeaf, lk, lc, H), AllBelow(ks, lk),
         NEW gk, NEW gc, Behind(gk, gc, ks, cs, lk, lc)
  PROVE  Len(gk) = Len(ks) + Len(lk) /\ Holds(isLeaf, gk, gc, Both(G, H))
<1>1. /\ Arrays(Cell, ks, cs) /\ Fits(isLeaf, ks, cs) /\ Kids(ks, cs) = G
      /\ Arrays(Cell, lk, lc) /\ Fits(isLeaf, lk, lc) /\ Kids(lk, lc) = H
  BY DEF Holds
<1>2. gk = ks \o lk /\ gc = cs \o lc
  BY DEF Behind
<1>3. \A i \in 1..Len(ks) : \A j \in 1..Len(lk) : ks[i] < lk[j]
  BY DEF AllBelow
<1>4. PICK C : C = Cell
  OBVIOUS
<1>5. Arrays(C, ks, cs) /\ Arrays(C, lk, lc)
  BY <1>1, <1>4
<1>6. /\ Arrays(C, ks \o lk, cs \o lc)
      /\ Len(ks \o lk) = Len(ks) + Len(lk)
      /\ Kids(ks \o lk, cs \o lc) = Both(Kids(ks, cs), Kids(lk, lc))
  BY <1>3, <1>5, BothKids
<1>7. /\ ks \in Seq(Keys) /\ cs \in Seq(C) /\ Len(cs) = Len(ks)
      /\ lk \in Seq(Keys) /\ lc \in Seq(C) /\ Len(lc) = Len(lk)
  BY <1>5 DEF Arrays
<1>8. Fits(isLeaf, gk, gc)
  <2>1. SUFFICES ASSUME isLeaf, NEW i \in 1..Len(gk) PROVE gc[i] \in {gk[i]} \X Versions[gk[i]]
    BY DEF Fits
  <2>0. Chained(gk, ks, lk) /\ Chained(gc, cs, lc)
    BY <1>2, <1>7, ChainedIs
  <2>2. PICK m \in Nat, q \in Nat : m = Len(ks) /\ q = Len(lk)
    BY <1>7
  <2>3. Len(gk) = m + q
    BY <1>2, <1>6, <2>2
  <2>4. i \in 1..m + q
    BY <2>1, <2>3
  <2>5. CASE i <= m
    <3>1. i \in 1..m
      BY <2>4, <2>5
    <3>2. gk[i] = ks[i]
      BY <1>7, <2>0, <2>2, <2>4, <2>5 DEF Chained
    <3>3. gc[i] = cs[i]
      BY <1>7, <2>0, <2>2, <2>4, <2>5 DEF Chained
    <3>4. cs[i] \in {ks[i]} \X Versions[ks[i]]
      BY <1>1, <2>1, <2>2, <3>1 DEF Fits
    <3> QED BY <3>2, <3>3, <3>4
  <2>6. CASE i > m
    <3>1. PICK j \in 1..q : i = m + j
      <4>1. i - m \in 1..q /\ i = m + (i - m)
        BY <2>4, <2>6
      <4> QED BY <4>1
    <3>2. gk[i] = lk[j]
      <4>1. gk[i] = lk[i - Len(ks)]
        BY <1>7, <2>0, <2>2, <2>4, <2>6 DEF Chained
      <4>2. i - Len(ks) = j
        BY <2>2, <3>1
      <4> QED BY <4>1, <4>2
    <3>3. gc[i] = lc[j]
      <4>1. gc[i] = lc[i - Len(cs)]
        BY <1>7, <2>0, <2>2, <2>4, <2>6 DEF Chained
      <4>2. i - Len(cs) = j
        BY <1>7, <2>2, <3>1
      <4> QED BY <4>1, <4>2
    <3>4. lc[j] \in {lk[j]} \X Versions[lk[j]]
      BY <1>1, <2>1, <2>2, <3>1 DEF Fits
    <3> QED BY <3>2, <3>3, <3>4
  <2> QED BY <2>2, <2>4, <2>5, <2>6
<1> QED BY <1>1, <1>2, <1>4, <1>6, <1>8 DEF Holds

(* The keys of a node are below those of its right neighbour. *)
LEMMA SideBelow ==
  ASSUME NEW t, NEW w, Sound(t, w), NEW F, NEW i, NEW a, NEW b, SideBySide(t, F, i, a, b)
  PROVE  AllBelow(t.node[a].key, t.node[b].key)
<1>1. PICK l, r, f : l = t.node[a] /\ r = t.node[b] /\ f = t.node[F]
  OBVIOUS
<1>2. PICK kc, k2 : kc = f.key[i] /\ k2 = f.key[i + 1]
  OBVIOUS
<1>3. /\ a \in DOMAIN t.node /\ b \in DOMAIN t.node
      /\ Len(r.key) # 0 /\ r.key[1] = k2
      /\ kc \in Int /\ k2 \in Int /\ kc < k2
      /\ Neighbours(w, a, b, kc, k2)
  BY <1>1, <1>2, SideIs
<1>4. Shape(w)
  BY SoundFrame
<1>5. PICK W : W = w.father[a]
  OBVIOUS
<1>6. NextKey(DOMAIN w.kids[W], kc, k2)
  BY <1>3, <1>5 DEF Neighbours
<1>7. w.area[a] = Share(w, W, kc)
  <2>1. PICK k \in Int : k = kc
    BY <1>3
  <2>2. /\ a \in w.nodes /\ a # w.root /\ LeastOf(DOMAIN w.kids[a], k)
    BY <1>3, <2>1 DEF Neighbours
  <2>3. w.area[a] = Share(w, W, k)
    BY <1>4, <1>5, <2>2, FatherKey
  <2> QED BY <2>1, <2>3
<1>8. \A x \in w.area[a] : x \in Int => x < k2
  <2>1. SUFFICES ASSUME NEW x \in w.area[a], x \in Int PROVE x < k2
    OBVIOUS
  <2>2. Chosen(DOMAIN w.kids[W], x, kc)
    BY <1>7, <2>1 DEF Share
  <2>3. ~(k2 <= x)
    BY <1>3, <1>6, <2>2 DEF Chosen, NextKey
  <2> QED BY <1>3, <2>1, <2>3
<1>9. ASSUME NEW p \in 1..Len(l.key)
      PROVE  l.key[p] \in Int /\ l.key[p] < k2
  <2>1. \A j \in 1..Len(l.key) : l.key[j] \in Int /\ l.key[j] \in DOMAIN w.kids[a]
    BY <1>1, <1>3, NodeKids
  <2>2. DOMAIN w.kids[a] \subseteq w.area[a]
    BY <1>3, <1>4, SoundNode DEF Shape
  <2> QED BY <1>8, <2>1, <2>2
<1>10. ASSUME NEW q \in 1..Len(r.key)
       PROVE  r.key[q] \in Int /\ k2 <= r.key[q]
  <2>1. \A j \in 1..Len(r.key) : r.key[j] \in Int
    BY <1>1, <1>3, NodeKids
  <2>2. Ascending(r.key)
    BY <1>1, <1>3, SoundNode
  <2>3. 1 \in 1..Len(r.key)
    BY <1>10
  <2>4. CASE q = 1
    BY <1>3, <2>1, <2>3, <2>4
  <2>5. CASE q # 1
    <3>1. 1 < q
      BY <1>10, <2>5
    <3> QED BY <1>3, <2>1, <2>2, <2>3, <3>1 DEF Ascending
  <2> QED BY <2>4, <2>5
<1> QED BY <1>1, <1>3, <1>9, <1>10 DEF AllBelow

-----------------------------------------------------------------------------
(* What a merge comes to. *)
JoinedDone(t, w, t2, w2, F, a, b) ==
  /\ Sound(t2, w2)
  /\ SameHeld(w, w2)
  /\ w2.level = MergeLevel(w, b)
  /\ t2.Root = t.Root
  /\ DOMAIN t2.node = DOMAIN t.node \ {b}
  /\ Len(t2.node[a].key) = Len(t.node[a].key) + Len(t.node[b].key)
  /\ Len(t2.node[F].key) = Len(t.node[F].key) - 1
  /\ ~t2.node[F].isLeaf
  /\ \A n \in DOMAIN t.node : n # a /\ n # b /\ n # F => SameSize(t, t2, n)

(* After a merge the tree is sound, with the same records. *)
LEMMA JoinedSound ==
  ASSUME NEW t, NEW w, Sound(t, w), NEW F, NEW i, NEW a, NEW b, SideBySide(t, F, i, a, b),
         NEW t2, JoinNodes(t, t2, F, i, a, b)
  PROVE  \E w2 : JoinedDone(t, w, t2, w2, F, a, b)
<1>1. PICK l, r, f : l = t.node[a] /\ r = t.node[b] /\ f = t.node[F]
  OBVIOUS
<1>2. PICK kc, k2 : kc = f.key[i] /\ k2 = f.key[i + 1]
  OBVIOUS
<1>3. /\ a \in DOMAIN t.node /\ b \in DOMAIN t.node /\ a # t.Root
      /\ a # b /\ F # a /\ F # b
      /\ l.father = F
      /\ w.level[a] \in Nat /\ w.level[b] = w.level[a] /\ w.level[F] = w.level[a] + 1
      /\ l.isLeaf <=> w.level[a] = 0
      /\ r.isLeaf <=> l.isLeaf
      /\ Len(l.key) # 0 /\ Len(r.key) # 0
      /\ Neighbours(w, a, b, kc, k2)
  BY <1>1, <1>2, SideIs
<1>4. /\ F \in DOMAIN t.node /\ ~f.isLeaf
      /\ i \in Nat \ {0} /\ i + 1 <= Len(f.key)
  BY <1>1 DEF SideBySide
<1>5. /\ IsTree(t) /\ Shape(w) /\ Linked(w)
      /\ w.nodes = DOMAIN t.node /\ w.root = t.Root
  BY SoundFrame
<1>6. PICK K, K2, L : K = w.kids[a] /\ K2 = w.kids[b] /\ L = w.kids[F]
  OBVIOUS
<1>7. /\ w.father[a] = F /\ w.next[a] = l.next /\ w.last[a] = l.last
      /\ w.next[b] = r.next
  BY <1>1, <1>3, SoundSees
<1>8. w.father[F] = f.father /\ w.next[F] = f.next /\ w.last[F] = f.last
  BY <1>1, <1>4, SoundSees
<1>9. PICK fk, fc, ff : fk = f.key /\ fc = f.child /\ ff = f.isLeaf
  OBVIOUS
<1>10. Holds(ff, fk, fc, L) /\ fk \in Seq(Keys) /\ Len(fk) \in Nat
  <2>1. Holds(f.isLeaf, f.key, f.child, L)
    BY <1>1, <1>4, <1>6, SoundHolds
  <2>2. f.key \in Seq(Keys) /\ Len(f.key) \in Nat
    BY <1>1, <1>4, SoundNode
  <2> QED BY <1>9, <2>1, <2>2
<1>11. PICK gk, gc : TakeFromAt(gk, gc, fk, fc, i + 1)
  BY DEF TakeFromAt
<1>12. Len(gk) = Len(fk) - 1 /\ Holds(ff, gk, gc, Minus(L, k2))
  <2>1. PICK j : j = i + 1
    OBVIOUS
  <2>2. KeyAt(k2, fk, j)
    BY <1>2, <1>4, <1>9, <1>10, <2>1 DEF KeyAt
  <2>3. TakeFromAt(gk, gc, fk, fc, j)
    BY <1>11, <2>1
  <2> QED BY <1>10, <2>2, <2>3, RemoveStores
<1>13. PICK lf, ks, cs, lk, lc : lf = l.isLeaf /\ ks = l.key /\ cs = l.child /\ lk = r.key /\ lc = r.child
  OBVIOUS
<1>14. Holds(lf, ks, cs, K)
  <2>1. Holds(l.isLeaf, l.key, l.child, K)
    BY <1>1, <1>3, <1>6, SoundHolds
  <2> QED BY <1>13, <2>1
<1>15. Holds(lf, lk, lc, K2)
  <2>1. Holds(r.isLeaf, r.key, r.child, K2)
    BY <1>1, <1>3, <1>6, SoundHolds
  <2>2. r.isLeaf \in BOOLEAN /\ l.isLeaf \in BOOLEAN
    BY <1>1, <1>3, SoundNode, NodeHas
  <2>3. r.isLeaf = l.isLeaf
    BY <1>3, <2>2
  <2> QED BY <1>13, <2>1, <2>3
<1>16. PICK mk, mc : Behind(mk, mc, ks, cs, lk, lc)
  BY DEF Behind
<1>17. Len(mk) = Len(ks) + Len(lk) /\ Holds(lf, mk, mc, Both(K, K2))
  <2>1. AllBelow(ks, lk)
    BY <1>1, <1>13, SideBelow
  <2> QED BY <1>14, <1>15, <1>16, <2>1, BothStores
<1>18. /\ IsTree(t2)
       /\ t2.Root = t.Root
       /\ DOMAIN t2.node = DOMAIN t.node \ {b}
       /\ Has(t2.node[a], lf, mk, mc, F, IF l.isLeaf THEN r.next ELSE l.next, l.last)
       /\ Has(t2.node[F], ff, gk, gc, f.father, f.next, f.last)
  BY <1>1, <1>3, <1>9, <1>11, <1>13, <1>16 DEF JoinNodes, TakeFromAt, Behind
<1>19. ASSUME NEW n \in DOMAIN t.node, n # a, n # b, n # F
       PROVE  Has(t2.node[n], t.node[n].isLeaf, t.node[n].key, t.node[n].child,
                  IF ChildFrom(r, 1, Len(r.key), n) THEN a ELSE t.node[n].father,
                  t.node[n].next, IF l.isLeaf /\ n = r.next THEN a ELSE t.node[n].last)
  BY <1>1, <1>19 DEF JoinNodes
<1>20. \A n : ChildFrom(r, 1, Len(r.key), n) <=> (w.level[a] # 0 /\ KidOf(K2, n))
  <2>1. Pairs(K2, r.key, r.child)
    BY <1>1, <1>3, <1>6, NodePairs
  <2> QED BY <1>3, <2>1, SMTT(40) DEF ChildFrom, KidOf, Pairs
<1>21. Shows(t2.node[a], w.level[a] = 0, Both(K, K2), F,
             IF w.level[a] = 0 THEN r.next ELSE l.next, l.last)
  <2>1. PICK d : d = t2.node[a]
    OBVIOUS
  <2>2. Len(mk) # 0
    <3>1. Len(ks) \in Nat /\ Len(lk) \in Nat
      <4>1. Len(l.key) \in Nat
        BY <1>1, <1>3, SoundNode
      <4>2. Len(r.key) \in Nat
        BY <1>1, <1>3, SoundNode
      <4> QED BY <1>13, <4>1, <4>2
    <3>2. PICK p \in Nat, q \in Nat : p = Len(ks) /\ q = Len(lk)
      BY <3>1
    <3>3. p # 0 /\ Len(mk) = p + q
      BY <1>3, <1>13, <1>17, <3>2
    <3> QED BY <3>3
  <2>3. Holds(d.isLeaf, d.key, d.child, Both(K, K2)) /\ Len(d.key) # 0
    BY <1>17, <1>18, <2>1, <2>2 DEF Has
  <2>4. Stores(d) /\ Kids(d.key, d.child) = Both(K, K2)
    BY <2>3, HoldsStores
  <2> QED BY <1>3, <1>13, <1>18, <2>1, <2>4 DEF Has, Shows
<1>22. Len(gk) # 0
  <2>1. PICK p \in Nat : p = Len(fk)
    BY <1>10
  <2>2. Len(gk) = p - 1 /\ i + 1 <= p
    BY <1>4, <1>9, <1>12, <2>1
  <2> QED BY <1>4, <2>2
<1>23. Shows(t2.node[F], FALSE, Minus(L, k2), f.father, f.next, f.last)
  <2>1. PICK d : d = t2.node[F]
    OBVIOUS
  <2>2. Holds(d.isLeaf, d.key, d.child, Minus(L, k2)) /\ Len(d.key) # 0
    BY <1>12, <1>18, <1>22, <2>1 DEF Has
  <2>3. Stores(d) /\ Kids(d.key, d.child) = Minus(L, k2)
    BY <2>2, HoldsStores
  <2> QED BY <1>4, <1>9, <1>18, <2>1, <2>3 DEF Has, Shows
<1>24. ASSUME NEW n \in DOMAIN t.node, n # a, n # b, n # F
       PROVE  Shows(t2.node[n], w.level[n] = 0, w.kids[n],
                    IF w.level[a] # 0 /\ KidOf(K2, n) THEN a ELSE w.father[n], w.next[n],
                    IF w.level[a] = 0 /\ n = r.next THEN a ELSE w.last[n])
  <2>1. PICK d, o : d = t2.node[n] /\ o = t.node[n]
    OBVIOUS
  <2>2. Has(d, o.isLeaf, o.key, o.child,
            IF w.level[a] # 0 /\ KidOf(K2, n) THEN a ELSE o.father,
            o.next, IF w.level[a] = 0 /\ n = r.next THEN a ELSE o.last)
    BY <1>3, <1>19, <1>20, <1>24, <2>1
  <2>3. Stores(o)
    BY <2>1, SoundFits
  <2>4. /\ w.kids[n] = Kids(o.key, o.child)
        /\ w.father[n] = o.father /\ w.next[n] = o.next /\ w.last[n] = o.last
        /\ o.isLeaf <=> w.level[n] = 0
    BY <2>1, SoundSees
  <2>5. Stores(d)
    BY <2>2, <2>3 DEF Stores, Has
  <2> QED BY <2>1, <2>2, <2>4, <2>5 DEF Has, Shows
<1>25. IsMerged(w, t2, a, b, k2)
  <2>1. t2.Root = w.root /\ DOMAIN t2.node = w.nodes \ {b}
    BY <1>5, <1>18
  <2>2. Shows(t2.node[a], w.level[a] = 0, Both(w.kids[a], w.kids[b]), w.father[a],
              IF w.level[a] = 0 THEN w.next[b] ELSE w.next[a], w.last[a])
    BY <1>6, <1>7, <1>21
  <2>3. Shows(t2.node[w.father[a]], FALSE, Minus(w.kids[w.father[a]], k2),
              w.father[w.father[a]], w.next[w.father[a]], w.last[w.father[a]])
    BY <1>6, <1>7, <1>8, <1>23
  <2>4. \A n \in w.nodes : n # a /\ n # b /\ n # w.father[a] =>
          Shows(t2.node[n], w.level[n] = 0, w.kids[n],
                IF w.level[a] # 0 /\ KidOf(w.kids[b], n) THEN a ELSE w.father[n], w.next[n],
                IF w.level[a] = 0 /\ n = w.next[b] THEN a ELSE w.last[n])
    BY <1>5, <1>6, <1>7, <1>24
  <2> QED BY <1>18, <2>1, <2>2, <2>3, <2>4 DEF IsMerged
<1>26. PICK w2 : JoinDone(w, t2, w2, b)
  BY <1>3, <1>5, <1>25, JoinSound
<1>27. ASSUME NEW n \in DOMAIN t.node, n # a, n # b, n # F
       PROVE  SameSize(t, t2, n)
  BY <1>18, <1>19, <1>27 DEF SameSize, Has
<1>28. /\ Len(t2.node[a].key) = Len(t.node[a].key) + Len(t.node[b].key)
       /\ Len(t2.node[F].key) = Len(t.node[F].key) - 1
       /\ ~t2.node[F].isLeaf
  BY <1>1, <1>4, <1>9, <1>12, <1>13, <1>17, <1>18 DEF Has
<1>29. JoinedDone(t, w, t2, w2, F, a, b)
  BY <1>18, <1>26, <1>27, <1>28 DEF JoinedDone, JoinDone
<1> QED BY <1>29

-----------------------------------------------------------------------------
(* The root gives way to its only child. *)
LEMMA CollapseIs ==
  ASSUME NEW t, IsTree(t), t.Root \in DOMAIN t.node, ~t.node[t.Root].isLeaf, Len(t.node[t.Root].key) = 1,
         NEW c \in Nat, c = t.node[t.Root].child[1], NEW t2, t2 = Collapse(t)
  PROVE  /\ IsTree(t2)
         /\ t2.Root = c /\ DOMAIN t2.node = DOMAIN t.node \ {t.Root}
         /\ \A n \in DOMAIN t.node : n # t.Root => t2.node[n] = t.node[n]
<1>1. PICK D : D = DOMAIN t.node
  OBVIOUS
<1>2. t \in [Root : Nat, node : [D -> Node]] /\ D \subseteq Nat \ {0} /\ IsFiniteSet(D)
  BY <1>1 DEF IsTree
<1>3. PICK f \in [D -> Node] : f = t.node
  BY <1>2
<1>4. PICK E : E = D \ {t.Root}
  OBVIOUS
<1> DEFINE f2 == [n \in E |-> f[n]]
<1>5. f2 \in [E -> Node] /\ \A n \in E : f2[n] = f[n]
  BY <1>4
<1>6. t2 = [Root |-> c, node |-> f2]
  BY <1>1, <1>3, <1>4 DEF Collapse
<1> HIDE DEF f2
<1>7. t2.Root = c /\ t2.node = f2
  BY <1>6
<1>8. t2 \in [Root : Nat, node : [E -> Node]]
  BY <1>5, <1>6
<1>9. DOMAIN t2.node = E
  BY <1>5, <1>7
<1>10. IsFiniteSet(E)
  BY <1>2, <1>4, FS_Subset
<1>11. IsTree(t2)
  BY <1>2, <1>4, <1>8, <1>9, <1>10 DEF IsTree
<1> QED BY <1>1, <1>3, <1>4, <1>5, <1>7, <1>9, <1>11

ShrinkLevel(w) == [n \in w.nodes \ {w.root} |-> w.level[n]]
ShrinkArea(w) == [n \in w.nodes \ {w.root} |-> w.area[n]]

(* What this comes to. *)
CollapseDone(t, w, t2, w2) ==
  /\ Sound(t2, w2)
  /\ SameHeld(w, w2)
  /\ DOMAIN t2.node = DOMAIN t.node \ {t.Root}
  /\ \A n \in DOMAIN t.node : n # t.Root => t2.node[n] = t.node[n]

(* After the root gave way the tree is sound, with the same records. *)
LEMMA CollapseSound ==
  ASSUME NEW t, NEW w, Sound(t, w), NEW root, root = t.Root,
         ~t.node[root].isLeaf, Len(t.node[root].key) = 1,
         NEW t2, t2 = Collapse(t)
  PROVE  \E w2 : CollapseDone(t, w, t2, w2)
<1>1. /\ IsTree(t) /\ Shape(w) /\ Linked(w)
      /\ w.nodes = DOMAIN t.node /\ w.root = root
      /\ root \in DOMAIN t.node
  BY SoundFrame
<1>2. PICK nd : nd = t.node[root]
  OBVIOUS
<1>3. PICK c : c = nd.child[1]
  OBVIOUS
<1>4. 1 \in 1..Len(nd.key) /\ \A i \in 1..Len(nd.key) : i = 1
  <2>1. Len(nd.key) = 1
    BY <1>2, Zenon
  <2>2. 1..Len(nd.key) = 1..1
    BY <2>1, Zenon
  <2>3. 1 \in 1..1 /\ \A i \in 1..1 : i = 1
    OBVIOUS
  <2> QED BY <2>2, <2>3, Zenon
<1>5. c \in DOMAIN t.node /\ c # t.Root
  BY <1>1, <1>2, <1>3, <1>4, NodeChild
<1>6. c \in Nat
  BY <1>5, SoundNode
<1>7. /\ IsTree(t2)
      /\ t2.Root = c /\ DOMAIN t2.node = DOMAIN t.node \ {root}
      /\ \A n \in DOMAIN t.node : n # root => t2.node[n] = t.node[n]
  BY <1>1, <1>2, <1>3, <1>6, CollapseIs
<1>8. w.level[w.root] # 0
  BY <1>1, SoundSees
<1>9. Pairs(w.kids[root], nd.key, nd.child)
  BY <1>1, <1>2, NodePairs
<1>10. \A j \in 1..Len(nd.key) : nd.key[j] \in Int
  BY <1>1, <1>2, NodeKids
<1>11. PICK k \in Int : k = nd.key[1]
  BY <1>4, <1>10
<1>12. DOMAIN w.kids[w.root] = {k}
  BY <1>1, <1>4, <1>9, <1>11 DEF Pairs
<1>13. IsKid(w, w.root, k, c)
  BY <1>1, <1>3, <1>4, <1>9, <1>11 DEF Pairs, IsKid
<1>14. PICK lv, ar : lv = ShrinkLevel(w) /\ ar = ShrinkArea(w)
  OBVIOUS
<1>15. PICK w2 : w2 = View(t2, lv, ar)
  OBVIOUS
<1>16. /\ w2.nodes = DOMAIN t2.node /\ w2.root = c
       /\ w2.level = lv /\ w2.area = ar
       /\ \A n \in DOMAIN t2.node : /\ w2.kids[n] = Kids(t2.node[n].key, t2.node[n].child)
                                    /\ w2.father[n] = t2.node[n].father
                                    /\ w2.next[n] = t2.node[n].next
                                    /\ w2.last[n] = t2.node[n].last
  BY <1>7, <1>15, ViewIs
<1>17. ASSUME NEW n \in w2.nodes
       PROVE  /\ n \in DOMAIN t.node /\ n \in DOMAIN t2.node /\ n # root
              /\ w2.kids[n] = w.kids[n] /\ w2.father[n] = w.father[n]
              /\ w2.next[n] = w.next[n] /\ w2.last[n] = w.last[n]
              /\ Stores(t2.node[n])
              /\ t2.node[n].isLeaf <=> lv[n] = 0
  <2>1. n \in DOMAIN t.node /\ n \in DOMAIN t2.node /\ n # root /\ t2.node[n] = t.node[n]
    BY <1>7, <1>16, <1>17
  <2>2. /\ w.kids[n] = Kids(t.node[n].key, t.node[n].child)
        /\ w.father[n] = t.node[n].father
        /\ w.next[n] = t.node[n].next
        /\ w.last[n] = t.node[n].last
        /\ t.node[n].isLeaf <=> w.level[n] = 0
    BY <2>1, SoundSees
  <2>3. Stores(t.node[n])
    BY <2>1, SoundFits
  <2>4. lv[n] = w.level[n]
    BY <1>1, <1>14, <2>1 DEF ShrinkLevel
  <2> QED BY <1>16, <2>1, <2>2, <2>3, <2>4
<1>18. ShrinkView(w, w2, c)
  <2>1. w2.nodes = w.nodes \ {w.root}
    BY <1>1, <1>7, <1>16
  <2>2. w2.level = [n \in w2.nodes |-> w.level[n]]
    BY <1>14, <1>16, <2>1 DEF ShrinkLevel
  <2>3. w2.area = [n \in w2.nodes |-> w.area[n]]
    BY <1>14, <1>16, <2>1 DEF ShrinkArea
  <2> QED BY <1>16, <1>17, <2>1, <2>2, <2>3 DEF ShrinkView
<1>19. Shape(w2)
  BY <1>1, <1>8, <1>12, <1>13, <1>18, ShrinkShape
<1>20. Linked(w2)
  BY <1>1, <1>8, <1>17, <1>18, ShrinkLinked
<1>21. SameHeld(w, w2)
  BY <1>8, <1>18, ShrinkHeld
<1>22. \A n \in DOMAIN t2.node : Stores(t2.node[n]) /\ (t2.node[n].isLeaf <=> lv[n] = 0)
  BY <1>16, <1>17
<1>23. Sound(t2, w2)
  BY <1>7, <1>15, <1>19, <1>20, <1>22, SoundFrom
<1> QED BY <1>7, <1>21, <1>23 DEF CollapseDone

-----------------------------------------------------------------------------
(* Entries are moved between two neighbours: the two are merged, and the   *)
(* node that came out is split elsewhere.  This is what is in between.     *)
MergeOf(w, c, c2, k2) ==
  [nodes  |-> w.nodes \ {c2},
   root   |-> w.root,
   kids   |-> [n \in w.nodes \ {c2} |-> IF n = c THEN Both(w.kids[c], w.kids[c2])
                                        ELSE IF n = w.father[c] THEN Minus(w.kids[n], k2)
                                        ELSE w.kids[n]],
   father |-> [n \in w.nodes \ {c2} |-> IF w.level[c] # 0 /\ KidOf(w.kids[c2], n)
                                          THEN c ELSE w.father[n]],
   next   |-> [n \in w.nodes \ {c2} |-> IF w.level[c] = 0 /\ n = c THEN w.next[c2] ELSE w.next[n]],
   last   |-> [n \in w.nodes \ {c2} |-> IF w.level[c] = 0 /\ n = w.next[c2] THEN c ELSE w.last[n]],
   level  |-> MergeLevel(w, c2),
   area   |-> MergeArea(w, c, c2)]
Merged(w, v, c, c2, k2, F) ==
  /\ Shape(v) /\ Linked(v) /\ SameHeld(w, v)
  /\ v.nodes = w.nodes \ {c2}
  /\ v.root = w.root
  /\ v.kids[c] = Both(w.kids[c], w.kids[c2])
  /\ v.kids[F] = Minus(w.kids[F], k2)
  /\ \A n \in w.nodes : n # c /\ n # c2 /\ n # F => v.kids[n] = w.kids[n]
  /\ \A n \in w.nodes : n # c2 =>
       /\ v.father[n] = IF w.level[c] # 0 /\ KidOf(w.kids[c2], n) THEN c ELSE w.father[n]
       /\ v.next[n] = IF w.level[c] = 0 /\ n = c THEN w.next[c2] ELSE w.next[n]
       /\ v.last[n] = IF w.level[c] = 0 /\ n = w.next[c2] THEN c ELSE w.last[n]
       /\ v.level[n] = w.level[n]

(* What the view of two merged neighbours shows. *)
LEMMA MergeOfIs ==
  ASSUME NEW w, Shape(w), Linked(w), NEW c, NEW c2, NEW kc, NEW k2, Neighbours(w, c, c2, kc, k2),
         NEW F, F = w.father[c], NEW v, v = MergeOf(w, c, c2, k2)
  PROVE  Merged(w, v, c, c2, k2, F)
<1>1. /\ F \in w.nodes /\ F # c /\ F # c2 /\ c # c2
  BY NeighboursAre
<1>2. c \in w.nodes /\ c2 \in w.nodes
  BY DEF Neighbours
<1>3. PICK N : N = w.nodes \ {c2}
  OBVIOUS
<1>4. /\ v.nodes = N /\ v.root = w.root
      /\ v.kids = [n \in N |-> IF n = c THEN Both(w.kids[c], w.kids[c2])
                               ELSE IF n = F THEN Minus(w.kids[n], k2)
                               ELSE w.kids[n]]
      /\ v.father = [n \in N |-> IF w.level[c] # 0 /\ KidOf(w.kids[c2], n) THEN c ELSE w.father[n]]
      /\ v.next = [n \in N |-> IF w.level[c] = 0 /\ n = c THEN w.next[c2] ELSE w.next[n]]
      /\ v.last = [n \in N |-> IF w.level[c] = 0 /\ n = w.next[c2] THEN c ELSE w.last[n]]
      /\ v.level = MergeLevel(w, c2) /\ v.area = MergeArea(w, c, c2)
  BY <1>3 DEF MergeOf
<1>5. c \in N /\ F \in N
  BY <1>1, <1>2, <1>3
<1>6. /\ v.kids[c] = Both(w.kids[c], w.kids[c2])
      /\ v.kids[F] = Minus(w.kids[F], k2)
      /\ \A n \in N : n # c /\ n # F => v.kids[n] = w.kids[n]
  BY <1>1, <1>4, <1>5
<1>7. \A n \in N :
       /\ v.father[n] = IF w.level[c] # 0 /\ KidOf(w.kids[c2], n) THEN c ELSE w.father[n]
       /\ v.next[n] = IF w.level[c] = 0 /\ n = c THEN w.next[c2] ELSE w.next[n]
       /\ v.last[n] = IF w.level[c] = 0 /\ n = w.next[c2] THEN c ELSE w.last[n]
  BY <1>4
<1>8. \A n \in N : v.level[n] = w.level[n]
  BY <1>3, <1>4 DEF MergeLevel
<1>9. MergeView(w, v, c, c2, k2)
  <2>1. v.level = [n \in v.nodes |-> w.level[n]]
    BY <1>3, <1>4 DEF MergeLevel
  <2>2. v.area = [n \in v.nodes |-> IF n = c THEN w.area[c] \cup w.area[c2] ELSE w.area[n]]
    BY <1>3, <1>4 DEF MergeArea
  <2>3. \A n \in w.nodes : n # c /\ n # c2 /\ n # w.father[c] => v.kids[n] = w.kids[n]
    BY <1>3, <1>6
  <2>4. \A n \in w.nodes :
          n # c2 => v.father[n] = IF w.level[c] # 0 /\ \E k \in DOMAIN w.kids[c2] : w.kids[c2][k] = n
                                    THEN c ELSE w.father[n]
    BY <1>3, <1>7 DEF KidOf
  <2>5. v.nodes = w.nodes \ {c2} /\ v.root = w.root
    BY <1>3, <1>4
  <2> QED BY <1>6, <2>1, <2>2, <2>3, <2>4, <2>5 DEF MergeView
<1>10. MergedLinks(w, v, c, c2)
  BY <1>4, <1>7 DEF MergedLinks
<1>11. Shape(v) /\ Linked(v) /\ SameHeld(w, v)
  BY <1>9, <1>10, Merging
<1> QED BY <1>3, <1>4, <1>6, <1>7, <1>8, <1>11 DEF Merged

(* What is not below p is moved from c to c2, or the other way round.      *)
IsBorrowed(w, t2, c, c2, k2, F, p) ==
  /\ IsTree(t2)
  /\ t2.Root = w.root
  /\ DOMAIN t2.node = w.nodes
  /\ Shows(t2.node[c2], w.level[c] = 0, Over(Both(w.kids[c], w.kids[c2]), p), F, w.next[c2], w.last[c2])
  /\ Shows(t2.node[c], w.level[c] = 0, Under(Both(w.kids[c], w.kids[c2]), p), F, w.next[c], w.last[c])
  /\ Shows(t2.node[F], FALSE, Plus(Minus(w.kids[F], k2), p, c2), w.father[F], w.next[F], w.last[F])
  /\ \A n \in w.nodes : n # c /\ n # c2 /\ n # F =>
       Shows(t2.node[n], w.level[n] = 0, w.kids[n],
             IF w.level[c] # 0 /\ KidFrom(Both(w.kids[c], w.kids[c2]), p, n) THEN c2
             ELSE IF w.level[c] # 0 /\ KidOf(w.kids[c2], n) THEN c ELSE w.father[n],
             w.next[n], w.last[n])
BorrowedDone(w, t2, w2) ==
  Sound(t2, w2) /\ SameHeld(w, w2) /\ \A n \in w.nodes : w2.level[n] = w.level[n]

(* Such a tree is sound.                                                   *)
LEMMA BorrowedSound ==
  ASSUME NEW w, Shape(w), Linked(w), w.nodes \subseteq Nat \ {0},
         NEW c, NEW c2, NEW kc, NEW k2, Neighbours(w, c, c2, kc, k2),
         NEW F, F = w.father[c], NEW p \in Int, kc < p,
         p \in DOMAIN w.kids[c] \/ p \in DOMAIN w.kids[c2],
         NEW t2, IsBorrowed(w, t2, c, c2, k2, F, p)
  PROVE  \E w2 : BorrowedDone(w, t2, w2)
<1>1. /\ F \in w.nodes /\ F # c /\ F # c2 /\ c # c2 /\ c2 # w.root
      /\ w.father[c2] = F
      /\ w.level[F] \in Nat /\ w.level[c] \in Nat
      /\ w.level[F] = w.level[c] + 1 /\ w.level[c2] = w.level[c]
      /\ k2 \in Int /\ kc \in Int /\ kc < k2
      /\ LeastOf(DOMAIN w.kids[c2], k2)
      /\ LeastOf(DOMAIN w.kids[c], kc)
  BY NeighboursAre
<1>2. c \in w.nodes /\ c2 \in w.nodes /\ c # w.root
  BY DEF Neighbours
<1>3. PICK K, L : K = Both(w.kids[c], w.kids[c2]) /\ L = Minus(w.kids[F], k2)
  OBVIOUS
<1>4. PICK v : v = MergeOf(w, c, c2, k2)
  OBVIOUS
<1>5. Merged(w, v, c, c2, k2, F)
  BY <1>4, MergeOfIs
<1>6. /\ Shape(v) /\ Linked(v) /\ SameHeld(w, v)
      /\ v.nodes = w.nodes \ {c2}
      /\ v.root = w.root
      /\ v.kids[c] = K
      /\ v.kids[F] = L
      /\ \A n \in w.nodes : n # c /\ n # c2 /\ n # F => v.kids[n] = w.kids[n]
  BY <1>3, <1>5 DEF Merged
<1>7. \A n \in w.nodes : n # c2 =>
       /\ v.father[n] = IF w.level[c] # 0 /\ KidOf(w.kids[c2], n) THEN c ELSE w.father[n]
       /\ v.next[n] = IF w.level[c] = 0 /\ n = c THEN w.next[c2] ELSE w.next[n]
       /\ v.last[n] = IF w.level[c] = 0 /\ n = w.next[c2] THEN c ELSE w.last[n]
       /\ v.level[n] = w.level[n]
  BY <1>5 DEF Merged
<1>8. ASSUME NEW n \in w.nodes, n = c \/ n = F
      PROVE  ~(w.level[c] # 0 /\ KidOf(w.kids[c2], n))
  <2>1. ASSUME w.level[c] # 0, NEW k \in DOMAIN w.kids[c2], w.kids[c2][k] = n
        PROVE  w.level[n] \in Nat /\ w.level[c2] = w.level[n] + 1
    BY <1>1, <1>2, <2>1, ChildEdge
  <2> QED BY <1>1, <1>8, <2>1 DEF KidOf
<1>9. c \in v.nodes /\ F \in v.nodes /\ c # v.root /\ c2 \notin v.nodes
  BY <1>1, <1>2, <1>6
<1>10. v.father[c] = F /\ v.father[F] = w.father[F] /\ v.level[c] = w.level[c]
  BY <1>1, <1>2, <1>7, <1>8
<1>11. w.level[c] = 0 =>
         /\ w.next[c] = c2 /\ w.last[c2] = c
         /\ w.next[c2] # c /\ w.next[c2] # c2
         /\ w.next[c2] = NULL \/ Leaf(w, w.next[c2])
  BY NeighboursLinked
<1>12. w.level[c] # 0 =>
         w.next[c] = NULL /\ w.last[c] = NULL /\ w.next[c2] = NULL /\ w.last[c2] = NULL
  BY <1>1, <1>2 DEF Linked
<1>13. v.next[c] = (IF w.level[c] = 0 THEN w.next[c2] ELSE NULL) /\ v.last[c] = w.last[c]
  BY <1>1, <1>2, <1>7, <1>11, <1>12
<1>14. v.next[F] = w.next[F] /\ v.last[F] = w.last[F]
  <2>1. ~(w.level[c] = 0 /\ F = w.next[c2])
    <3>1. NULL \notin w.nodes
      BY DEF Linked
    <3> QED BY <1>1, <1>11, <3>1 DEF Leaf
  <2> QED BY <1>1, <1>7, <2>1
<1>15. /\ IsTree(t2)
       /\ t2.Root = v.root
       /\ DOMAIN t2.node = v.nodes \cup {c2}
  BY <1>2, <1>6 DEF IsBorrowed
<1>16. Shows(t2.node[c2], v.level[c] = 0, Over(v.kids[c], p), v.father[c],
             IF v.level[c] = 0 THEN v.next[c] ELSE NULL, IF v.level[c] = 0 THEN c ELSE NULL)
  <2>1. Shows(t2.node[c2], w.level[c] = 0, Over(K, p), F, w.next[c2], w.last[c2])
    BY <1>3 DEF IsBorrowed
  <2>2. /\ w.next[c2] = IF v.level[c] = 0 THEN v.next[c] ELSE NULL
        /\ w.last[c2] = IF v.level[c] = 0 THEN c ELSE NULL
    BY <1>10, <1>11, <1>12, <1>13
  <2> QED BY <1>6, <1>10, <2>1, <2>2
<1>17. Shows(t2.node[c], v.level[c] = 0, Under(v.kids[c], p), v.father[c],
             IF v.level[c] = 0 THEN c2 ELSE v.next[c], v.last[c])
  <2>1. Shows(t2.node[c], w.level[c] = 0, Under(K, p), F, w.next[c], w.last[c])
    BY <1>3 DEF IsBorrowed
  <2>2. w.next[c] = IF v.level[c] = 0 THEN c2 ELSE v.next[c]
    BY <1>10, <1>11, <1>12, <1>13
  <2> QED BY <1>6, <1>10, <1>13, <2>1, <2>2
<1>18. Shows(t2.node[v.father[c]], FALSE, Plus(v.kids[v.father[c]], p, c2),
             v.father[v.father[c]], v.next[v.father[c]], v.last[v.father[c]])
  <2>1. Shows(t2.node[F], FALSE, Plus(L, p, c2), w.father[F], w.next[F], w.last[F])
    BY <1>3 DEF IsBorrowed
  <2> QED BY <1>6, <1>10, <1>14, <2>1
<1>19. ASSUME NEW n \in v.nodes, n # c, n # v.father[c]
       PROVE  Shows(t2.node[n], v.level[n] = 0, v.kids[n],
                    IF v.level[c] # 0 /\ KidFrom(v.kids[c], p, n) THEN c2 ELSE v.father[n], v.next[n],
                    IF v.level[c] = 0 /\ n = v.next[c] THEN c2 ELSE v.last[n])
  <2>1. n \in w.nodes /\ n # c2 /\ n # F
    BY <1>6, <1>10, <1>19
  <2>2. Shows(t2.node[n], w.level[n] = 0, w.kids[n],
              IF w.level[c] # 0 /\ KidFrom(K, p, n) THEN c2
              ELSE IF w.level[c] # 0 /\ KidOf(w.kids[c2], n) THEN c ELSE w.father[n],
              w.next[n], w.last[n])
    BY <1>3, <1>19, <2>1 DEF IsBorrowed
  <2>3. v.kids[n] = w.kids[n] /\ v.level[n] = w.level[n] /\ v.next[n] = w.next[n]
    BY <1>6, <1>7, <1>19, <2>1
  <2>4. v.father[n] = IF w.level[c] # 0 /\ KidOf(w.kids[c2], n) THEN c ELSE w.father[n]
    BY <1>7, <2>1
  <2>5. w.last[n] = IF v.level[c] = 0 /\ n = v.next[c] THEN c2 ELSE v.last[n]
    <3>1. CASE w.level[c] = 0 /\ n = w.next[c2]
      <4>1. NULL \notin w.nodes
        BY DEF Linked
      <4>2. Leaf(w, n) /\ Leaf(w, c2)
        BY <1>1, <1>2, <1>11, <2>1, <3>1, <4>1 DEF Leaf
      <4>3. w.next[c2] = n <=> Adjacent(w, c2, n)
        BY <1>2, <2>1, <4>2 DEF Linked
      <4>4. w.last[n] = c2 <=> Adjacent(w, c2, n)
        BY <1>2, <2>1, <4>2 DEF Linked
      <4>5. w.last[n] = c2
        BY <3>1, <4>3, <4>4
      <4> QED BY <1>10, <1>13, <3>1, <4>5
    <3>2. CASE ~(w.level[c] = 0 /\ n = w.next[c2])
      BY <1>7, <1>10, <1>13, <2>1, <3>2
    <3> QED BY <3>1, <3>2
  <2> QED BY <1>6, <1>10, <2>2, <2>3, <2>4, <2>5
<1>20. IsCut(v, t2, c, c2, p)
  BY <1>15, <1>16, <1>17, <1>18, <1>19 DEF IsCut
<1>21. PICK k \in Int : k = kc
  BY <1>1
<1>22. PICK new \in Nat \ {0} : new = c2
  BY <1>2
<1>23. p \in DOMAIN v.kids[c]
  BY <1>3, <1>6 DEF Both
<1>24. LeastKey(v, c, k) /\ k # p
  <2>1. DOMAIN w.kids[c2] \subseteq Int /\ DOMAIN w.kids[c] \subseteq Int
    BY <1>2 DEF Shape
  <2>2. PICK A, B : A = DOMAIN w.kids[c] /\ B = DOMAIN w.kids[c2]
    OBVIOUS
  <2>3. DOMAIN v.kids[c] = A \cup B
    BY <1>3, <1>6, <2>2 DEF Both
  <2>4. LeastOf(A \cup B, k)
    BY <1>1, <1>21, <2>1, <2>2 DEF LeastOf
  <2>5. k # p
    BY <1>21
  <2> QED BY <2>3, <2>4, <2>5 DEF LeastKey
<1>25. PICK w2 : CutDone(v, t2, w2, c, new)
  <2>1. new \notin v.nodes /\ IsCut(v, t2, c, new, p)
    BY <1>9, <1>20, <1>22
  <2> QED BY <1>6, <1>9, <1>23, <1>24, <2>1, CutSound
<1>26. Sound(t2, w2) /\ SameHeld(v, w2) /\ w2.level = SplitLevel(v, c, c2)
  BY <1>22, <1>25 DEF CutDone
<1>27. SameHeld(w, w2)
  BY <1>6, <1>26 DEF SameHeld
<1>28. \A n \in w.nodes : w2.level[n] = w.level[n]
  BY <1>1, <1>2, <1>6, <1>7, <1>10, <1>26 DEF SplitLevel
<1> QED BY <1>26, <1>27, <1>28 DEF BorrowedDone

-----------------------------------------------------------------------------
(* Two neighbours share their entries.                                     *)

(* What is in the first or the second of two arrays is in both together.   *)
LEMMA ChainedFrom ==
  ASSUME NEW m \in Nat, NEW q \in Nat, NEW s, Len(s) = m, NEW z, Len(z) = q,
         NEW c, Chained(c, s, z), NEW e, e = m + q, NEW n
  PROVE  AtFrom(c, 1, e, n) <=> AtFrom(s, 1, m, n) \/ AtFrom(z, 1, q, n)
<1>1. \A i \in 1..m + q : c[i] = IF i <= m THEN s[i] ELSE z[i - m]
  BY DEF Chained
<1>2. ASSUME NEW i \in 1..m + q, c[i] = n
      PROVE  AtFrom(s, 1, m, n) \/ AtFrom(z, 1, q, n)
  <2>1. CASE i <= m
    <3>1. i \in 1..m /\ s[i] = n
      BY <1>1, <1>2, <2>1
    <3> QED BY <3>1 DEF AtFrom
  <2>2. CASE i > m
    <3>1. i - m \in 1..q /\ z[i - m] = n
      BY <1>1, <1>2, <2>2
    <3> QED BY <3>1 DEF AtFrom
  <2> QED BY <2>1, <2>2
<1>3. ASSUME NEW i \in 1..m, s[i] = n
      PROVE  AtFrom(c, 1, e, n)
  <2>1. i \in 1..m + q /\ c[i] = n
    BY <1>1, <1>3
  <2> QED BY <2>1 DEF AtFrom
<1>4. ASSUME NEW i \in 1..q, z[i] = n
      PROVE  AtFrom(c, 1, e, n)
  <2>1. m + i \in 1..m + q /\ ~(m + i <= m) /\ (m + i) - m = i
    OBVIOUS
  <2>2. c[m + i] = n
    BY <1>1, <1>4, <2>1
  <2> QED BY <2>1, <2>2 DEF AtFrom
<1> QED BY <1>2, <1>3, <1>4 DEF AtFrom

(* p is the part of s from a to b. *)
Cuts(p, s, a, b) == p = SubSeq(s, a, b)
PartIn(p, S, s, a, b) == p \in Seq(S) /\ Len(p) = b - a + 1 /\ PartOf(p, s, a, b)

(* Such a part is a sequence of that length. *)
LEMMA CutsPart ==
  ASSUME NEW S, NEW s, s \in Seq(S), NEW n \in Nat, Len(s) = n, NEW a \in Nat \ {0}, NEW b \in Nat, a <= b, b <= n,
         NEW p, Cuts(p, s, a, b)
  PROVE  PartIn(p, S, s, a, b)
<1>1. p = SubSeq(s, a, b) /\ b <= Len(s)
  BY DEF Cuts
<1>2. PICK z \in Seq(S) : z = s
  OBVIOUS
<1>3. b <= Len(z) /\ p = SubSeq(z, a, b)
  BY <1>1, <1>2
<1>4. p \in Seq(S) /\ Len(p) = b - a + 1
  BY <1>3, PartIs
<1>5. PartOf(p, z, a, b)
  BY <1>3, PartIs
<1> QED BY <1>2, <1>4, <1>5 DEF PartIn

(* The arrays of both, and the two halves. *)
Shared(t, a, b, mk, mc, h, lk, lc, rk, rc) ==
  /\ mk = t.node[a].key \o t.node[b].key /\ mc = t.node[a].child \o t.node[b].child
  /\ h = Len(mk) \div 2
  /\ PartsOf(lk, lc, mk, mc, 1, h)
  /\ PartsOf(rk, rc, mk, mc, h + 1, Len(mk))

(* Resort, in steps. *)
LEMMA ResortWith ==
  ASSUME NEW t, IsTree(t), NEW a, a \in DOMAIN t.node, NEW b, b \in DOMAIN t.node, a # b,
         NEW mk, NEW mc, NEW h, NEW lk, NEW lc, NEW rk, NEW rc, Shared(t, a, b, mk, mc, h, lk, lc, rk, rc),
         NEW ta, ta = WithArrays(t, a, lk, lc), NEW tb, tb = WithArrays(ta, b, rk, rc)
  PROVE  Resort(t, a, b) = Adopt(Adopt(tb, Subnodes(tb, a), a), Subnodes(tb, b), b)
<1>1. /\ lk = SubSeq(mk, 1, h) /\ lc = SubSeq(mc, 1, h)
      /\ rk = SubSeq(mk, h + 1, Len(mk)) /\ rc = SubSeq(mc, h + 1, Len(mk))
      /\ mk = t.node[a].key \o t.node[b].key /\ mc = t.node[a].child \o t.node[b].child
      /\ h = Len(mk) \div 2
  BY DEF Shared, PartsOf
<1>2. tb = [t EXCEPT !.node[a].key = lk, !.node[a].child = lc, !.node[b].key = rk, !.node[b].child = rc]
  BY DEF WithArrays
<1> QED BY <1>1, <1>2 DEF Resort

Resorted(t, u, a, b, mc, h, e, lk, lc, rk, rc) ==
  LET l == t.node[a]
      r == t.node[b]
  IN  /\ IsTree(u)
      /\ u.Root = t.Root /\ DOMAIN u.node = DOMAIN t.node
      /\ Has(u.node[a], l.isLeaf, lk, lc, l.father, l.next, l.last)
      /\ Has(u.node[b], r.isLeaf, rk, rc, r.father, r.next, r.last)
      /\ \A n \in DOMAIN t.node : n # a /\ n # b =>
           Has(u.node[n], t.node[n].isLeaf, t.node[n].key, t.node[n].child,
               IF ~l.isLeaf /\ AtFrom(mc, h + 1, e, n) THEN b
               ELSE IF ChildFrom(r, 1, Len(r.key), n) THEN a ELSE t.node[n].father,
               t.node[n].next, t.node[n].last)

(* What Resort does. *)
LEMMA ResortIs ==
  ASSUME NEW t, NEW w, Sound(t, w), NEW F, NEW i, NEW a, NEW b, SideBySide(t, F, i, a, b),
         NEW mk, NEW mc, NEW h, NEW lk, NEW lc, NEW rk, NEW rc, Shared(t, a, b, mk, mc, h, lk, lc, rk, rc),
         NEW e \in Nat, e = Len(mk),
         NEW u, u = Resort(t, a, b)
  PROVE  /\ Resorted(t, u, a, b, mc, h, e, lk, lc, rk, rc)
         /\ u.node[F] = t.node[F]
<1>1. PICK l, r : l = t.node[a] /\ r = t.node[b]
  OBVIOUS
<1>2. PICK kc, k2 : kc = t.node[F].key[i] /\ k2 = t.node[F].key[i + 1]
  OBVIOUS
<1>3. /\ a \in DOMAIN t.node /\ b \in DOMAIN t.node
      /\ a # b /\ F # a /\ F # b
      /\ l.father = F /\ r.father = F
      /\ w.level[a] \in Nat /\ w.level[b] = w.level[a] /\ w.level[F] = w.level[a] + 1
      /\ r.isLeaf <=> l.isLeaf
      /\ Len(l.key) # 0 /\ Len(r.key) # 0
  BY <1>1, <1>2, SideIs
<1>4. F \in DOMAIN t.node
  BY DEF SideBySide
<1>5. IsTree(t)
  BY SoundFrame
<1>6. l.key \in Seq(Keys) /\ l.child \in Seq(Cell) /\ Len(l.key) \in Nat /\ Len(l.child) = Len(l.key)
  BY <1>1, <1>3, SoundNode
<1>7. r.key \in Seq(Keys) /\ r.child \in Seq(Cell) /\ Len(r.key) \in Nat /\ Len(r.child) = Len(r.key)
  BY <1>1, <1>3, SoundNode
<1>8. /\ mk = l.key \o r.key /\ mc = l.child \o r.child
      /\ h = e \div 2
      /\ lk = SubSeq(mk, 1, h) /\ lc = SubSeq(mc, 1, h)
      /\ rk = SubSeq(mk, h + 1, e) /\ rc = SubSeq(mc, h + 1, e)
  BY <1>1 DEF Shared, PartsOf
<1>9. mk \in Seq(Keys) /\ mc \in Seq(Cell) /\ Len(mc) = e
  <2>1. mk \in Seq(Keys) /\ Len(mk) = Len(l.key) + Len(r.key)
    BY <1>6, <1>7, <1>8, ConcatProperties
  <2>2. mc \in Seq(Cell) /\ Len(mc) = Len(l.child) + Len(r.child)
    BY <1>6, <1>7, <1>8, ConcatProperties
  <2> QED BY <1>6, <1>7, <2>1, <2>2
<1>10. PICK m \in Nat, q \in Nat : m = Len(l.key) /\ q = Len(r.key)
  BY <1>6, <1>7
<1>11. e = m + q /\ m # 0 /\ q # 0
  <2>1. Len(mk) = Len(l.key) + Len(r.key)
    BY <1>6, <1>7, <1>8, ConcatProperties
  <2> QED BY <1>3, <1>10, <2>1
<1>12. h \in Nat \ {0} /\ h < e /\ h + 1 \in Nat \ {0} /\ h + 1 <= e
  <2>1. e >= 2
    BY <1>11
  <2>2. h = e \div 2
    BY <1>8
  <2>3. h \in Nat /\ h >= 1 /\ h < e
    BY <2>1, <2>2
  <2> QED BY <2>3
<1>13. /\ lk \in Seq(Keys) /\ lc \in Seq(Cell) /\ Len(lk) = h /\ Len(lc) = h
       /\ rk \in Seq(Keys) /\ rc \in Seq(Cell) /\ Len(rk) = e - h /\ Len(rc) = e - h
       /\ PartOf(lc, mc, 1, h) /\ PartOf(rc, mc, h + 1, e)
  <2>1. PICK h1 \in Nat \ {0}, o \in Nat \ {0}, g \in Nat : h1 = h + 1 /\ o = 1 /\ g = h
    BY <1>12
  <2>2. Cuts(lk, mk, o, g) /\ Cuts(lc, mc, o, g) /\ Cuts(rk, mk, h1, e) /\ Cuts(rc, mc, h1, e)
    BY <1>8, <2>1 DEF Cuts
  <2>3. o <= g /\ g <= e /\ h1 <= e /\ e <= e
    BY <1>12, <2>1
  <2>4. PartIn(lk, Keys, mk, o, g)
    BY <1>9, <2>2, <2>3, CutsPart
  <2>5. PartIn(lc, Cell, mc, o, g)
    BY <1>9, <2>2, <2>3, CutsPart
  <2>6. PartIn(rk, Keys, mk, h1, e)
    BY <1>9, <2>2, <2>3, CutsPart
  <2>7. PartIn(rc, Cell, mc, h1, e)
    BY <1>9, <2>2, <2>3, CutsPart
  <2>8. g - o + 1 = h /\ e - h1 + 1 = e - h
    BY <1>12, <2>1
  <2>9. PartOf(lc, mc, 1, h) /\ PartOf(rc, mc, h + 1, e)
    BY <2>1, <2>5, <2>7 DEF PartIn
  <2> QED BY <2>4, <2>5, <2>6, <2>7, <2>8, <2>9 DEF PartIn
<1>14. PICK ta : ta = WithArrays(t, a, lk, lc)
  OBVIOUS
<1>15. /\ IsTree(ta)
       /\ ta.Root = t.Root /\ DOMAIN ta.node = DOMAIN t.node
       /\ Has(ta.node[a], l.isLeaf, lk, lc, l.father, l.next, l.last)
       /\ \A n \in DOMAIN t.node : n # a => ta.node[n] = t.node[n]
  BY <1>1, <1>3, <1>5, <1>13, <1>14, WithArraysIs
<1>16. PICK tb : tb = WithArrays(ta, b, rk, rc)
  OBVIOUS
<1>17. /\ IsTree(tb)
       /\ tb.Root = t.Root /\ DOMAIN tb.node = DOMAIN t.node
       /\ Has(tb.node[a], l.isLeaf, lk, lc, l.father, l.next, l.last)
       /\ Has(tb.node[b], r.isLeaf, rk, rc, r.father, r.next, r.last)
       /\ \A n \in DOMAIN t.node : n # a /\ n # b => tb.node[n] = t.node[n]
  <2>1. b \in DOMAIN ta.node /\ ta.node[b] = r
    BY <1>1, <1>3, <1>15
  <2>2. /\ IsTree(tb)
        /\ tb.Root = ta.Root /\ DOMAIN tb.node = DOMAIN ta.node
        /\ Has(tb.node[b], ta.node[b].isLeaf, rk, rc, ta.node[b].father, ta.node[b].next, ta.node[b].last)
        /\ \A n \in DOMAIN ta.node : n # b => tb.node[n] = ta.node[n]
    BY <1>13, <1>15, <1>16, <2>1, WithArraysIs
  <2>3. tb.node[a] = ta.node[a]
    BY <1>3, <1>15, <2>2
  <2> QED BY <1>15, <2>1, <2>2, <2>3
<1>18. u = Adopt(Adopt(tb, Subnodes(tb, a), a), Subnodes(tb, b), b)
  <2>1. Shared(t, a, b, mk, mc, h, lk, lc, rk, rc) /\ u = Resort(t, a, b)
    OBVIOUS
  <2> QED BY <1>3, <1>5, <1>14, <1>16, <2>1, ResortWith
<1>19. PICK sa, sb : sa = Subnodes(tb, a) /\ sb = Subnodes(tb, b)
  OBVIOUS
<1>20. /\ \A n : n \in sa <=> ~l.isLeaf /\ AtFrom(mc, 1, h, n)
       /\ \A n : n \in sb <=> ~l.isLeaf /\ AtFrom(mc, h + 1, e, n)
  <2>1. tb.node[a].isLeaf = l.isLeaf /\ tb.node[a].child = lc
    BY <1>17 DEF Has
  <2>2. tb.node[b].isLeaf = r.isLeaf /\ tb.node[b].child = rc
    BY <1>17 DEF Has
  <2>3. sa = (IF l.isLeaf THEN {} ELSE Range(lc)) /\ sb = (IF r.isLeaf THEN {} ELSE Range(rc))
    BY <1>19, <2>1, <2>2 DEF Subnodes
  <2>4. \A n : n \in Range(lc) <=> AtFrom(mc, 1, h, n)
    BY <1>13 DEF PartOf, AtFrom
  <2>5. \A n : n \in Range(rc) <=> AtFrom(mc, h + 1, e, n)
    BY <1>13 DEF PartOf, AtFrom
  <2> QED BY <1>3, <2>3, <2>4, <2>5
<1>21. ASSUME NEW n
       PROVE  ~l.isLeaf /\ AtFrom(mc, 1, e, n)
                <=> ChildFrom(l, 1, m, n) \/ ChildFrom(r, 1, q, n)
  <2>1. PICK s, z : s = l.child /\ z = r.child
    OBVIOUS
  <2>2. Chained(mc, s, z)
    BY <1>6, <1>7, <1>8, <2>1, ChainedIs
  <2>3. Len(s) = m /\ Len(z) = q
    BY <1>6, <1>7, <1>10, <2>1
  <2>4. AtFrom(mc, 1, e, n) <=> AtFrom(s, 1, m, n) \/ AtFrom(z, 1, q, n)
    BY <1>11, <2>2, <2>3, ChainedFrom
  <2> QED BY <1>3, <2>1, <2>4 DEF ChildFrom, AtFrom
<1>22. ASSUME NEW n, ~l.isLeaf, AtFrom(mc, 1, e, n)
       PROVE  /\ n # a /\ n # b /\ n # F
              /\ ~ChildFrom(r, 1, q, n) => t.node[n].father = a
  <2>1. PICK o \in Nat \ {0} : o = 1
    OBVIOUS
  <2>2. CASE ChildFrom(r, 1, q, n)
    <3>1. ChildFrom(r, o, q, n) /\ q <= Len(r.key)
      BY <1>10, <2>1, <2>2
    <3>2. w.level[n] \in Nat /\ w.level[b] = w.level[n] + 1
      BY <1>1, <1>3, <3>1, ChildFromIs
    <3>3. PICK g \in Nat : g = w.level[n]
      BY <3>2
    <3>4. w.level[a] = g + 1 /\ w.level[b] = g + 1 /\ w.level[F] = g + 2 /\ g # g + 1 /\ g # g + 2
      BY <1>3, <3>2, <3>3
    <3> QED BY <2>2, <3>3, <3>4
  <2>3. CASE ~ChildFrom(r, 1, q, n)
    <3>1. ChildFrom(l, 1, m, n)
      BY <1>21, <1>22, <2>3
    <3>2. ChildFrom(l, o, m, n) /\ m <= Len(l.key)
      BY <1>10, <2>1, <3>1
    <3>3. w.level[n] \in Nat /\ w.level[a] = w.level[n] + 1
      BY <1>1, <1>3, <3>2, ChildFromIs
    <3>4. PICK g \in Nat : g = w.level[n]
      BY <3>3
    <3>5. w.level[a] = g + 1 /\ w.level[b] = g + 1 /\ w.level[F] = g + 2 /\ g # g + 1 /\ g # g + 2
      BY <1>3, <3>3, <3>4
    <3>6. PICK j \in 1..m : l.child[j] = n
      BY <3>1 DEF ChildFrom
    <3>7. t.node[n].father = a
      <4>1. j \in 1..Len(l.key) /\ n = l.child[j]
        BY <1>10, <3>6
      <4> QED BY <1>1, <1>3, <1>22, <4>1, NodeChild
    <3> QED BY <3>4, <3>5, <3>7
  <2> QED BY <2>2, <2>3
<1>23. ASSUME NEW n
       PROVE  /\ AtFrom(mc, 1, e, n) <=> AtFrom(mc, 1, h, n) \/ AtFrom(mc, h + 1, e, n)
  <2>1. ASSUME NEW j \in 1..e
        PROVE  j \in 1..h \/ j \in h + 1..e
    BY <1>12
  <2>2. \A j \in 1..h : j \in 1..e
    BY <1>12
  <2>3. \A j \in h + 1..e : j \in 1..e
    BY <1>12
  <2> QED BY <2>1, <2>2, <2>3 DEF AtFrom
<1>24. PICK tc : tc = Adopt(tb, sa, a)
  OBVIOUS
<1>25. a \in Nat /\ b \in Nat
  <2>1. a \in Nat
    BY <1>3, SoundNode
  <2>2. b \in Nat
    BY <1>3, SoundNode
  <2> QED BY <2>1, <2>2
<1>26. /\ IsTree(tc)
       /\ tc.Root = tb.Root /\ DOMAIN tc.node = DOMAIN tb.node
       /\ \A n \in DOMAIN tb.node :
            Has(tc.node[n], tb.node[n].isLeaf, tb.node[n].key, tb.node[n].child,
                IF n \in sa THEN a ELSE tb.node[n].father, tb.node[n].next, tb.node[n].last)
  BY <1>17, <1>24, <1>25, AdoptIs
<1>27. /\ IsTree(u)
       /\ u.Root = tc.Root /\ DOMAIN u.node = DOMAIN tc.node
       /\ \A n \in DOMAIN tc.node :
            Has(u.node[n], tc.node[n].isLeaf, tc.node[n].key, tc.node[n].child,
                IF n \in sb THEN b ELSE tc.node[n].father, tc.node[n].next, tc.node[n].last)
  <2>1. u = Adopt(tc, sb, b)
    BY <1>18, <1>19, <1>24
  <2> QED BY <1>25, <1>26, <2>1, AdoptIs
<1>28. ASSUME NEW n \in DOMAIN t.node
       PROVE  Has(u.node[n], tb.node[n].isLeaf, tb.node[n].key, tb.node[n].child,
                  IF n \in sb THEN b ELSE IF n \in sa THEN a ELSE tb.node[n].father,
                  tb.node[n].next, tb.node[n].last)
  <2>1. n \in DOMAIN tb.node /\ n \in DOMAIN tc.node
    BY <1>17, <1>26
  <2> QED BY <1>26, <1>27, <2>1 DEF Has
<1>29. a \notin sa /\ a \notin sb /\ b \notin sa /\ b \notin sb /\ F \notin sa /\ F \notin sb
  BY <1>20, <1>22, <1>23
<1>30. /\ Has(u.node[a], l.isLeaf, lk, lc, l.father, l.next, l.last)
       /\ Has(u.node[b], r.isLeaf, rk, rc, r.father, r.next, r.last)
  BY <1>3, <1>17, <1>28, <1>29 DEF Has
<1>31. ASSUME NEW n \in DOMAIN t.node, n # a, n # b
       PROVE  Has(u.node[n], t.node[n].isLeaf, t.node[n].key, t.node[n].child,
               IF ~l.isLeaf /\ AtFrom(mc, h + 1, e, n) THEN b
               ELSE IF ChildFrom(r, 1, Len(r.key), n) THEN a ELSE t.node[n].father,
               t.node[n].next, t.node[n].last)
  <2>1. tb.node[n] = t.node[n]
    BY <1>17, <1>31
  <2>2. (IF n \in sb THEN b ELSE IF n \in sa THEN a ELSE t.node[n].father)
        = IF ~l.isLeaf /\ AtFrom(mc, h + 1, e, n) THEN b
          ELSE IF ChildFrom(r, 1, q, n) THEN a ELSE t.node[n].father
    <3>1. CASE n \in sb
      BY <1>20, <3>1
    <3>2. CASE n \notin sb /\ n \in sa
      <4>1. ~l.isLeaf /\ AtFrom(mc, 1, e, n) /\ ~AtFrom(mc, h + 1, e, n)
        BY <1>20, <1>23, <3>2
      <4> QED BY <1>22, <3>2, <4>1
    <3>3. CASE n \notin sb /\ n \notin sa
      <4>1. ~(~l.isLeaf /\ AtFrom(mc, 1, e, n))
        BY <1>20, <1>23, <3>3
      <4>2. ~ChildFrom(r, 1, q, n)
        BY <1>21, <4>1
      <4> QED BY <1>20, <3>3, <4>2
    <3> QED BY <3>1, <3>2, <3>3
  <2> QED BY <1>10, <1>28, <2>1, <2>2
<1>32. Resorted(t, u, a, b, mc, h, e, lk, lc, rk, rc)
  BY <1>1, <1>17, <1>26, <1>27, <1>30, <1>31 DEF Resorted
<1>33. u.node[F] = t.node[F]
  <2>1. tb.node[F] = t.node[F] /\ F \in DOMAIN tb.node
    BY <1>3, <1>4, <1>17
  <2>2. Has(u.node[F], tb.node[F].isLeaf, tb.node[F].key, tb.node[F].child, tb.node[F].father,
            tb.node[F].next, tb.node[F].last)
    BY <1>4, <1>28, <1>29
  <2>3. u.node[F] \in Node /\ tb.node[F] \in Node
    BY <1>17, <1>26, <1>27, <2>1 DEF IsTree
  <2>4. u.node[F] = tb.node[F]
    BY <2>2, <2>3, HasSame
  <2> QED BY <2>1, <2>4
<1> QED BY <1>32, <1>33

-----------------------------------------------------------------------------
(* What the two halves hold after neighbours a and b shared their entries  *)
(* at p.                                                                   *)
ShareHolds(t, w, a, b, mk, mc, h, e, lk, lc, rk, rc, p) ==
  LET B == Both(w.kids[a], w.kids[b])
      lf == t.node[a].isLeaf
  IN  /\ Len(lk) = h /\ Len(rk) = e - h
      /\ Holds(lf, lk, lc, Under(B, p)) /\ Holds(lf, rk, rc, Over(B, p))
      /\ \A n : AtFrom(mc, h + 1, e, n) <=> KidFrom(B, p, n)
ShareKey(t, w, F, i, a, b, p) ==
  /\ p \in Keys /\ p \in Int /\ t.node[F].key[i] < p
  /\ p \in DOMAIN w.kids[a] \/ p \in DOMAIN w.kids[b]

Sharing(t, w, F, i, a, b, mk, mc, h, e, lk, lc, rk, rc, p) ==
  /\ e = Len(t.node[a].key) + Len(t.node[b].key)
  /\ h \in Nat \ {0} /\ h < e
  /\ ShareHolds(t, w, a, b, mk, mc, h, e, lk, lc, rk, rc, p)
  /\ ShareKey(t, w, F, i, a, b, p)

(* So do the halves of the arrays of both. *)
LEMMA SharedHold ==
  ASSUME NEW t, NEW w, Sound(t, w), NEW F, NEW i, NEW a, NEW b, SideBySide(t, F, i, a, b),
         NEW mk, NEW mc, NEW h, NEW lk, NEW lc, NEW rk, NEW rc, Shared(t, a, b, mk, mc, h, lk, lc, rk, rc),
         NEW e \in Nat, e = Len(mk), NEW p, p = rk[1]
  PROVE  Sharing(t, w, F, i, a, b, mk, mc, h, e, lk, lc, rk, rc, p)
<1>1. PICK l, r : l = t.node[a] /\ r = t.node[b]
  OBVIOUS
<1>2. PICK kc, k2 : kc = t.node[F].key[i] /\ k2 = t.node[F].key[i + 1]
  OBVIOUS
<1>3. /\ a \in DOMAIN t.node /\ b \in DOMAIN t.node
      /\ r.isLeaf <=> l.isLeaf
      /\ Len(l.key) # 0 /\ Len(r.key) # 0
      /\ l.key[1] = kc
  BY <1>1, <1>2, SideIs
<1>4. PICK K, K2 : K = w.kids[a] /\ K2 = w.kids[b]
  OBVIOUS
<1>5. PICK lf, ks, cs, zk, zc : lf = l.isLeaf /\ ks = l.key /\ cs = l.child /\ zk = r.key /\ zc = r.child
  OBVIOUS
<1>6. Holds(lf, ks, cs, K)
  <2>1. Holds(l.isLeaf, l.key, l.child, K)
    BY <1>1, <1>3, <1>4, SoundHolds
  <2> QED BY <1>5, <2>1
<1>7. Holds(lf, zk, zc, K2)
  <2>1. Holds(r.isLeaf, r.key, r.child, K2)
    BY <1>1, <1>3, <1>4, SoundHolds
  <2>2. r.isLeaf \in BOOLEAN /\ l.isLeaf \in BOOLEAN
    BY <1>1, <1>3, SoundNode, NodeHas
  <2>3. r.isLeaf = l.isLeaf
    BY <1>3, <2>2
  <2> QED BY <1>5, <2>1, <2>3
<1>8. Len(mk) = Len(ks) + Len(zk) /\ Holds(lf, mk, mc, Both(K, K2))
  <2>1. AllBelow(ks, zk)
    BY <1>1, <1>5, SideBelow
  <2>2. Behind(mk, mc, ks, cs, zk, zc)
    BY <1>1, <1>5 DEF Shared, Behind
  <2> QED BY <1>6, <1>7, <2>1, <2>2, BothStores
<1>9. Len(ks) \in Nat /\ Len(zk) \in Nat
  BY <1>6, <1>7 DEF Holds, Arrays
<1>10. PICK m \in Nat, q \in Nat : m = Len(ks) /\ q = Len(zk)
  BY <1>9
<1>11. e = m + q /\ m # 0 /\ q # 0
  BY <1>3, <1>5, <1>8, <1>10
<1>12. h \in Nat \ {0} /\ h < e
  <2>1. e >= 2
    BY <1>11
  <2>2. h = e \div 2
    BY DEF Shared
  <2>3. h \in Nat /\ h >= 1 /\ h < e
    BY <2>1, <2>2
  <2> QED BY <2>3
<1>13. PICK g \in Nat, h1 \in Nat : g = h /\ h1 = h + 1
  BY <1>12
<1>14. g # 0 /\ h1 = g + 1 /\ h1 \in 1..e /\ h1 # 1 /\ e - h1 + 1 = e - h
  BY <1>12, <1>13
<1>15. PartsOf(lk, lc, mk, mc, 1, g) /\ PartsOf(rk, rc, mk, mc, h1, e)
  BY <1>13 DEF Shared
<1>16. mk \in Seq(Keys) /\ Ascending(mk) /\ Arrays(Cell, mk, mc)
  BY <1>8 DEF Holds, Arrays
<1>17. PICK B : B = Both(K, K2)
  OBVIOUS
<1>18. Pairs(B, mk, mc)
  <2>1. Pairs(Kids(mk, mc), mk, mc)
    BY <1>16, KidsArePairs
  <2> QED BY <1>8, <1>17, <2>1 DEF Holds
<1>19. KeyAt(mk[h1], mk, h1)
  BY <1>14 DEF KeyAt
<1>20. PICK z : z = mk[h1]
  OBVIOUS
<1>21. Len(lk) = g /\ Holds(lf, lk, lc, Under(B, z))
  <2>1. Holds(lf, mk, mc, B) /\ KeyAt(z, mk, h1)
    BY <1>8, <1>17, <1>19, <1>20
  <2> QED BY <1>14, <1>15, <2>1, UnderStores
<1>22. Len(rk) = e - h1 + 1 /\ rk[1] = z /\ Holds(lf, rk, rc, Over(B, z))
  <2>1. KeyAt(z, mk, h1) /\ Holds(lf, mk, mc, B) /\ e = Len(mk) /\ PartsOf(rk, rc, mk, mc, h1, e)
    BY <1>8, <1>15, <1>17, <1>19, <1>20
  <2> HIDE <1>8, <1>15, <1>17, <1>19, <1>20
  <2> QED BY <2>1, OverStores
<1>23. p = z
  BY <1>22
<1>24. ASSUME NEW n
       PROVE  AtFrom(mc, h1, e, n) <=> KidFrom(B, z, n)
  BY <1>16, <1>18, <1>19, <1>20, UpperChildren
<1>25. ShareHolds(t, w, a, b, mk, mc, h, e, lk, lc, rk, rc, p)
  BY <1>1, <1>4, <1>5, <1>13, <1>14, <1>17, <1>21, <1>22, <1>23, <1>24 DEF ShareHolds
<1>26. p \in DOMAIN K \/ p \in DOMAIN K2
  <2>1. mk[h1] \in DOMAIN B
    BY <1>14, <1>18 DEF Pairs
  <2> QED BY <1>17, <1>20, <1>23, <2>1 DEF Both
<1>27. p \in Keys /\ p \in Int
  <2>1. p \in Keys
    BY <1>14, <1>16, <1>20, <1>23
  <2> QED BY <2>1, TreeConstants
<1>28. kc < p
  <2>1. mk[1] < mk[h1]
    <3>1. 1 \in 1..Len(mk) /\ h1 \in 1..Len(mk) /\ 1 < h1
      BY <1>14
    <3> QED BY <1>16, <3>1 DEF Ascending
  <2>2. mk[1] = ks[1]
    <3>1. Chained(mk, ks, zk)
      <4>1. ks \in Seq(Keys) /\ zk \in Seq(Keys)
        BY <1>6, <1>7 DEF Holds, Arrays
      <4>2. mk = ks \o zk
        BY <1>1, <1>5 DEF Shared
      <4> QED BY <4>1, <4>2, ChainedIs
    <3>2. 1 \in 1..m + q /\ 1 <= m
      BY <1>11
    <3> QED BY <1>10, <3>1, <3>2 DEF Chained
  <2> QED BY <1>3, <1>5, <1>20, <1>23, <2>1, <2>2
<1>29. ShareKey(t, w, F, i, a, b, p)
  BY <1>2, <1>4, <1>26, <1>27, <1>28 DEF ShareKey
<1> QED BY <1>1, <1>5, <1>10, <1>11, <1>12, <1>25, <1>29 DEF Sharing

-----------------------------------------------------------------------------
(* The father's key for the right neighbour is replaced. *)
WithKey(t, n, k, p) == [t EXCEPT !.node[n].key[k] = p]
KeyChanged(gk, ks, k, p) == gk = [ks EXCEPT ![k] = p]

(* One element of a sequence of keys is replaced. *)
LEMMA KeyChangedIs ==
  ASSUME NEW ks, ks \in Seq(Keys), NEW k, k \in 1..Len(ks), NEW p, p \in Keys,
         NEW gk, KeyChanged(gk, ks, k, p)
  PROVE  gk \in Seq(Keys) /\ ReplacedAt(gk, ks, k, p)
<1>1. gk = [ks EXCEPT ![k] = p]
  BY DEF KeyChanged
<1>2. gk \in Seq(Keys) /\ Len(gk) = Len(ks)
  BY <1>1
<1>3. \A j \in 1..Len(ks) : gk[j] = IF j = k THEN p ELSE ks[j]
  BY <1>1
<1> QED BY <1>2, <1>3 DEF ReplacedAt

(* The tree with such a key in one node. *)
Keyed(t, t2, c, gk) ==
  /\ IsTree(t2)
  /\ t2.Root = t.Root /\ DOMAIN t2.node = DOMAIN t.node
  /\ Has(t2.node[c], t.node[c].isLeaf, gk, t.node[c].child,
         t.node[c].father, t.node[c].next, t.node[c].last)
  /\ \A n \in DOMAIN t.node : n # c => t2.node[n] = t.node[n]

(* What that does to the tree. *)
LEMMA WithKeyIs ==
  ASSUME NEW t, IsTree(t), NEW c, c \in DOMAIN t.node, NEW ks, ks = t.node[c].key,
         NEW k, k \in 1..Len(ks), NEW p, p \in Keys, NEW gk, KeyChanged(gk, ks, k, p),
         NEW t2, t2 = WithKey(t, c, k, p)
  PROVE  Keyed(t, t2, c, gk)
<1>1. PICK D : D = DOMAIN t.node
  OBVIOUS
<1>2. t \in [Root : Nat, node : [D -> Node]] /\ D \subseteq Nat \ {0} /\ IsFiniteSet(D) /\ c \in D
  BY <1>1 DEF IsTree
<1>3. PICK nd \in Node : nd = t.node[c]
  BY <1>2
<1>4. PICK f \in [D -> Node] : f = t.node
  BY <1>2
<1>5. ks = nd.key /\ gk = [ks EXCEPT ![k] = p]
  BY <1>3 DEF KeyChanged
<1>6. gk \in Seq(Keys)
  BY <1>3, <1>5, NodeHas, KeyChangedIs
<1> DEFINE nd2 == [nd EXCEPT !.key = gk]
           f2 == [f EXCEPT ![c] = nd2]
<1>7. nd2 \in Node
  BY <1>6 DEF Node
<1>8. t2 = [t EXCEPT !.node = f2]
  BY <1>2, <1>3, <1>4, <1>5 DEF WithKey
<1>9. f2 \in [D -> Node]
  BY <1>7
<1> HIDE DEF f2
<1>10. t2.Root = t.Root /\ t2.node = f2
  BY <1>2, <1>8
<1>11. t2 \in [Root : Nat, node : [D -> Node]]
  BY <1>2, <1>8, <1>9
<1>12. DOMAIN t2.node = D
  BY <1>9, <1>10
<1>13. IsTree(t2)
  BY <1>2, <1>11, <1>12 DEF IsTree
<1>14. Has(t2.node[c], nd.isLeaf, gk, nd.child, nd.father, nd.next, nd.last)
  <2>1. t2.node[c] = nd2
    BY <1>2, <1>10 DEF f2
  <2>2. /\ nd2.isLeaf = nd.isLeaf /\ nd2.key = gk /\ nd2.child = nd.child
        /\ nd2.father = nd.father /\ nd2.next = nd.next /\ nd2.last = nd.last
    BY DEF Node
  <2> HIDE DEF nd2
  <2> QED BY <2>1, <2>2 DEF Has
<1>15. ASSUME NEW n \in D, n # c
       PROVE  t2.node[n] = t.node[n]
  BY <1>4, <1>10, <1>15 DEF f2
<1> QED BY <1>1, <1>3, <1>10, <1>12, <1>13, <1>14, <1>15 DEF Keyed

(* Neighbours a and b share their entries, and their father F learns the   *)
(* first key of b.                                                         *)
Lent(t, t2, F, a, b, mc, h, e, lk, lc, rk, rc, gk) ==
  LET l == t.node[a]
      r == t.node[b]
      f == t.node[F]
  IN  /\ IsTree(t2)
      /\ t2.Root = t.Root /\ DOMAIN t2.node = DOMAIN t.node
      /\ Has(t2.node[a], l.isLeaf, lk, lc, l.father, l.next, l.last)
      /\ Has(t2.node[b], r.isLeaf, rk, rc, r.father, r.next, r.last)
      /\ Has(t2.node[F], f.isLeaf, gk, f.child, f.father, f.next, f.last)
      /\ \A n \in DOMAIN t.node : n # a /\ n # b /\ n # F =>
           Has(t2.node[n], t.node[n].isLeaf, t.node[n].key, t.node[n].child,
               IF ~l.isLeaf /\ AtFrom(mc, h + 1, e, n) THEN b
               ELSE IF ChildFrom(r, 1, Len(r.key), n) THEN a ELSE t.node[n].father,
               t.node[n].next, t.node[n].last)

(* What Borrow does. *)
LEMMA BorrowIs ==
  ASSUME NEW t, NEW w, Sound(t, w), NEW F, NEW i, NEW a, NEW b, SideBySide(t, F, i, a, b),
         NEW mk, NEW mc, NEW h, NEW lk, NEW lc, NEW rk, NEW rc, Shared(t, a, b, mk, mc, h, lk, lc, rk, rc),
         NEW e \in Nat, e = Len(mk), NEW p, p = rk[1], NEW k, k = i + 1,
         NEW gk, KeyChanged(gk, t.node[F].key, k, p),
         NEW t2, t2 = Borrow(t, F, a, b, k)
  PROVE  Lent(t, t2, F, a, b, mc, h, e, lk, lc, rk, rc, gk)
<1>1. PICK u : u = Resort(t, a, b)
  OBVIOUS
<1>2. Resorted(t, u, a, b, mc, h, e, lk, lc, rk, rc)
  BY <1>1, ResortIs
<1>3. u.node[F] = t.node[F]
  BY <1>1, ResortIs
<1>4. PICK kc, k2 : kc = t.node[F].key[i] /\ k2 = t.node[F].key[i + 1]
  OBVIOUS
<1>5. a \in DOMAIN t.node /\ b \in DOMAIN t.node /\ a # b /\ F # a /\ F # b
  BY <1>4, SideIs
<1>6. /\ F \in DOMAIN t.node /\ k \in 1..Len(t.node[F].key)
  <2>1. F \in DOMAIN t.node /\ i \in Nat \ {0} /\ i + 1 <= Len(t.node[F].key)
    BY DEF SideBySide
  <2>2. PICK m \in Nat : m = Len(t.node[F].key)
    BY <2>1, SoundNode
  <2> QED BY <2>1, <2>2
<1>7. p \in Keys
  <2>1. Sharing(t, w, F, i, a, b, mk, mc, h, e, lk, lc, rk, rc, p)
    BY SharedHold
  <2> QED BY <2>1 DEF Sharing, ShareKey
<1>8. /\ IsTree(u)
      /\ u.Root = t.Root /\ DOMAIN u.node = DOMAIN t.node
      /\ u.node[b].key = rk
  BY <1>2 DEF Resorted, Has
<1>9. t2 = WithKey(u, F, k, p)
  BY <1>1, <1>8 DEF Borrow, WithKey
<1>10. PICK ks : ks = u.node[F].key
  OBVIOUS
<1>11. F \in DOMAIN u.node /\ k \in 1..Len(ks) /\ KeyChanged(gk, ks, k, p)
  BY <1>3, <1>6, <1>8, <1>10
<1>12. Keyed(u, t2, F, gk)
  <2>1. IsTree(u)
    BY <1>8
  <2> QED BY <1>7, <1>9, <1>10, <1>11, <2>1, WithKeyIs
<1>13. t2.node[a] = u.node[a] /\ t2.node[b] = u.node[b]
  BY <1>5, <1>8, <1>12 DEF Keyed
<1> QED BY <1>2, <1>3, <1>8, <1>12, <1>13 DEF Resorted, Lent, Keyed

-----------------------------------------------------------------------------
(* What the sharing comes to. *)
LentDone(t, w, t2, w2, a, b, h, e) ==
  /\ Sound(t2, w2)
  /\ SameHeld(w, w2)
  /\ \A n \in DOMAIN t.node : w2.level[n] = w.level[n]
  /\ t2.Root = t.Root
  /\ DOMAIN t2.node = DOMAIN t.node
  /\ Len(t2.node[a].key) = h
  /\ Len(t2.node[b].key) = e - h
  /\ \A n \in DOMAIN t.node : n # a /\ n # b => SameSize(t, t2, n)

(* The first key of the right half has the place of k2 in the father. *)
FitsAt(ks, k, p) == \A j \in 1..Len(ks) : (j < k => ks[j] < p) /\ (k < j => p < ks[j])

(* The right neighbour's new smallest key has its place in the father. *)
LEMMA ShareKeyFits ==
  ASSUME NEW t, NEW w, Sound(t, w), NEW F, NEW i, NEW a, NEW b, SideBySide(t, F, i, a, b),
         NEW p, ShareKey(t, w, F, i, a, b, p), NEW k, k = i + 1
  PROVE  FitsAt(t.node[F].key, k, p)
<1>1. PICK f, ks : f = t.node[F] /\ ks = f.key
  OBVIOUS
<1>2. PICK kc, k2 : kc = ks[i] /\ k2 = ks[k]
  OBVIOUS
<1>3. /\ F \in DOMAIN t.node /\ ~f.isLeaf
      /\ i \in Nat \ {0} /\ i + 1 <= Len(ks)
      /\ a = f.child[i] /\ b = f.child[k]
  BY <1>1 DEF SideBySide
<1>4. ks \in Seq(Keys) /\ Ascending(ks) /\ Len(ks) \in Nat
  BY <1>1, <1>3, SoundNode
<1>5. PICK m \in Nat : m = Len(ks)
  BY <1>4
<1>6. i \in 1..m /\ k \in 1..m /\ i < k
  BY <1>3, <1>5
<1>7. p \in Int /\ kc < p /\ (p \in DOMAIN w.kids[a] \/ p \in DOMAIN w.kids[b])
  BY <1>1, <1>2 DEF ShareKey
<1>8. w.area[a] = Share(w, F, kc) /\ a \in w.nodes
  BY <1>1, <1>2, <1>3, <1>5, <1>6, NodeChild
<1>9. w.area[b] = Share(w, F, k2) /\ b \in w.nodes
  BY <1>1, <1>2, <1>3, <1>5, <1>6, NodeChild
<1>10. p \in w.area[a] \/ p \in w.area[b]
  <2>1. Shape(w)
    BY SoundFrame
  <2> QED BY <1>7, <1>8, <1>9, <2>1 DEF Shape
<1>11. PICK K : K = DOMAIN w.kids[F]
  OBVIOUS
<1>12. \A j \in 1..m : ks[j] \in Int /\ ks[j] \in K
  BY <1>1, <1>3, <1>5, <1>11, NodeKids
<1>13. Chosen(K, p, kc) \/ Chosen(K, p, k2)
  BY <1>8, <1>9, <1>10, <1>11 DEF Share
<1>14. \A x, y \in 1..m : x < y => ks[x] < ks[y]
  BY <1>4, <1>5 DEF Ascending
<1>15. ASSUME NEW j \in 1..m, j < k
       PROVE  ks[j] < p
  <2>1. j = i \/ j < i
    BY <1>3, <1>15
  <2>2. CASE j = i
    BY <1>2, <1>7, <2>2
  <2>3. CASE j < i
    <3>1. ks[j] < ks[i]
      BY <1>6, <1>14, <2>3
    <3>2. ks[j] \in Int /\ ks[i] \in Int
      BY <1>6, <1>12
    <3> QED BY <1>2, <1>7, <3>1, <3>2
  <2> QED BY <2>1, <2>2, <2>3
<1>16. ASSUME NEW j \in 1..m, k < j
       PROVE  p < ks[j]
  <2>1. ks[k] < ks[j] /\ ks[i] < ks[k]
    BY <1>6, <1>14, <1>16
  <2>2. ks[j] \in Int /\ ks[k] \in Int /\ ks[i] \in Int /\ ks[j] \in K
    BY <1>6, <1>12
  <2>3. ks[j] <= p => ks[j] <= kc \/ ks[j] <= k2
    BY <1>13, <2>2 DEF Chosen
  <2> QED BY <1>2, <1>7, <2>1, <2>2, <2>3
<1> QED BY <1>1, <1>5, <1>15, <1>16 DEF FitsAt

(* The father's arrays with the new key. *)
LEMMA KeyStores ==
  ASSUME NEW isLeaf, ~isLeaf, NEW ks, NEW cs, NEW F, Holds(isLeaf, ks, cs, F),
         NEW k, k \in 1..Len(ks), NEW p, p \in Keys, FitsAt(ks, k, p),
         NEW k2, KeyAt(k2, ks, k), NEW b, b = F[k2], NEW gk, KeyChanged(gk, ks, k, p)
  PROVE  Len(gk) = Len(ks) /\ Holds(isLeaf, gk, cs, Plus(Minus(F, k2), p, b))
<1>1. Arrays(Cell, ks, cs) /\ Kids(ks, cs) = F
  BY DEF Holds
<1>2. ks \in Seq(Keys) /\ k2 = ks[k]
  BY <1>1 DEF Arrays, KeyAt
<1>3. gk \in Seq(Keys) /\ ReplacedAt(gk, ks, k, p)
  BY <1>2, KeyChangedIs
<1>4. \A j \in 1..Len(ks) : (j < k => ks[j] < p) /\ (k < j => p < ks[j])
  BY DEF FitsAt
<1>5. Arrays(Cell, gk, cs) /\ Kids(gk, cs) = Renamed(Kids(ks, cs), ks[k], p)
  BY <1>1, <1>3, <1>4, RenameKids
<1>6. Renamed(F, k2, p) = Plus(Minus(F, k2), p, b)
  BY DEF Renamed, Plus, Minus
<1>7. Len(gk) = Len(ks)
  BY <1>3 DEF ReplacedAt
<1> QED BY <1>1, <1>2, <1>5, <1>6, <1>7 DEF Holds, Fits

-----------------------------------------------------------------------------
(* Sharing leaves the tree sound, and its records where they were.         *)
LEMMA LentSound ==
  ASSUME NEW t, NEW w, Sound(t, w), NEW F, NEW i, NEW a, NEW b, SideBySide(t, F, i, a, b),
         NEW mk, NEW mc, NEW h, NEW lk, NEW lc, NEW rk, NEW rc, Shared(t, a, b, mk, mc, h, lk, lc, rk, rc),
         NEW e \in Nat, e = Len(mk), NEW p, p = rk[1], NEW k, k = i + 1,
         NEW gk, KeyChanged(gk, t.node[F].key, k, p),
         NEW t2, Lent(t, t2, F, a, b, mc, h, e, lk, lc, rk, rc, gk)
  PROVE  \E w2 : LentDone(t, w, t2, w2, a, b, h, e)
<1>1. PICK l, r, f : l = t.node[a] /\ r = t.node[b] /\ f = t.node[F]
  OBVIOUS
<1>2. PICK kc, k2 : kc = f.key[i] /\ k2 = f.key[i + 1]
  OBVIOUS
<1>3. /\ a \in DOMAIN t.node /\ b \in DOMAIN t.node /\ a # t.Root
      /\ a # b /\ F # a /\ F # b
      /\ l.father = F /\ r.father = F
      /\ w.level[a] \in Nat /\ w.level[b] = w.level[a] /\ w.level[F] = w.level[a] + 1
      /\ l.isLeaf <=> w.level[a] = 0
      /\ r.isLeaf <=> l.isLeaf
      /\ Neighbours(w, a, b, kc, k2)
  BY <1>1, <1>2, SideIs
<1>4. /\ F \in DOMAIN t.node /\ ~f.isLeaf
      /\ i \in Nat \ {0} /\ i + 1 <= Len(f.key) /\ b = f.child[i + 1]
  BY <1>1 DEF SideBySide
<1>5. /\ IsTree(t) /\ Shape(w) /\ Linked(w)
      /\ w.nodes = DOMAIN t.node /\ w.root = t.Root
  BY SoundFrame
<1>6. PICK K, K2, L, B : K = w.kids[a] /\ K2 = w.kids[b] /\ L = w.kids[F] /\ B = Both(K, K2)
  OBVIOUS
<1>7. /\ w.father[a] = F /\ w.next[a] = l.next /\ w.last[a] = l.last
      /\ w.next[b] = r.next /\ w.last[b] = r.last
  BY <1>1, <1>3, SoundSees
<1>8. w.father[F] = f.father /\ w.next[F] = f.next /\ w.last[F] = f.last
  BY <1>1, <1>4, SoundSees
<1>9. /\ e = Len(l.key) + Len(r.key) /\ h \in Nat \ {0} /\ h < e
      /\ ShareHolds(t, w, a, b, mk, mc, h, e, lk, lc, rk, rc, p)
      /\ ShareKey(t, w, F, i, a, b, p)
  <2>1. Sharing(t, w, F, i, a, b, mk, mc, h, e, lk, lc, rk, rc, p)
    BY SharedHold
  <2> QED BY <1>1, <2>1 DEF Sharing
<1>10. /\ Len(lk) = h /\ Len(rk) = e - h
       /\ Holds(l.isLeaf, lk, lc, Under(B, p)) /\ Holds(l.isLeaf, rk, rc, Over(B, p))
       /\ \A n : AtFrom(mc, h + 1, e, n) <=> KidFrom(B, p, n)
  BY <1>1, <1>6, <1>9 DEF ShareHolds
<1>11. Len(lk) # 0 /\ Len(rk) # 0
  <2>1. PICK g \in Nat : g = h
    BY <1>9
  <2>2. g # 0 /\ g < e
    BY <1>9, <2>1
  <2>4. e - g # 0
    BY <2>2
  <2>3. Len(lk) = g /\ Len(rk) = e - g
    BY <1>10, <2>1
  <2> QED BY <2>2, <2>3, <2>4
<1>12. /\ p \in Keys /\ p \in Int /\ kc < p
       /\ p \in DOMAIN w.kids[a] \/ p \in DOMAIN w.kids[b]
  BY <1>1, <1>2, <1>9 DEF ShareKey
<1>13. PICK ff, fk, fc : ff = f.isLeaf /\ fk = f.key /\ fc = f.child
  OBVIOUS
<1>14. Len(gk) = Len(fk) /\ Holds(ff, gk, fc, Plus(Minus(L, k2), p, b))
  <2>1. Holds(ff, fk, fc, L)
    <3>1. Holds(f.isLeaf, f.key, f.child, L)
      BY <1>1, <1>4, <1>6, SoundHolds
    <3> QED BY <1>13, <3>1
  <2>2. FitsAt(fk, k, p)
    BY <1>1, <1>9, <1>13, ShareKeyFits
  <2>3. k \in 1..Len(fk) /\ KeyAt(k2, fk, k)
    <3>1. PICK m \in Nat : m = Len(fk)
      BY <1>1, <1>4, <1>13, SoundNode
    <3>2. k \in 1..m
      BY <1>4, <1>13, <3>1
    <3> QED BY <1>2, <1>13, <3>1, <3>2 DEF KeyAt
  <2>4. b = L[k2]
    <3>1. w.kids[F][k2] = b
      BY <1>3, <1>5, <1>7, NeighboursAre
    <3> QED BY <1>6, <3>1
  <2>5. KeyChanged(gk, fk, k, p)
    BY <1>1, <1>13
  <2> QED BY <1>4, <1>12, <1>13, <2>1, <2>2, <2>3, <2>4, <2>5, KeyStores
<1>15. /\ IsTree(t2)
       /\ t2.Root = t.Root /\ DOMAIN t2.node = DOMAIN t.node
       /\ Has(t2.node[a], l.isLeaf, lk, lc, F, l.next, l.last)
       /\ Has(t2.node[b], r.isLeaf, rk, rc, F, r.next, r.last)
       /\ Has(t2.node[F], ff, gk, fc, f.father, f.next, f.last)
  BY <1>1, <1>3, <1>13 DEF Lent
<1>16. ASSUME NEW n \in DOMAIN t.node, n # a, n # b, n # F
       PROVE  Has(t2.node[n], t.node[n].isLeaf, t.node[n].key, t.node[n].child,
               IF ~l.isLeaf /\ AtFrom(mc, h + 1, e, n) THEN b
               ELSE IF ChildFrom(r, 1, Len(r.key), n) THEN a ELSE t.node[n].father,
               t.node[n].next, t.node[n].last)
  BY <1>1, <1>16 DEF Lent
<1>17. \A n : ChildFrom(r, 1, Len(r.key), n) <=> (w.level[a] # 0 /\ KidOf(K2, n))
  <2>1. Pairs(K2, r.key, r.child)
    BY <1>1, <1>3, <1>6, NodePairs
  <2>2. PICK ks, cs : ks = r.key /\ cs = r.child
    OBVIOUS
  <2>3. ASSUME NEW n
        PROVE  AtFrom(cs, 1, Len(ks), n) <=> KidOf(K2, n)
    <3>1. /\ \A k1 \in DOMAIN K2 : \E i1 \in 1..Len(ks) : ks[i1] = k1
          /\ \A i1 \in 1..Len(ks) : ks[i1] \in DOMAIN K2 /\ K2[ks[i1]] = cs[i1]
      BY <2>1, <2>2 DEF Pairs
    <3>2. ASSUME NEW k1 \in DOMAIN K2, K2[k1] = n
          PROVE  \E i1 \in 1..Len(ks) : cs[i1] = n
      <4>1. PICK i1 \in 1..Len(ks) : ks[i1] = k1
        BY <3>1, <3>2
      <4>2. K2[ks[i1]] = cs[i1]
        BY <3>1, <4>1
      <4> QED BY <3>2, <4>1, <4>2
    <3> QED BY <3>1, <3>2 DEF AtFrom, KidOf
  <2> QED BY <1>3, <2>2, <2>3 DEF ChildFrom, AtFrom
<1>18. Shows(t2.node[a], w.level[a] = 0, Under(B, p), F, l.next, l.last)
  <2>1. PICK d : d = t2.node[a]
    OBVIOUS
  <2>2. Holds(d.isLeaf, d.key, d.child, Under(B, p)) /\ Len(d.key) # 0
    BY <1>10, <1>11, <1>15, <2>1 DEF Has
  <2>3. Stores(d) /\ Kids(d.key, d.child) = Under(B, p)
    BY <2>2, HoldsStores
  <2> QED BY <1>3, <1>15, <2>1, <2>3 DEF Has, Shows
<1>19. Shows(t2.node[b], w.level[a] = 0, Over(B, p), F, r.next, r.last)
  <2>1. PICK d : d = t2.node[b]
    OBVIOUS
  <2>2. r.isLeaf = l.isLeaf
    <3>1. r.isLeaf \in BOOLEAN /\ l.isLeaf \in BOOLEAN
      BY <1>1, <1>3, SoundNode, NodeHas
    <3> QED BY <1>3, <3>1
  <2>3. Holds(d.isLeaf, d.key, d.child, Over(B, p)) /\ Len(d.key) # 0
    BY <1>10, <1>11, <1>15, <2>1, <2>2 DEF Has
  <2>4. Stores(d) /\ Kids(d.key, d.child) = Over(B, p)
    BY <2>3, HoldsStores
  <2> QED BY <1>3, <1>15, <2>1, <2>4 DEF Has, Shows
<1>20. Shows(t2.node[F], FALSE, Plus(Minus(L, k2), p, b), f.father, f.next, f.last)
  <2>1. PICK d : d = t2.node[F]
    OBVIOUS
  <2>2. Len(gk) # 0
    <3>1. PICK m \in Nat : m = Len(fk)
      BY <1>1, <1>4, <1>13, SoundNode
    <3>2. i + 1 <= m /\ Len(gk) = m
      BY <1>4, <1>13, <1>14, <3>1
    <3> QED BY <1>4, <3>2
  <2>3. Holds(d.isLeaf, d.key, d.child, Plus(Minus(L, k2), p, b)) /\ Len(d.key) # 0
    BY <1>14, <1>15, <2>1, <2>2 DEF Has
  <2>4. Stores(d) /\ Kids(d.key, d.child) = Plus(Minus(L, k2), p, b)
    BY <2>3, HoldsStores
  <2> QED BY <1>4, <1>13, <1>15, <2>1, <2>4 DEF Has, Shows
<1>21. ASSUME NEW n \in DOMAIN t.node, n # a, n # b, n # F
       PROVE  Shows(t2.node[n], w.level[n] = 0, w.kids[n],
                    IF w.level[a] # 0 /\ KidFrom(B, p, n) THEN b
                    ELSE IF w.level[a] # 0 /\ KidOf(K2, n) THEN a ELSE w.father[n],
                    w.next[n], w.last[n])
  <2>1. PICK d, o : d = t2.node[n] /\ o = t.node[n]
    OBVIOUS
  <2>2. Has(d, o.isLeaf, o.key, o.child,
            IF w.level[a] # 0 /\ KidFrom(B, p, n) THEN b
            ELSE IF w.level[a] # 0 /\ KidOf(K2, n) THEN a ELSE o.father,
            o.next, o.last)
    BY <1>3, <1>10, <1>16, <1>17, <1>21, <2>1
  <2>3. Stores(o)
    BY <2>1, SoundFits
  <2>4. /\ w.kids[n] = Kids(o.key, o.child)
        /\ w.father[n] = o.father /\ w.next[n] = o.next /\ w.last[n] = o.last
        /\ o.isLeaf <=> w.level[n] = 0
    BY <2>1, SoundSees
  <2>5. Stores(d)
    BY <2>2, <2>3 DEF Stores, Has
  <2> QED BY <2>1, <2>2, <2>4, <2>5 DEF Has, Shows
<1>22. IsBorrowed(w, t2, a, b, k2, F, p)
  <2>1. t2.Root = w.root /\ DOMAIN t2.node = w.nodes
    BY <1>5, <1>15
  <2>2. Shows(t2.node[a], w.level[a] = 0, Under(Both(w.kids[a], w.kids[b]), p), F, w.next[a], w.last[a])
    BY <1>6, <1>7, <1>18
  <2>3. Shows(t2.node[b], w.level[a] = 0, Over(Both(w.kids[a], w.kids[b]), p), F, w.next[b], w.last[b])
    BY <1>6, <1>7, <1>19
  <2>4. Shows(t2.node[F], FALSE, Plus(Minus(w.kids[F], k2), p, b), w.father[F], w.next[F], w.last[F])
    BY <1>6, <1>8, <1>20
  <2>5. \A n \in w.nodes : n # a /\ n # b /\ n # F =>
          Shows(t2.node[n], w.level[n] = 0, w.kids[n],
                IF w.level[a] # 0 /\ KidFrom(Both(w.kids[a], w.kids[b]), p, n) THEN b
                ELSE IF w.level[a] # 0 /\ KidOf(w.kids[b], n) THEN a ELSE w.father[n],
                w.next[n], w.last[n])
    BY <1>5, <1>6, <1>21
  <2> QED BY <1>15, <2>1, <2>2, <2>3, <2>4, <2>5 DEF IsBorrowed
<1>23. w.nodes \subseteq Nat \ {0}
  BY <1>5 DEF IsTree
<1>24. PICK w2 : BorrowedDone(w, t2, w2)
  BY <1>3, <1>5, <1>7, <1>12, <1>22, <1>23, BorrowedSound
<1>25. ASSUME NEW n \in DOMAIN t.node, n # a, n # b
       PROVE  SameSize(t, t2, n)
  <2>1. CASE n = F
    BY <1>1, <1>4, <1>13, <1>14, <1>15, <2>1 DEF SameSize, Has
  <2>2. CASE n # F
    BY <1>15, <1>16, <1>25, <2>2 DEF SameSize, Has
  <2> QED BY <2>1, <2>2
<1>26. Len(t2.node[a].key) = h /\ Len(t2.node[b].key) = e - h
  BY <1>10, <1>15 DEF Has
<1>27. LentDone(t, w, t2, w2, a, b, h, e)
  BY <1>5, <1>15, <1>24, <1>25, <1>26 DEF LentDone, BorrowedDone
<1> QED BY <1>27

(* Borrowing as a whole. *)
LEMMA BorrowSound ==
  ASSUME NEW t, NEW w, Sound(t, w), NEW F, NEW i, NEW a, NEW b, SideBySide(t, F, i, a, b),
         NEW k, k = i + 1, NEW t2, t2 = Borrow(t, F, a, b, k),
         NEW e \in Nat, e = Len(t.node[a].key) + Len(t.node[b].key)
  PROVE  \E w2 : LentDone(t, w, t2, w2, a, b, e \div 2, e)
<1>1. PICK mk, mc : mk = t.node[a].key \o t.node[b].key /\ mc = t.node[a].child \o t.node[b].child
  OBVIOUS
<1>2. PICK h : h = Len(mk) \div 2
  OBVIOUS
<1>3. PICK lk, lc, rk, rc : PartsOf(lk, lc, mk, mc, 1, h) /\ PartsOf(rk, rc, mk, mc, h + 1, Len(mk))
  BY DEF PartsOf
<1>4. Shared(t, a, b, mk, mc, h, lk, lc, rk, rc)
  BY <1>1, <1>2, <1>3 DEF Shared
<1>5. e = Len(mk)
  <2>1. PICK z \in Nat : z = Len(mk)
    <3>1. a \in DOMAIN t.node /\ b \in DOMAIN t.node
      <4>1. PICK kc, k2 : kc = t.node[F].key[i] /\ k2 = t.node[F].key[i + 1]
        OBVIOUS
      <4> QED BY <4>1, SideIs
    <3>2. t.node[a].key \in Seq(Keys)
      BY <3>1, SoundNode
    <3>3. t.node[b].key \in Seq(Keys)
      BY <3>1, SoundNode
    <3>4. mk \in Seq(Keys)
      BY <1>1, <3>2, <3>3, ConcatProperties
    <3> QED BY <3>4
  <2>2. PICK p : p = rk[1]
    OBVIOUS
  <2>3. Shared(t, a, b, mk, mc, h, lk, lc, rk, rc) /\ z = Len(mk) /\ p = rk[1]
    BY <1>4, <2>1, <2>2
  <2>4. Sharing(t, w, F, i, a, b, mk, mc, h, z, lk, lc, rk, rc, p)
    BY <2>3, SharedHold
  <2> QED BY <2>1, <2>4 DEF Sharing
<1>6. PICK p, gk : p = rk[1] /\ KeyChanged(gk, t.node[F].key, k, p)
  BY DEF KeyChanged
<1>7. Lent(t, t2, F, a, b, mc, h, e, lk, lc, rk, rc, gk)
  BY <1>4, <1>5, <1>6, BorrowIs
<1>8. \E w2 : LentDone(t, w, t2, w2, a, b, h, e)
  BY <1>4, <1>5, <1>6, <1>7, LentSound
<1> QED BY <1>2, <1>5, <1>8

-----------------------------------------------------------------------------
(* Delete, level by level. *)

(* At most node cur, on level i, has too few entries: one too few unless it*)
(* is the root.                                                            *)
ShortAt(t, w, cur, i, h) ==
  /\ cur \in DOMAIN t.node
  /\ w.level[cur] = i
  /\ w.level[t.Root] = h
  /\ SizedBut(t, cur)
  /\ Len(t.node[cur].key) < Mid
  /\ cur # t.Root => Len(t.node[cur].key) + 1 = Mid

(* After i turns: the record is gone, and at most node cur on level i is   *)
(* short.                                                                  *)
Leaving(w0, s, w, x, i, h) ==
  /\ Sound(s.tree, w)
  /\ TakenHeld(w0, w, x)
  /\ ~s.short => AllSized(s.tree)
  /\ s.short => ShortAt(s.tree, w, s.cur, i, h)

(* What is left of a node, when it is not short. *)
LEMMA StillSized ==
  ASSUME NEW t, NEW n, NEW z \in Nat, Len(t.node[n].key) = z, z * 2 >= MaxChildNumber, z < MaxChildNumber
  PROVE  SizedAt(t, n)
<1>1. Mid <= z
  BY HalfIs
<1>2. Room(t, n) \in Nat /\ Room(t, n) <= Mid
  BY HalfIs DEF Room
<1>3. Room(t, n) <= z
  BY <1>1, <1>2, HalfIs
<1> QED BY <1>3 DEF SizedAt

(* The record is taken out of its leaf. *)
LEMMA TakeTurn ==
  ASSUME NEW t, NEW w, Sound(t, w), AllSized(t), NEW x \in Int,
         NEW l, l \in DOMAIN t.node, t.node[l].isLeaf, x \in DOMAIN w.kids[l],
         NEW s, s = TakeOut(t, l, x)
  PROVE  \E w2 : Leaving(w, s, w2, x, 0, w.level[t.Root])
<1>1. PICK c : c = t.node[l]
  OBVIOUS
<1>2. PICK z \in Nat : z = Len(c.key)
  BY <1>1, SoundNode
<1>3. SizedAt(t, l)
  BY DEF AllSized
<1>4. z < MaxChildNumber /\ (l # t.Root => Mid <= z)
  BY <1>1, <1>2, <1>3 DEF SizedAt, Room
<1>5. l # t.Root => z >= 2
  BY <1>4, HalfIs
<1>6. z # 0
  <2>1. \E i \in 1..Len(c.key) : c.key[i] = x
    BY <1>1, NodeKids
  <2> QED BY <1>2, <2>1
<1>7. /\ s.cur = l
      /\ s.short <=> (Len(t.node[l].key) - 1) * 2 < MaxChildNumber
      /\ \E w2 : TakenDone(t, w, s.tree, w2, l, x)
  BY <1>1, <1>2, <1>5, TakeOutLeafSound
<1>8. PICK w2 : TakenDone(t, w, s.tree, w2, l, x)
  BY <1>7
<1>9. PICK u : u = s.tree
  OBVIOUS
<1>10. /\ Sound(u, w2) /\ TakenHeld(w, w2, x) /\ w2.level = w.level /\ u.Root = t.Root
       /\ DOMAIN u.node = DOMAIN t.node
       /\ Len(u.node[l].key) = Len(t.node[l].key) - 1 /\ u.node[l].isLeaf
       /\ \A n \in DOMAIN t.node : n # l => SameSize(t, u, n)
  BY <1>8, <1>9 DEF TakenDone
<1>11. SizedBut(u, l)
  <2>1. ASSUME NEW n \in DOMAIN u.node, n # l
        PROVE  SizedAt(u, n)
    <3>1. SameSize(t, u, n) /\ SizedAt(t, n)
      BY <1>10, <2>1 DEF AllSized
    <3> QED BY <3>1, SameSized
  <2> QED BY <2>1 DEF SizedBut
<1>12. PICK y \in Nat : y = z - 1
  BY <1>6
<1>13. Len(u.node[l].key) = y
  BY <1>1, <1>2, <1>10, <1>12
<1>14. s.short <=> y * 2 < MaxChildNumber
  BY <1>1, <1>2, <1>7, <1>12
<1>15. ASSUME ~s.short
       PROVE  AllSized(u)
  <2>1. y * 2 >= MaxChildNumber /\ y < MaxChildNumber
    BY <1>4, <1>12, <1>14, <1>15, HalfIs
  <2>2. SizedAt(u, l)
    BY <1>13, <2>1, StillSized
  <2> QED BY <1>11, <2>2 DEF AllSized, SizedBut
<1>16. ASSUME s.short
       PROVE  ShortAt(u, w2, l, 0, w.level[t.Root])
  <2>1. y < Mid /\ (l # t.Root => y + 1 = Mid)
    BY <1>4, <1>12, <1>14, <1>16, HalfIs
  <2>2. w2.level[l] = 0
    BY <1>10, SoundSees
  <2> QED BY <1>10, <1>11, <1>13, <2>1, <2>2 DEF ShortAt
<1>17. Leaving(w, s, w2, x, 0, w.level[t.Root])
  BY <1>7, <1>9, <1>10, <1>15, <1>16 DEF Leaving
<1> QED BY <1>17

(* Delete's loop over the levels. *)
DeleteTurns(f, n, a) ==
  f = [i \in 0..n |-> IF i = 0 THEN a
                      ELSE LET s == f[i - 1] IN IF s.short THEN Redistribute(s.tree, s.cur) ELSE s]

(* The loop has a run. *)
LEMMA DeleteTurnsExist ==
  ASSUME NEW n \in Nat, NEW a
  PROVE  \E f : DeleteTurns(f, n, a)
<1> DEFINE S == {m \in 0..n : \E f : DeleteTurns(f, m, a)}
<1>1. 0 \in S
  <2> DEFINE f == [i \in 0..0 |-> a]
  <2>1. \A i \in 0..0 : i = 0
    OBVIOUS
  <2>2. DeleteTurns(f, 0, a)
    BY <2>1 DEF DeleteTurns
  <2> HIDE DEF f
  <2> QED BY <2>2
<1>2. ASSUME NEW m \in 0..n - 1, m \in S
      PROVE  m + 1 \in S
  <2>1. PICK f : DeleteTurns(f, m, a)
    BY <1>2
  <2> DEFINE After(s) == IF s.short THEN Redistribute(s.tree, s.cur) ELSE s
             g == [i \in 0..m + 1 |-> IF i = m + 1 THEN After(f[m]) ELSE f[i]]
  <2> HIDE DEF After
  <2>2. ASSUME NEW i \in 0..m
        PROVE  f[i] = IF i = 0 THEN a ELSE After(f[i - 1])
    BY <2>1 DEF DeleteTurns, After
  <2>3. \A i \in 0..m + 1 : g[i] = IF i = m + 1 THEN After(f[m]) ELSE f[i]
    OBVIOUS
  <2>4. g = [i \in 0..m + 1 |-> g[i]]
    OBVIOUS
  <2> HIDE DEF g
  <2>5. ASSUME NEW i \in 0..m + 1
        PROVE  g[i] = IF i = 0 THEN a ELSE After(g[i - 1])
    <3>1. CASE i = m + 1
      <4>1. i # 0 /\ i - 1 = m /\ i - 1 \in 0..m + 1 /\ i - 1 # m + 1
        BY <1>2, <3>1
      <4>2. g[i] = After(f[m]) /\ g[i - 1] = f[m]
        BY <2>3, <3>1, <4>1
      <4> QED BY <4>1, <4>2
    <3>2. CASE i \in 0..m
      <4>1. i # m + 1 /\ (i # 0 => i - 1 \in 0..m + 1 /\ i - 1 # m + 1)
        BY <1>2, <3>2
      <4>2. g[i] = f[i] /\ (i # 0 => g[i - 1] = f[i - 1])
        BY <2>3, <2>5, <4>1
      <4> QED BY <2>2, <3>2, <4>2
    <3> QED BY <1>2, <3>1, <3>2
  <2>6. DeleteTurns(g, m + 1, a)
    BY <2>4, <2>5 DEF DeleteTurns, After
  <2> QED BY <1>2, <2>6
<1> HIDE DEF S
<1>3. n \in S
  BY <1>1, <1>2, UpTo
<1> QED BY <1>3 DEF S

(* Its turns, one by one. *)
LEMMA DeleteTurnsAre ==
  ASSUME NEW f, NEW n \in Nat, NEW a, DeleteTurns(f, n, a)
  PROVE  /\ f[0] = a
         /\ \A i \in 0..n - 1 : f[i + 1] = IF f[i].short THEN Redistribute(f[i].tree, f[i].cur) ELSE f[i]
<1>1. \A i \in 0..n : f[i] = IF i = 0 THEN a
                      ELSE LET s == f[i - 1] IN IF s.short THEN Redistribute(s.tree, s.cur) ELSE s
  BY DEF DeleteTurns
<1>2. ASSUME NEW i \in 0..n - 1
      PROVE  f[i + 1] = IF f[i].short THEN Redistribute(f[i].tree, f[i].cur) ELSE f[i]
  <2>1. i + 1 \in 0..n /\ i + 1 # 0 /\ (i + 1) - 1 = i
    OBVIOUS
  <2>2. PICK k : k = i + 1
    OBVIOUS
  <2>3. f[k] = LET s == f[k - 1] IN IF s.short THEN Redistribute(s.tree, s.cur) ELSE s
    BY <1>1, <2>1, <2>2
  <2> QED BY <2>1, <2>2, <2>3
<1> QED BY <1>1, <1>2

-----------------------------------------------------------------------------
(* A node that is short gets entries from a neighbour, or merges with one. *)
LEMMA TakenOn ==
  ASSUME NEW w, NEW w1, NEW w2, NEW x, TakenHeld(w, w1, x), SameHeld(w1, w2)
  PROVE  TakenHeld(w, w2, x)
BY DEF TakenHeld, SameHeld

(* Two halves of what two neighbours have. *)
LEMMA HalvesFit ==
  ASSUME NEW e \in Nat, e >= MaxChildNumber, e <= MaxChildNumber + MaxChildNumber - 2,
         NEW h, h = e \div 2
  PROVE  /\ h \in Nat /\ h <= e /\ e - h \in Nat
         /\ h * 2 >= MaxChildNumber /\ h < MaxChildNumber
         /\ (e - h) * 2 >= MaxChildNumber /\ e - h < MaxChildNumber
<1>1. PICK m \in Nat : m = Mid /\ MaxChildNumber = 2 * m
  BY HalfIs
<1>2. h \in Nat /\ h * 2 <= e /\ e <= h * 2 + 1
  OBVIOUS
<1>3. m <= h
  BY <1>1, <1>2
<1>4. h < MaxChildNumber /\ e - h < MaxChildNumber
  BY <1>1, <1>2
<1>5. (e - h) * 2 >= MaxChildNumber
  BY <1>1, <1>2, <1>3
<1> QED BY <1>1, <1>2, <1>3, <1>4, <1>5

(* One of the two neighbours was short, and the other has some to spare. *)
LEMMA LendTurn ==
  ASSUME NEW t, NEW w, Sound(t, w), NEW F, NEW i, NEW a, NEW b, SideBySide(t, F, i, a, b),
         NEW cur, cur = a \/ cur = b, SizedBut(t, cur),
         NEW e \in Nat, e = Len(t.node[a].key) + Len(t.node[b].key),
         e >= MaxChildNumber, e <= MaxChildNumber + MaxChildNumber - 2,
         NEW k, k = i + 1, NEW t2, t2 = Borrow(t, F, a, b, k)
  PROVE  \E w2 : Sound(t2, w2) /\ SameHeld(w, w2) /\ AllSized(t2)
<1>1. PICK h : h = e \div 2
  OBVIOUS
<1>2. PICK w2 : LentDone(t, w, t2, w2, a, b, h, e)
  BY <1>1, BorrowSound
<1>3. /\ Sound(t2, w2) /\ SameHeld(w, w2)
      /\ DOMAIN t2.node = DOMAIN t.node
      /\ Len(t2.node[a].key) = h /\ Len(t2.node[b].key) = e - h
      /\ \A n \in DOMAIN t.node : n # a /\ n # b => SameSize(t, t2, n)
  BY <1>2 DEF LentDone
<1>4. /\ h \in Nat /\ h <= e /\ e - h \in Nat
      /\ h * 2 >= MaxChildNumber /\ h < MaxChildNumber
      /\ (e - h) * 2 >= MaxChildNumber /\ e - h < MaxChildNumber
  BY <1>1, HalvesFit
<1>5. SizedAt(t2, a)
  BY <1>3, <1>4, StillSized
<1>6. SizedAt(t2, b)
  <2>1. PICK z \in Nat : z = e - h
    BY <1>4
  <2>2. z * 2 >= MaxChildNumber /\ z < MaxChildNumber /\ Len(t2.node[b].key) = z
    BY <1>3, <1>4, <2>1
  <2> QED BY <2>2, StillSized
<1>7. ASSUME NEW n \in DOMAIN t2.node
      PROVE  SizedAt(t2, n)
  <2>1. CASE n # a /\ n # b
    <3>1. SameSize(t, t2, n) /\ SizedAt(t, n)
      BY <1>3, <1>7, <2>1 DEF SizedBut
    <3> QED BY <3>1, SameSized
  <2> QED BY <1>5, <1>6, <2>1
<1> QED BY <1>3, <1>7 DEF AllSized

(* One of the two neighbours was short, and the other has none to spare. *)
LEMMA JoinTurn ==
  ASSUME NEW t, NEW w, Sound(t, w), NEW F, NEW i, NEW a, NEW b, SideBySide(t, F, i, a, b),
         NEW cur, cur = a \/ cur = b, SizedBut(t, cur),
         NEW e \in Nat, e = Len(t.node[a].key) + Len(t.node[b].key),
         e * 2 >= MaxChildNumber, e < MaxChildNumber,
         NEW y, y = t.node[b].key[1], NEW s, s = TakeOut(Absorb(t, a, b), F, y),
         NEW w0, NEW x, TakenHeld(w0, w, x), NEW g \in Nat, w.level[a] = g
  PROVE  \E w2 : Leaving(w0, s, w2, x, g + 1, w.level[t.Root])
<1>1. /\ s.cur = F
      /\ s.short <=> (Len(t.node[F].key) - 1) * 2 < MaxChildNumber
      /\ JoinNodes(t, s.tree, F, i, a, b)
  BY JoinIs
<1>2. PICK u : u = s.tree
  OBVIOUS
<1>3. PICK w2 : JoinedDone(t, w, u, w2, F, a, b)
  BY <1>1, <1>2, JoinedSound
<1>4. /\ Sound(u, w2) /\ SameHeld(w, w2) /\ w2.level = MergeLevel(w, b)
      /\ u.Root = t.Root /\ DOMAIN u.node = DOMAIN t.node \ {b}
      /\ Len(u.node[a].key) = e
      /\ Len(u.node[F].key) = Len(t.node[F].key) - 1
      /\ ~u.node[F].isLeaf
      /\ \A n \in DOMAIN t.node : n # a /\ n # b /\ n # F => SameSize(t, u, n)
  BY <1>3 DEF JoinedDone
<1>5. /\ a # b /\ F # a /\ F # b /\ b # t.Root
      /\ w.level[F] = w.level[a] + 1
  <2>1. PICK kc, k2 : kc = t.node[F].key[i] /\ k2 = t.node[F].key[i + 1]
    OBVIOUS
  <2> QED BY <2>1, SideIs
<1>6. F \in DOMAIN t.node /\ i \in Nat \ {0} /\ i + 1 <= Len(t.node[F].key)
  BY DEF SideBySide
<1>7. SizedAt(u, a)
  BY <1>4, StillSized
<1>8. SizedBut(u, F)
  <2>1. ASSUME NEW n \in DOMAIN u.node, n # F
        PROVE  SizedAt(u, n)
    <3>1. CASE n # a
      <4>1. n \in DOMAIN t.node /\ n # b
        BY <1>4, <2>1
      <4>2. SameSize(t, u, n) /\ SizedAt(t, n)
        BY <1>4, <2>1, <3>1, <4>1 DEF SizedBut
      <4> QED BY <4>2, SameSized
    <3> QED BY <1>7, <3>1
  <2> QED BY <2>1 DEF SizedBut
<1>9. PICK z \in Nat : z = Len(t.node[F].key)
  BY <1>6, SoundNode
<1>10. PICK v \in Nat : v = z - 1
  <2>1. z >= 1
    BY <1>6, <1>9
  <2> QED BY <2>1
<1>11. Len(u.node[F].key) = v
  BY <1>4, <1>9, <1>10
<1>12. s.short <=> v * 2 < MaxChildNumber
  BY <1>1, <1>9, <1>10
<1>13. z < MaxChildNumber /\ (F # t.Root => Mid <= z)
  <2>1. SizedAt(t, F)
    BY <1>5, <1>6 DEF SizedBut
  <2> QED BY <1>9, <2>1 DEF SizedAt, Room
<1>14. ASSUME ~s.short
       PROVE  AllSized(u)
  <2>1. v * 2 >= MaxChildNumber /\ v < MaxChildNumber
    BY <1>10, <1>12, <1>13, <1>14, HalfIs
  <2>2. SizedAt(u, F)
    BY <1>11, <2>1, StillSized
  <2> QED BY <1>8, <2>2 DEF AllSized, SizedBut
<1>15. ASSUME s.short
       PROVE  ShortAt(u, w2, F, g + 1, w.level[t.Root])
  <2>1. v < Mid /\ (F # t.Root => v + 1 = Mid)
    BY <1>10, <1>12, <1>13, <1>15, HalfIs
  <2>2. F \in DOMAIN u.node /\ u.Root \in DOMAIN u.node
    BY <1>4, <1>5, <1>6, SoundFrame
  <2>3. w.nodes = DOMAIN t.node
    BY SoundFrame
  <2>4. w2.level[F] = g + 1 /\ w2.level[u.Root] = w.level[t.Root]
    BY <1>4, <1>5, <2>2, <2>3 DEF MergeLevel
  <2> QED BY <1>4, <1>8, <1>11, <2>1, <2>2, <2>4 DEF ShortAt
<1>16. TakenHeld(w0, w2, x)
  BY <1>4, TakenOn
<1>17. Leaving(w0, s, w2, x, g + 1, w.level[t.Root])
  BY <1>1, <1>2, <1>4, <1>14, <1>15, <1>16 DEF Leaving
<1> QED BY <1>17

-----------------------------------------------------------------------------
(* Redistribute, case by case. *)
Spares(t, n) == (Len(t.node[n].key) - 1) * 2 >= MaxChildNumber
Redistributed(t, s, cur, F, f, my, succ, prev) ==
  LET hasR == my + 1 <= Len(f.key)
      hasL == my - 1 >= 1
  IN  /\ hasR /\ Spares(t, succ) => s.tree = Borrow(t, F, cur, succ, my + 1) /\ ~s.short
      /\ ~(hasR /\ Spares(t, succ)) /\ hasL /\ Spares(t, prev)
           => s.tree = Borrow(t, F, prev, cur, my) /\ ~s.short
      /\ ~(hasR /\ Spares(t, succ)) /\ ~(hasL /\ Spares(t, prev)) /\ hasR
           => s = TakeOut(Absorb(t, cur, succ), F, t.node[succ].key[1])
      /\ ~(hasR /\ Spares(t, succ)) /\ ~(hasL /\ Spares(t, prev)) /\ ~hasR
           => s = TakeOut(Absorb(t, prev, cur), F, t.node[cur].key[1])

(* These are the cases of Redistribute. *)
LEMMA RedistributeIs ==
  ASSUME NEW t, NEW cur, cur # t.Root, NEW F, F = t.node[cur].father, NEW f, f = t.node[F],
         NEW my, my = Binary_Search(f, t.node[cur].key[1]),
         NEW succ, succ = f.child[my + 1], NEW prev, prev = f.child[my - 1],
         NEW s, s = Redistribute(t, cur)
  PROVE  Redistributed(t, s, cur, F, f, my, succ, prev)
BY DEF Redistribute, Redistributed, Spares

(* How many entries two neighbours have, of which one is short. *)
LEMMA LendSize ==
  ASSUME NEW y \in Nat, y + 1 = Mid, NEW z \in Nat, z < MaxChildNumber, (z - 1) * 2 >= MaxChildNumber
  PROVE  y + z >= MaxChildNumber /\ y + z <= MaxChildNumber + MaxChildNumber - 2
<1>1. PICK m \in Nat : m = Mid /\ MaxChildNumber = 2 * m
  BY HalfIs
<1> QED BY <1>1

(* When neither can lend, one node takes the entries of both. *)
LEMMA JoinSize ==
  ASSUME NEW y \in Nat, y + 1 = Mid, NEW z \in Nat, Mid <= z, ~((z - 1) * 2 >= MaxChildNumber)
  PROVE  (y + z) * 2 >= MaxChildNumber /\ y + z < MaxChildNumber
<1>1. PICK m \in Nat : m = Mid /\ MaxChildNumber = 2 * m
  BY HalfIs
<1> QED BY <1>1

(* Where the father of n has it. *)
AtFather(t, n, F, f, key) ==
  /\ F \in DOMAIN t.node /\ ~f.isLeaf
  /\ \E j \in 1..Len(f.key) : f.child[j] = n /\ Binary_Search(f, key) = j

(* Binary_Search in the father finds the position of the node. *)
LEMMA FatherHas ==
  ASSUME NEW t, NEW w, Sound(t, w), NEW n, n \in DOMAIN t.node, n # t.Root,
         NEW key \in Int, LeastKey(w, n, key),
         NEW F, F = t.node[n].father, NEW f, f = t.node[F]
  PROVE  AtFather(t, n, F, f, key)
<1>1. /\ F \in DOMAIN t.node /\ ~f.isLeaf
      /\ \E j \in 1..Len(f.key) : /\ f.key[j] = key /\ f.child[j] = n
                                  /\ Binary_Search(f, key) = j
                                  /\ f.child[1] = n <=> j = 1
                                  /\ LeastKey(w, F, key) <=> j = 1
  BY FatherPosition
<1> QED BY <1>1 DEF AtFather

(* Below the root. *)
LEMMA ShortTurnInner ==
  ASSUME NEW t, NEW w, Sound(t, w), NEW cur, cur # t.Root, NEW i \in Nat, NEW h, ShortAt(t, w, cur, i, h),
         NEW w0, NEW x, TakenHeld(w0, w, x), NEW s, s = Redistribute(t, cur)
  PROVE  \E w2 : Leaving(w0, s, w2, x, i + 1, h)
<1>1. /\ cur \in DOMAIN t.node /\ w.level[cur] = i /\ w.level[t.Root] = h
      /\ SizedBut(t, cur) /\ Len(t.node[cur].key) + 1 = Mid
  BY DEF ShortAt
<1>2. PICK y \in Nat : y = Len(t.node[cur].key)
  BY <1>1, SoundNode
<1>3. y + 1 = Mid /\ y # 0
  BY <1>1, <1>2, HalfIs
<1>4. PICK F, f : F = t.node[cur].father /\ f = t.node[F]
  OBVIOUS
<1>5. PICK key \in Int : key = t.node[cur].key[1] /\ LeastKey(w, cur, key)
  <2>1. Len(t.node[cur].key) # 0 /\ 1 \in 1..Len(t.node[cur].key)
    BY <1>2, <1>3
  <2>2. LeastKey(w, cur, t.node[cur].key[1]) /\ t.node[cur].key[1] \in Int
    BY <1>1, <2>1, NodeKids
  <2> QED BY <2>2
<1>6. PICK my : my = Binary_Search(f, key)
  OBVIOUS
<1>7. /\ F \in DOMAIN t.node /\ ~f.isLeaf
      /\ \E j \in 1..Len(f.key) : f.child[j] = cur /\ Binary_Search(f, key) = j
  <2>1. AtFather(t, cur, F, f, key)
    BY <1>1, <1>4, <1>5, FatherHas
  <2> QED BY <2>1 DEF AtFather
<1>8. PICK m \in Nat : m = Len(f.key)
  BY <1>4, <1>7, SoundNode
<1>9. my \in 1..m /\ f.child[my] = cur
  BY <1>6, <1>7, <1>8
<1>10. PICK succ, prev : succ = f.child[my + 1] /\ prev = f.child[my - 1]
  OBVIOUS
<1>11. Redistributed(t, s, cur, F, f, my, succ, prev)
  BY <1>4, <1>5, <1>6, <1>10, RedistributeIs
<1>12. m >= 2
  <2>1. F # cur
    BY <1>1, <1>4, NodeFather
  <2>2. SizedAt(t, F)
    BY <1>1, <1>7, <2>1 DEF SizedBut
  <2> QED BY <1>4, <1>7, <1>8, <2>2, HalfIs DEF SizedAt, Room
<1>13. ASSUME NEW j, j = my, j + 1 <= m
       PROVE  /\ SideBySide(t, F, j, cur, succ)
              /\ \E z \in Nat : /\ z = Len(t.node[succ].key) /\ z < MaxChildNumber /\ Mid <= z
  <2>1. SideBySide(t, F, j, cur, succ)
    BY <1>4, <1>7, <1>8, <1>9, <1>10, <1>13 DEF SideBySide
  <2>2. succ \in DOMAIN t.node /\ succ # t.Root /\ succ # cur
    <3>1. PICK kc, k2 : kc = t.node[F].key[j] /\ k2 = t.node[F].key[j + 1]
      OBVIOUS
    <3> QED BY <2>1, <3>1, SideIs
  <2>3. SizedAt(t, succ)
    BY <1>1, <2>2 DEF SizedBut
  <2>4. Len(t.node[succ].key) \in Nat
    BY <2>2, SoundNode
  <2> QED BY <2>1, <2>2, <2>3, <2>4 DEF SizedAt, Room
<1>14. ASSUME NEW j, j = my - 1, j >= 1
       PROVE  /\ SideBySide(t, F, j, prev, cur)
              /\ \E z \in Nat : /\ z = Len(t.node[prev].key) /\ z < MaxChildNumber /\ Mid <= z
  <2>1. SideBySide(t, F, j, prev, cur)
    <3>1. j \in Nat \ {0} /\ j + 1 = my /\ j + 1 <= m
      BY <1>9, <1>14
    <3> QED BY <1>4, <1>7, <1>8, <1>9, <1>10, <1>14, <3>1 DEF SideBySide
  <2>2. prev \in DOMAIN t.node /\ prev # t.Root /\ prev # cur
    <3>1. PICK kc, k2 : kc = t.node[F].key[j] /\ k2 = t.node[F].key[j + 1]
      OBVIOUS
    <3> QED BY <2>1, <3>1, SideIs
  <2>3. SizedAt(t, prev)
    BY <1>1, <2>2 DEF SizedBut
  <2>4. Len(t.node[prev].key) \in Nat
    BY <2>2, SoundNode
  <2> QED BY <2>1, <2>2, <2>3, <2>4 DEF SizedAt, Room
<1>15. ASSUME NEW u, u = s.tree, ~s.short, \E w2 : Sound(u, w2) /\ SameHeld(w, w2) /\ AllSized(u)
       PROVE  \E w2 : Leaving(w0, s, w2, x, i + 1, h)
  <2>1. PICK w2 : Sound(u, w2) /\ SameHeld(w, w2) /\ AllSized(u)
    BY <1>15
  <2>2. TakenHeld(w0, w2, x)
    BY <2>1, TakenOn
  <2>3. Leaving(w0, s, w2, x, i + 1, h)
    BY <1>15, <2>1, <2>2 DEF Leaving
  <2> QED BY <2>3
<1>16. CASE my + 1 <= m /\ Spares(t, succ)
  <2>1. PICK j : j = my
    OBVIOUS
  <2>2. SideBySide(t, F, j, cur, succ)
    BY <1>13, <1>16, <2>1
  <2>3. PICK z \in Nat : z = Len(t.node[succ].key) /\ z < MaxChildNumber
    BY <1>13, <1>16, <2>1
  <2>4. (z - 1) * 2 >= MaxChildNumber
    BY <1>16, <2>3 DEF Spares
  <2>5. PICK e \in Nat : e = y + z
    OBVIOUS
  <2>6. e >= MaxChildNumber /\ e <= MaxChildNumber + MaxChildNumber - 2
    BY <1>3, <2>3, <2>4, <2>5, LendSize
  <2>7. PICK k, u : k = j + 1 /\ u = s.tree
    OBVIOUS
  <2>8. u = Borrow(t, F, cur, succ, k) /\ ~s.short
    BY <1>8, <1>11, <1>16, <2>1, <2>7 DEF Redistributed
  <2>9. e = Len(t.node[cur].key) + Len(t.node[succ].key)
    BY <1>2, <2>3, <2>5
  <2>10. \E w2 : Sound(u, w2) /\ SameHeld(w, w2) /\ AllSized(u)
    BY <1>1, <2>2, <2>6, <2>7, <2>8, <2>9, LendTurn
  <2> QED BY <1>15, <2>7, <2>8, <2>10
<1>17. CASE ~(my + 1 <= m /\ Spares(t, succ)) /\ my - 1 >= 1 /\ Spares(t, prev)
  <2>1. PICK j : j = my - 1
    OBVIOUS
  <2>2. SideBySide(t, F, j, prev, cur)
    BY <1>14, <1>17, <2>1
  <2>3. PICK z \in Nat : z = Len(t.node[prev].key) /\ z < MaxChildNumber
    BY <1>14, <1>17, <2>1
  <2>4. (z - 1) * 2 >= MaxChildNumber
    BY <1>17, <2>3 DEF Spares
  <2>5. PICK e \in Nat : e = z + y
    OBVIOUS
  <2>6. e >= MaxChildNumber /\ e <= MaxChildNumber + MaxChildNumber - 2
    BY <1>3, <2>3, <2>4, <2>5, LendSize
  <2>7. PICK k, u : k = j + 1 /\ u = s.tree
    OBVIOUS
  <2>8. u = Borrow(t, F, prev, cur, k) /\ ~s.short
    <3>1. k = my
      BY <1>9, <2>1, <2>7
    <3> QED BY <1>8, <1>11, <1>17, <2>7, <3>1 DEF Redistributed
  <2>9. e = Len(t.node[prev].key) + Len(t.node[cur].key)
    BY <1>2, <2>3, <2>5
  <2>10. \E w2 : Sound(u, w2) /\ SameHeld(w, w2) /\ AllSized(u)
    BY <1>1, <2>2, <2>6, <2>7, <2>8, <2>9, LendTurn
  <2> QED BY <1>15, <2>7, <2>8, <2>10
<1>18. CASE ~(my + 1 <= m /\ Spares(t, succ)) /\ ~(my - 1 >= 1 /\ Spares(t, prev)) /\ my + 1 <= m
  <2>1. PICK j : j = my
    OBVIOUS
  <2>2. SideBySide(t, F, j, cur, succ)
    BY <1>13, <1>18, <2>1
  <2>3. PICK z \in Nat : z = Len(t.node[succ].key) /\ Mid <= z
    BY <1>13, <1>18, <2>1
  <2>4. ~((z - 1) * 2 >= MaxChildNumber)
    BY <1>18, <2>3 DEF Spares
  <2>5. PICK e \in Nat : e = y + z
    OBVIOUS
  <2>6. e * 2 >= MaxChildNumber /\ e < MaxChildNumber
    BY <1>3, <2>3, <2>4, <2>5, JoinSize
  <2>7. PICK v : v = t.node[succ].key[1]
    OBVIOUS
  <2>8. s = TakeOut(Absorb(t, cur, succ), F, v)
    BY <1>8, <1>11, <1>18, <2>7 DEF Redistributed
  <2>9. e = Len(t.node[cur].key) + Len(t.node[succ].key)
    BY <1>2, <2>3, <2>5
  <2>10. \E w2 : Leaving(w0, s, w2, x, i + 1, w.level[t.Root])
    BY <1>1, <2>2, <2>6, <2>7, <2>8, <2>9, JoinTurn
  <2> QED BY <1>1, <2>10
<1>19. CASE ~(my + 1 <= m /\ Spares(t, succ)) /\ ~(my - 1 >= 1 /\ Spares(t, prev)) /\ ~(my + 1 <= m)
  <2>1. PICK j : j = my - 1
    OBVIOUS
  <2>2. j >= 1
    BY <1>9, <1>12, <1>19, <2>1
  <2>3. SideBySide(t, F, j, prev, cur)
    BY <1>14, <2>1, <2>2
  <2>4. PICK z \in Nat : z = Len(t.node[prev].key) /\ Mid <= z
    BY <1>14, <2>1, <2>2
  <2>5. ~((z - 1) * 2 >= MaxChildNumber)
    BY <1>19, <2>1, <2>2, <2>4 DEF Spares
  <2>6. PICK e \in Nat : e = z + y
    OBVIOUS
  <2>7. e * 2 >= MaxChildNumber /\ e < MaxChildNumber
    BY <1>3, <2>4, <2>5, <2>6, JoinSize
  <2>8. PICK v : v = t.node[cur].key[1]
    OBVIOUS
  <2>9. s = TakeOut(Absorb(t, prev, cur), F, v)
    BY <1>8, <1>11, <1>19, <2>8 DEF Redistributed
  <2>10. e = Len(t.node[prev].key) + Len(t.node[cur].key)
    BY <1>2, <2>4, <2>6
  <2>11. w.level[prev] = i
    <3>1. PICK kc, k2 : kc = t.node[F].key[j] /\ k2 = t.node[F].key[j + 1]
      OBVIOUS
    <3>2. w.level[cur] = w.level[prev]
      BY <2>3, <3>1, SideIs
    <3> QED BY <1>1, <3>2
  <2>12. \E w2 : Leaving(w0, s, w2, x, i + 1, w.level[t.Root])
    BY <1>1, <2>3, <2>7, <2>8, <2>9, <2>10, <2>11, JoinTurn
  <2> QED BY <1>1, <2>12
<1> QED BY <1>16, <1>17, <1>18, <1>19

-----------------------------------------------------------------------------
(* The root is short: it gives way to its only child, or stays as it is.   *)
LEMMA RedistributeRoot ==
  ASSUME NEW t, NEW s, s = Redistribute(t, t.Root)
  PROVE  s.tree = Collapse(t) /\ ~s.short
BY DEF Redistribute

(* A turn at the root is the last one. *)
LEMMA ShortTurnRoot ==
  ASSUME NEW t, NEW w, Sound(t, w), NEW root, root = t.Root, SizedBut(t, root),
         Len(t.node[root].key) < Mid,
         NEW w0, NEW x, TakenHeld(w0, w, x), NEW i, NEW h,
         NEW s, s = Redistribute(t, root)
  PROVE  \E w2 : Leaving(w0, s, w2, x, i, h)
<1>1. PICK u : u = s.tree
  OBVIOUS
<1>2. u = Collapse(t) /\ ~s.short
  BY <1>1, RedistributeRoot
<1>3. root \in DOMAIN t.node
  BY SoundFrame
<1>4. PICK m \in Nat : m = Len(t.node[root].key)
  BY <1>3, SoundNode
<1>5. ~t.node[root].isLeaf => m # 0
  BY <1>3, <1>4, SoundNode
<1>6. CASE ~t.node[root].isLeaf /\ m = 1
  <2>1. ~t.node[root].isLeaf /\ Len(t.node[root].key) = 1
    BY <1>4, <1>6
  <2>2. PICK w2 : CollapseDone(t, w, u, w2)
    BY <1>2, <2>1, CollapseSound
  <2>3. /\ Sound(u, w2) /\ SameHeld(w, w2)
        /\ DOMAIN u.node = DOMAIN t.node \ {root}
        /\ \A n \in DOMAIN t.node : n # root => u.node[n] = t.node[n]
    BY <2>2 DEF CollapseDone
  <2>4. AllSized(u)
    <3>1. ASSUME NEW n \in DOMAIN u.node
          PROVE  SizedAt(u, n)
      <4>1. n \in DOMAIN t.node /\ n # root /\ u.node[n] = t.node[n]
        BY <2>3
      <4>2. SizedAt(t, n) /\ n # t.Root
        BY <4>1 DEF SizedBut
      <4>3. PICK z \in Nat : z = Len(t.node[n].key)
        BY <4>1, SoundNode
      <4>4. Mid <= z /\ z < MaxChildNumber
        BY <4>2, <4>3 DEF SizedAt, Room
      <4>5. Room(u, n) \in {0, 2, Mid}
        BY DEF Room
      <4>6. Room(u, n) <= z
        BY <4>4, <4>5, HalfIs
      <4> QED BY <4>1, <4>3, <4>4, <4>6 DEF SizedAt
    <3> QED BY <3>1 DEF AllSized
  <2>5. TakenHeld(w0, w2, x)
    BY <2>3, TakenOn
  <2>6. Leaving(w0, s, w2, x, i, h)
    BY <1>1, <1>2, <2>3, <2>4, <2>5 DEF Leaving
  <2> QED BY <2>6
<1>7. CASE t.node[root].isLeaf \/ m # 1
  <2>1. u = t
    BY <1>2, <1>4, <1>7 DEF Collapse
  <2>2. SizedAt(t, root)
    <3>1. m < MaxChildNumber
      BY <1>4, HalfIs
    <3>2. Room(t, root) <= m
      <4>1. Room(t, root) = IF t.node[root].isLeaf THEN 0 ELSE 2
        BY DEF Room
      <4>2. ~t.node[root].isLeaf => m >= 2
        BY <1>5, <1>7
      <4> QED BY <4>1, <4>2
    <3> QED BY <1>4, <3>1, <3>2 DEF SizedAt
  <2>3. AllSized(t)
    BY <2>2 DEF AllSized, SizedBut
  <2>4. Leaving(w0, s, w, x, i, h)
    BY <1>1, <1>2, <2>1, <2>3 DEF Leaving
  <2> QED BY <2>4
<1> QED BY <1>6, <1>7

(* One turn of the loop. *)
LEMMA ShortTurn ==
  ASSUME NEW w0, NEW s, NEW w, NEW x, NEW i \in Nat, NEW h, Leaving(w0, s, w, x, i, h), s.short,
         NEW s2, s2 = Redistribute(s.tree, s.cur)
  PROVE  \E w2 : Leaving(w0, s2, w2, x, i + 1, h)
<1>1. PICK t, cur : t = s.tree /\ cur = s.cur
  OBVIOUS
<1>2. Sound(t, w) /\ TakenHeld(w0, w, x) /\ ShortAt(t, w, cur, i, h) /\ s2 = Redistribute(t, cur)
  BY <1>1 DEF Leaving
<1>3. CASE cur = t.Root
  <2>1. SizedBut(t, cur) /\ Len(t.node[cur].key) < Mid
    BY <1>2 DEF ShortAt
  <2> QED BY <1>2, <1>3, <2>1, ShortTurnRoot
<1>4. CASE cur # t.Root
  BY <1>2, <1>4, ShortTurnInner
<1> QED BY <1>3, <1>4

Gone(w0, s, x, i, h) == \E w : Leaving(w0, s, w, x, i, h)

(* A node above the root cannot be short. *)
LEMMA LastDeleteTurn ==
  ASSUME NEW w0, NEW s, NEW x, NEW h \in Nat, Gone(w0, s, x, h + 1, h)
  PROVE  \E w : Sound(s.tree, w) /\ TakenHeld(w0, w, x) /\ AllSized(s.tree)
<1>1. PICK w : Leaving(w0, s, w, x, h + 1, h)
  BY DEF Gone
<1>2. PICK t, cur : t = s.tree /\ cur = s.cur
  OBVIOUS
<1>3. Sound(t, w) /\ TakenHeld(w0, w, x)
  BY <1>1, <1>2 DEF Leaving
<1>4. ~s.short
  <2>1. ASSUME s.short
        PROVE  FALSE
    <3>1. cur \in DOMAIN t.node /\ w.level[cur] = h + 1 /\ w.level[t.Root] = h
      BY <1>1, <1>2, <2>1 DEF Leaving, ShortAt
    <3>2. w.level[cur] <= w.level[t.Root]
      BY <1>3, <3>1, SoundFrame
    <3> QED BY <3>1, <3>2
  <2> QED BY <2>1
<1> QED BY <1>1, <1>2, <1>3, <1>4 DEF Leaving

(* A record taken out of a sound tree: the tree is sound, the record is    *)
(* not in it, and every node is as full as it should be.                   *)
LEMMA DeleteSound ==
  ASSUME NEW t, NEW w, Sound(t, w), AllSized(t), NEW x \in Int,
         NEW l, Leaf(w, l), x \in DOMAIN w.kids[l],
         NEW t2, t2 = Delete(t, l, x)
  PROVE  \E w2 : Sound(t2, w2) /\ TakenHeld(w, w2, x) /\ AllSized(t2)
<1>1. PICK h \in Nat : h = Height(t) /\ h = w.level[t.Root]
  BY HeightIs
<1>2. PICK a : a = TakeOut(t, l, x)
  OBVIOUS
<1>3. PICK f : f = CHOOSE g : DeleteTurns(g, h + 1, a)
  OBVIOUS
<1>4. h + 1 \in Nat /\ DeleteTurns(f, h + 1, a)
  <2>1. h + 1 \in Nat
    OBVIOUS
  <2>2. \E g : DeleteTurns(g, h + 1, a)
    BY <2>1, DeleteTurnsExist
  <2> QED BY <1>3, <2>1, <2>2
<1>5. t2 = f[h + 1].tree
  BY <1>1, <1>2, <1>3 DEF Delete, DeleteTurns
<1>6. /\ f[0] = a
      /\ \A i \in 0..h : f[i + 1] = IF f[i].short THEN Redistribute(f[i].tree, f[i].cur) ELSE f[i]
  <2>1. (h + 1) - 1 = h
    OBVIOUS
  <2> QED BY <1>4, <2>1, DeleteTurnsAre
<1>7. Gone(w, a, x, 0, h)
  <2>1. l \in DOMAIN t.node /\ t.node[l].isLeaf
    BY LeafIs
  <2>2. \E w2 : Leaving(w, a, w2, x, 0, w.level[t.Root])
    BY <1>2, <2>1, TakeTurn
  <2> QED BY <1>1, <2>2 DEF Gone
<1> DEFINE S == {i \in 0..h + 1 : Gone(w, f[i], x, i, h)}
<1>8. 0 \in S
  BY <1>6, <1>7
<1>9. ASSUME NEW i \in 0..h, i \in S
      PROVE  i + 1 \in S
  <2>1. PICK s, s2 : s = f[i] /\ s2 = f[i + 1]
    OBVIOUS
  <2>2. s2 = IF s.short THEN Redistribute(s.tree, s.cur) ELSE s
    BY <1>6, <1>9, <2>1
  <2>3. PICK w2 : Leaving(w, s, w2, x, i, h)
    BY <1>9, <2>1 DEF Gone
  <2>4. i \in Nat
    BY <1>9
  <2>5. CASE s.short
    <3>1. s2 = Redistribute(s.tree, s.cur)
      BY <2>2, <2>5
    <3>2. \E w3 : Leaving(w, s2, w3, x, i + 1, h)
      BY <2>3, <2>4, <2>5, <3>1, ShortTurn
    <3> QED BY <2>1, <3>2 DEF Gone
  <2>6. CASE ~s.short
    <3>1. s2 = s
      BY <2>2, <2>6
    <3>2. Leaving(w, s, w2, x, i + 1, h)
      BY <2>3, <2>6 DEF Leaving
    <3>3. Gone(w, s, x, i + 1, h)
      BY <3>2 DEF Gone
    <3>4. f[i + 1] = s /\ i + 1 \in 0..h + 1
      BY <1>9, <2>1, <3>1
    <3> QED BY <3>3, <3>4
  <2> QED BY <2>5, <2>6
<1> HIDE DEF S
<1>10. h + 1 \in S
  <2>1. h + 1 \in Nat /\ (h + 1) - 1 = h /\ h + 1 \in 0..h + 1
    OBVIOUS
  <2>2. \A i \in 0..(h + 1) - 1 : i \in S => i + 1 \in S
    BY <1>9, <2>1
  <2> QED BY <1>8, <2>1, <2>2, UpTo
<1>11. Gone(w, f[h + 1], x, h + 1, h)
  BY <1>10 DEF S
<1>12. PICK s : s = f[h + 1]
  OBVIOUS
<1> QED BY <1>5, <1>11, <1>12, LastDeleteTurn

=============================================================================
