---------------------------- MODULE SelectProofs ----------------------------
(***************************************************************************)
(* Proofs about the two halves of a select.                                *)
(*                                                                         *)
(* QueryPlan: whatever the tables, the select list and the where clause,   *)
(* when rows are evaluated every operand is bound to the column that the   *)
(* last operand up to it with a joined table names, and the clone of the   *)
(* where clause for a table has just the operands that name this table in  *)
(* full, bound alike.                                                      *)
(*                                                                         *)
(* Join: for any number of tables, any tables and any where clause, the    *)
(* executor prints exactly the accepted combinations, each once and in     *)
(* order.                                                                  *)
(***************************************************************************)
EXTENDS QueryPlan, Join, TLAPS, SequenceTheorems, FiniteSetTheorems,
        NaturalsInduction, WellFoundedInduction

(* A set of natural numbers that is not empty has a smallest member. *)
LEMMA SmallestOf ==
  ASSUME NEW S \in SUBSET Nat, S # {}
  PROVE  \E j \in S : \A l \in S : j <= l
<1>1. IsWellFoundedOn(OpToRel(<, Nat), Nat)
  BY NatLessThanWellFounded
<1>2. PICK j \in S : \A l \in S : ~(<<l, j>> \in OpToRel(<, Nat))
  BY <1>1, WFMin
<1>3. \A l \in S : ~(l < j)
  BY <1>2 DEF OpToRel
<1> QED BY <1>3

(* What holds of 0 and passes from each number to the next holds up to n. *)
LEMMA InductionUpTo ==
  ASSUME NEW n \in Nat, NEW S, 0 \in S, \A i \in 0..n - 1 : i \in S => i + 1 \in S
  PROVE  \A i \in 0..n : i \in S
<1> DEFINE Bad == {i \in 0..n : i \notin S}
<1>1. SUFFICES ASSUME Bad # {} PROVE FALSE
  OBVIOUS
<1>2. PICK j \in Bad : \A l \in Bad : j <= l
  <2>1. Bad \in SUBSET Nat
    OBVIOUS
  <2> HIDE DEF Bad
  <2> QED BY <1>1, <2>1, SmallestOf
<1>3. j # 0 /\ j - 1 \in 0..n - 1 /\ j - 1 \in 0..n
  BY <1>2
<1>4. j - 1 \in S
  BY <1>2, <1>3
<1>5. j \in S
  BY <1>3, <1>4
<1> QED BY <1>2, <1>5

(* A loop that carries a value of T from turn to turn. *)
Loop(f, n, a, step) ==
  f = [i \in 0..n |-> IF i = 0 THEN a ELSE step[<<i, f[i - 1]>>]]

LEMMA LoopExists ==
  ASSUME NEW n \in Nat, NEW T, NEW a \in T, NEW step \in [(1..n) \X T -> T]
  PROVE  \E f \in [0..n -> T] : Loop(f, n, a, step)
<1> DEFINE S == {m \in 0..n : \E f \in [0..m -> T] : Loop(f, m, a, step)}
<1>1. 0 \in S
  <2> DEFINE f == [i \in 0..0 |-> a]
  <2>1. f \in [0..0 -> T] /\ Loop(f, 0, a, step)
    BY DEF Loop
  <2> HIDE DEF f
  <2> QED BY <2>1
<1>2. ASSUME NEW m \in 0..n - 1, m \in S
      PROVE  m + 1 \in S
  <2>1. PICK f \in [0..m -> T] : Loop(f, m, a, step)
    BY <1>2
  <2> DEFINE g == [i \in 0..m + 1 |-> IF i = m + 1 THEN step[<<i, f[m]>>] ELSE f[i]]
  <2>2. g \in [0..m + 1 -> T]
    BY <1>2, <2>1
  <2>3. ASSUME NEW i \in 0..m + 1
        PROVE  g[i] = IF i = 0 THEN a ELSE step[<<i, g[i - 1]>>]
    <3>1. CASE i = m + 1
      <4>1. i # 0 /\ i - 1 = m /\ i - 1 \in 0..m + 1 /\ i - 1 # m + 1
        BY <1>2, <3>1
      <4>2. g[i] = step[<<i, f[m]>>] /\ g[i - 1] = f[m]
        BY <3>1, <4>1
      <4> QED BY <4>1, <4>2
    <3>2. CASE i \in 0..m
      <4>1. f[i] = IF i = 0 THEN a ELSE step[<<i, f[i - 1]>>]
        BY <2>1, <3>2 DEF Loop
      <4>2. i # m + 1 /\ i \in 0..m + 1 /\ (i # 0 => i - 1 \in 0..m + 1 /\ i - 1 # m + 1)
        BY <1>2, <3>2
      <4>3. g[i] = f[i] /\ (i # 0 => g[i - 1] = f[i - 1])
        BY <4>2
      <4> HIDE DEF g
      <4> QED BY <4>1, <4>3
    <3> QED BY <1>2, <3>1, <3>2
  <2> HIDE DEF g
  <2>4. Loop(g, m + 1, a, step)
    BY <2>2, <2>3 DEF Loop
  <2> QED BY <1>2, <2>2, <2>4
<1> HIDE DEF S
<1>3. n \in S
  BY <1>1, <1>2, InductionUpTo
<1> QED BY <1>3 DEF S
-----------------------------------------------------------------------------
(* What the variables hold. *)

TableNames == DOMAIN Schemas
Queries == Seq(TableNames) \ {<<>>}
Sources == [table_index : Nat, table : TableNames, column : ColumnNames]
Opnd == [name : Names, src : {NULL} \cup Sources]
Trees == Seq(Opnd)

(* What is said of the tables ts of a query, whatever else the plan holds. *)
HasTable(ts, i, t, c) == i \in DOMAIN ts /\ t = ts[i] /\ HasColumn(t, c)

BoundSomewhere(ts, opnd) ==
  opnd.src # NULL => HasTable(ts, opnd.src.table_index, opnd.src.table, opnd.src.column)

JoinedIn(ts, t) == t = None \/ (InCatalog(t) /\ CatalogTable(t) \in Range(ts))

PlaceIn(ts, t) == IF t = None THEN 1 ELSE Least({i \in DOMAIN ts : ts[i] = CatalogTable(t)})

MeaningIn(ts, name) == Source(PlaceIn(ts, name[1]), ts[PlaceIn(ts, name[1])], name[2])

(* Of the first k operands of a tree, the m-th is the last whose table is  *)
(* joined.                                                                 *)
LastJoined(ts, tree, k, m) ==
  /\ m \in 1 .. k /\ JoinedIn(ts, tree[m].name[1])
  /\ \A l \in 1 .. k : JoinedIn(ts, tree[l].name[1]) => l <= m

(* An operand x that is bound, as the k-th of the tree.                    *)
BoundRight(ts, tree, k, x) ==
  /\ HasTable(ts, x.src.table_index, x.src.table, x.src.column)
  /\ x.name[1] = None \/ InCatalog(x.name[1])
  /\ \E m \in Nat : LastJoined(ts, tree, k, m) /\ x.src = MeaningIn(ts, tree[m].name)

TreeSomewhere(ts, tree) == \A k \in DOMAIN tree : BoundSomewhere(ts, tree[k])
TreeRight(ts, tree) == \A k \in DOMAIN tree : BoundRight(ts, tree, k, tree[k])

(* qp_col_t.  A lone operand is there. *)
SoundTrees(ts) == Seq({opnd \in Opnd : BoundSomewhere(ts, opnd)})
SoundCols(ts) ==
  {col \in [tree : SoundTrees(ts), lone : BOOLEAN, alias_name : Names \cup {NoAlias},
            alias_provided_by_user : BOOLEAN] : col.lone => col.tree # <<>>}

(* The operands of a tree that concern table i, bound to it; left shows    *)
(* what there is of them after each operand.                               *)
InFull(ts, opnd, i) == IF opnd.name[1] = None THEN i = 1 ELSE opnd.name[1] = ts[i]

ConcernsIn(ts, opnd, i) == InFull(ts, opnd, i) /\ HasColumn(ts[i], opnd.name[2])

BoundAt(ts, opnd, i) == [opnd EXCEPT !.src = Source(i, ts[i], opnd.name[2])]

Leaves(left, ts, tree, i) ==
  /\ left \in [0 .. Len(tree) -> SoundTrees(ts)]
  /\ left[0] = <<>>
  /\ \A k \in 1 .. Len(tree) :
       left[k] = IF ConcernsIn(ts, tree[k], i)
                   THEN Append(left[k - 1], BoundAt(ts, tree[k], i)) ELSE left[k - 1]

IsClone(ts, tree, i, clone) == \E left : Leaves(left, ts, tree, i) /\ clone = left[Len(tree)]

(* The clones made so far, while the clause is still as it was. *)
ClonesMade(ts, tree, clones) == \A i \in DOMAIN clones : IsClone(ts, tree, i, clones[i])

MineOf(ts, mine, x, i) == IF InFull(ts, x, i) THEN Append(mine, HeldAgainst(x, i)) ELSE mine

IsMineLoop(f, ts, tree, i) ==
  f = [k \in 0 .. Len(tree) |-> IF k = 0 THEN <<>> ELSE MineOf(ts, f[k - 1], tree[k], i)]

MineIn(ts, tree, i) == LET f == CHOOSE g : IsMineLoop(g, ts, tree, i) IN f[Len(tree)]

ClonesAgree(ts, tree, clones) == \A i \in DOMAIN ts : clones[i] = MineIn(ts, tree, i)

Phases == {"asterisk", "alias", "per_table", "global", "select", "ready", "failed", "done"}

Typed ==
  /\ tables \in Queries
  /\ cols \in Seq(SoundCols(tables))
  /\ where \in {NULL} \cup SoundTrees(tables)
  /\ per_table \in Seq(SoundTrees(tables))
  /\ pc \in Phases
  /\ resolved \in 0 .. Len(cols)

(* The clause exists in the phases that go through it, none of the columns *)
(* is resolved before the last of them, and the clones are made one by one.*)
Phased ==
  /\ pc \in {"alias", "per_table", "global"} => where \in SoundTrees(tables)
  /\ pc \in {"asterisk", "alias", "per_table", "global"} => resolved = 0
  /\ pc \in {"asterisk", "alias"} => per_table = <<>>
  /\ pc = "per_table" => Len(per_table) < Len(tables)
  /\ pc = "global" => Len(per_table) = Len(tables)
  /\ Len(per_table) <= Len(tables)
  /\ pc = "ready" => resolved = Len(cols)

Right ==
  pc \in {"select", "ready"} =>
    /\ HasWhere => TreeRight(tables, where) /\ ClonesAgree(tables, where, per_table)
    /\ \A j \in 1 .. resolved : TreeRight(tables, cols[j].tree)

ClonesRight == pc \in {"per_table", "global"} => ClonesMade(tables, where, per_table)

IInv == Typed /\ Phased /\ Right /\ ClonesRight

-----------------------------------------------------------------------------
(* Tables and their columns. *)

LEMMA SchemaFacts ==
  ASSUME NEW t \in TableNames, NEW c, HasColumn(t, c)
  PROVE  c \in ColumnNames /\ <<t, c>> \in Names /\ <<None, c>> \in Names
<1>1. c \in ColumnNames
  BY DEF HasColumn, ColumnNames, TableNames
<1> QED BY <1>1, PlanAssumption DEF TableNames

LEMMA QueryTables ==
  ASSUME NEW ts \in Queries
  PROVE  ts \in Seq(TableNames) /\ ts # <<>> /\ Len(ts) \in Nat /\ 1 \in DOMAIN ts
         /\ DOMAIN ts = 1 .. Len(ts)
<1>1. ts \in Seq(TableNames) /\ ts # <<>>
  BY DEF Queries
<1>2. Len(ts) \in Nat /\ DOMAIN ts = 1 .. Len(ts) /\ Len(ts) # 0
  BY <1>1, EmptySeq
<1> QED BY <1>1, <1>2

(* A table of the catalog is found by any name that begins like its own.   *)
LEMMA CatalogIs ==
  ASSUME NEW n
  PROVE  /\ InCatalog(n) => CatalogTable(n) \in TableNames
         /\ n \in TableNames => InCatalog(n) /\ CatalogTable(n) = n /\ n # None
<1>1. ASSUME InCatalog(n)
      PROVE  CatalogTable(n) \in TableNames /\ SameName(CatalogTable(n), n)
  BY <1>1 DEF InCatalog, CatalogTable, TableNames
<1>2. ASSUME n \in TableNames
      PROVE  InCatalog(n) /\ CatalogTable(n) = n /\ n # None
  <2>1. InCatalog(n)
    BY <1>2 DEF InCatalog, SameName, TableNames
  <2>2. CatalogTable(n) \in TableNames /\ SameName(CatalogTable(n), n)
    BY <1>1, <2>1
  <2> QED BY <1>2, <2>1, <2>2, PlanAssumption DEF TableNames
<1> QED BY <1>1, <1>2

LEMMA LeastIs ==
  ASSUME NEW S \in SUBSET Nat, S # {}
  PROVE  Least(S) \in S
<1>1. \E x \in S : \A y \in S : x <= y
  BY SmallestOf
<1> QED BY <1>1 DEF Least

(* A name's place: the first table, or the first that the name finds.      *)
LEMMA PlaceIs ==
  ASSUME NEW ts \in Queries, NEW t, JoinedIn(ts, t)
  PROVE  /\ PlaceIn(ts, t) \in DOMAIN ts /\ PlaceIn(ts, t) \in Nat
         /\ t # None => ts[PlaceIn(ts, t)] = CatalogTable(t)
<1>1. 1 \in DOMAIN ts /\ DOMAIN ts = 1 .. Len(ts) /\ Len(ts) \in Nat
  BY QueryTables
<1>2. CASE t = None
  BY <1>1, <1>2 DEF PlaceIn
<1>3. CASE t # None
  <2>1. PICK u : u = CatalogTable(t)
    OBVIOUS
  <2> DEFINE S == {i \in DOMAIN ts : ts[i] = u}
  <2>2. S \in SUBSET Nat
    BY <1>1
  <2>3. S # {}
    BY <1>3, <2>1 DEF Range, JoinedIn
  <2>4. PlaceIn(ts, t) = Least(S)
    BY <1>3, <2>1 DEF PlaceIn
  <2>5. Least(S) \in S
    <3> HIDE DEF S
    <3> QED BY <2>2, <2>3, LeastIs
  <2> QED BY <1>1, <2>1, <2>4, <2>5
<1> QED BY <1>2, <1>3

-----------------------------------------------------------------------------
(* sql_resolve_exptree: what its loop carries from operand to operand. *)

LoopStates == [tindex : Nat, schema_rec : {NULL} \cup (TableNames \X ColumnNames),
               failed : BOOLEAN, tree : Trees]

GoodRec(ts, st) ==
  st.schema_rec # NULL => HasTable(ts, st.tindex, st.schema_rec[1], st.schema_rec[2])

LEMMA LookupIs ==
  ASSUME NEW ts \in Queries, ts = tables, NEW st \in LoopStates, GoodRec(ts, st),
         NEW t, NEW c, NEW lk, lk = Lookup(st, t, c)
  PROVE  /\ lk \in LoopStates /\ GoodRec(ts, lk)
         /\ lk.failed = st.failed /\ lk.tree = st.tree
         /\ ~JoinedIn(ts, t) => lk = st
         /\ JoinedIn(ts, t) /\ lk.schema_rec # NULL =>
              /\ lk.tindex = PlaceIn(ts, t)
              /\ lk.schema_rec = <<ts[PlaceIn(ts, t)], c>>
<1>0. Joined(t) <=> JoinedIn(ts, t)
  BY DEF Joined, JoinedIn
<1>1. CASE ~JoinedIn(ts, t)
  <2>1. lk = st
    BY <1>0, <1>1 DEF Lookup
  <2> QED BY <1>1, <2>1
<1>2. CASE JoinedIn(ts, t)
  <2>1. PICK i : i = PlaceIn(ts, t)
    OBVIOUS
  <2>2. i \in DOMAIN ts /\ i \in Nat
    BY <1>2, <2>1, PlaceIs
  <2>3. PICK u \in TableNames : u = ts[i]
    BY <2>2, QueryTables
  <2>4. lk = [st EXCEPT !.tindex = i, !.schema_rec = IF HasColumn(u, c) THEN <<u, c>> ELSE NULL]
    <3>1. Place(t) = i
      BY <2>1 DEF PlaceIn, Place
    <3> QED BY <1>0, <1>2, <2>3, <3>1 DEF Lookup
  <2>5. /\ lk.tindex = i /\ lk.failed = st.failed /\ lk.tree = st.tree
        /\ lk.schema_rec = IF HasColumn(u, c) THEN <<u, c>> ELSE NULL
    BY <2>4 DEF LoopStates
  <2>6. lk \in LoopStates
    <3>1. HasColumn(u, c) => c \in ColumnNames
      BY SchemaFacts
    <3>2. PICK found \in {NULL} \cup (TableNames \X ColumnNames) :
            found = IF HasColumn(u, c) THEN <<u, c>> ELSE NULL
      BY <3>1
    <3>3. lk = [st EXCEPT !.tindex = i, !.schema_rec = found]
      BY <2>4, <3>2
    <3> QED BY <2>2, <3>3 DEF LoopStates
  <2>7. lk.schema_rec # NULL => lk.schema_rec = <<u, c>> /\ HasColumn(u, c)
    BY <2>5
  <2>8. GoodRec(ts, lk)
    BY <2>2, <2>3, <2>5, <2>7 DEF GoodRec, HasTable
  <2> QED BY <1>2, <2>1, <2>3, <2>5, <2>6, <2>7, <2>8
<1> QED BY <1>1, <1>2

(* Tree w is tree with one more operand, x. *)
Extends(w, tree, x) ==
  /\ Len(tree) \in Nat /\ Len(w) = Len(tree) + 1
  /\ DOMAIN w = 1 .. Len(tree) + 1
  /\ w[Len(tree) + 1] = x
  /\ \A k \in 1 .. Len(tree) : w[k] = tree[k]

LEMMA Appended ==
  ASSUME NEW tree \in Trees, NEW x \in Opnd, NEW w, w = Append(tree, x)
  PROVE  w \in Trees /\ Extends(w, tree, x)
<1> PICK S : S = Opnd
  OBVIOUS
<1>1. tree \in Seq(S) /\ x \in S
  BY DEF Trees
<1>2. /\ w \in Seq(S) /\ Len(tree) \in Nat /\ Len(w) = Len(tree) + 1
      /\ w[Len(tree) + 1] = x
      /\ \A k \in 1 .. Len(tree) : w[k] = tree[k]
  BY <1>1, AppendProperties
<1> QED BY <1>2 DEF Trees, Extends

GoodStates(ts) == {st \in LoopStates : GoodRec(ts, st)}

LEMMA Rebound ==
  ASSUME NEW o \in Opnd, NEW s \in Sources, NEW x, x = [o EXCEPT !.src = s]
  PROVE  x \in Opnd /\ x.name = o.name /\ x.src = s
<1> PICK S : S = Sources
  OBVIOUS
<1>1. o \in [name : Names, src : {NULL} \cup S]
  BY DEF Opnd
<1>2. x \in [name : Names, src : {NULL} \cup S] /\ x.name = o.name /\ x.src = s
  BY <1>1
<1> QED BY <1>2 DEF Opnd

(* One turn of the loop: the operand stays what it is called, and is bound *)
(* by what the loop has by then: the table and column it names, if the     *)
(* table is joined, or else what there was.                                *)
Found(ts, st, o, r) ==
  IF JoinedIn(ts, o.name[1])
    THEN /\ r.tindex = PlaceIn(ts, o.name[1])
         /\ r.schema_rec = <<ts[PlaceIn(ts, o.name[1])], o.name[2]>>
    ELSE r.tindex = st.tindex /\ r.schema_rec = st.schema_rec

Turn(ts, st, o, r, x) ==
  /\ r \in GoodStates(ts)
  /\ r.tree = Append(st.tree, x)
  /\ x.name = o.name
  /\ BoundSomewhere(ts, x)
  /\ ~r.failed =>
       /\ ~st.failed /\ (o.name[1] = None \/ InCatalog(o.name[1]))
       /\ r.schema_rec # NULL
       /\ x.src = Source(r.tindex, r.schema_rec[1], r.schema_rec[2])
       /\ HasTable(ts, x.src.table_index, x.src.table, x.src.column)
       /\ Found(ts, st, o, r)

LEMMA ResolveOperandIs ==
  ASSUME NEW ts \in Queries, ts = tables, NEW st \in GoodStates(ts),
         NEW o \in Opnd, BoundSomewhere(ts, o), NEW r, r = ResolveOperand(st, o)
  PROVE  \E x \in Opnd : Turn(ts, st, o, r, x)
<1>1. st \in LoopStates /\ GoodRec(ts, st) /\ st.tree \in Trees
  BY DEF GoodStates, LoopStates
<1>2. PICK t, c : t = o.name[1] /\ c = o.name[2]
  OBVIOUS
<1>3. PICK lk : lk = Lookup(st, t, c)
  OBVIOUS
<1>4. /\ lk \in LoopStates /\ GoodRec(ts, lk)
      /\ lk.failed = st.failed /\ lk.tree = st.tree
      /\ ~JoinedIn(ts, t) => lk = st
      /\ JoinedIn(ts, t) /\ lk.schema_rec # NULL =>
           /\ lk.tindex = PlaceIn(ts, t)
           /\ lk.schema_rec = <<ts[PlaceIn(ts, t)], c>>
  BY <1>1, <1>3, LookupIs
<1> DEFINE ends == st.failed \/ (t # None /\ ~InCatalog(t)) \/ lk.schema_rec = NULL
<1>5. CASE ends
  <2>1. r = [st EXCEPT !.failed = TRUE, !.tree = Append(@, o)]
    BY <1>2, <1>3, <1>5 DEF ResolveOperand
  <2>2. PICK w \in Trees : w = Append(st.tree, o)
    BY <1>1, Appended
  <2>3. r = [st EXCEPT !.failed = TRUE, !.tree = w]
    BY <2>1, <2>2
  <2>4. /\ r \in LoopStates /\ r.tree = w /\ r.failed
        /\ r.schema_rec = st.schema_rec /\ r.tindex = st.tindex
    BY <1>1, <2>3 DEF LoopStates
  <2>5. r \in GoodStates(ts)
    BY <1>1, <2>4 DEF GoodStates, GoodRec
  <2> QED BY <2>2, <2>4, <2>5 DEF Turn
<1>6. CASE ~ends
  <2>1. ~st.failed /\ lk.schema_rec # NULL
    BY <1>6
  <2>2. PICK u, d : u = lk.schema_rec[1] /\ d = lk.schema_rec[2]
    OBVIOUS
  <2>3. u \in TableNames /\ d \in ColumnNames /\ lk.tindex \in Nat
    BY <1>4, <2>1, <2>2 DEF LoopStates
  <2>4. PICK s : s = Source(lk.tindex, u, d)
    OBVIOUS
  <2>5. s \in Sources /\ s.table_index = lk.tindex /\ s.table = u /\ s.column = d
    BY <2>3, <2>4 DEF Sources, Source
  <2>6. PICK x \in Opnd : x = [o EXCEPT !.src = s] /\ x.name = o.name /\ x.src = s
    <3>1. PICK y : y = [o EXCEPT !.src = s]
      OBVIOUS
    <3>2. s \in Sources
      BY <2>5
    <3>3. y \in Opnd /\ y.name = o.name /\ y.src = s
      BY <3>1, <3>2, Rebound
    <3> QED BY <3>1, <3>3
  <2>7. r = [lk EXCEPT !.tree = Append(@, x)]
    <3>1. r = [lk EXCEPT !.tree = Append(@, [o EXCEPT !.src =
                              Source(lk.tindex, lk.schema_rec[1], lk.schema_rec[2])])]
      BY <1>2, <1>3, <1>6 DEF ResolveOperand
    <3> QED BY <2>2, <2>4, <2>6, <3>1
  <2>8. PICK w \in Trees : w = Append(lk.tree, x)
    BY <1>1, <1>4, Appended
  <2>9. r = [lk EXCEPT !.tree = w]
    BY <2>7, <2>8
  <2>10. /\ r \in LoopStates /\ r.tree = w /\ r.failed = lk.failed
         /\ r.schema_rec = lk.schema_rec /\ r.tindex = lk.tindex
    BY <1>4, <2>9 DEF LoopStates
  <2>11. r \in GoodStates(ts)
    BY <1>4, <2>10 DEF GoodStates, GoodRec
  <2>12. HasTable(ts, x.src.table_index, x.src.table, x.src.column)
    BY <1>4, <2>1, <2>2, <2>5, <2>6 DEF GoodRec
  <2>13. Found(ts, st, o, r)
    <3>1. r.tindex = lk.tindex /\ r.schema_rec = lk.schema_rec
      BY <2>10
    <3>2. CASE JoinedIn(ts, t)
      BY <1>2, <1>4, <2>1, <3>1, <3>2 DEF Found
    <3>3. CASE ~JoinedIn(ts, t)
      BY <1>2, <1>4, <3>1, <3>3 DEF Found
    <3> QED BY <3>2, <3>3
  <2>14. x.src = Source(r.tindex, r.schema_rec[1], r.schema_rec[2])
    BY <2>2, <2>4, <2>6, <2>10
  <2>15. o.name[1] = None \/ InCatalog(o.name[1])
    BY <1>2, <1>6
  <2>16. r.tree = Append(st.tree, x) /\ r.schema_rec # NULL
    BY <1>4, <2>1, <2>8, <2>10
  <2> QED BY <2>1, <2>6, <2>11, <2>12, <2>13, <2>14, <2>15, <2>16 DEF Turn, BoundSomewhere
<1> QED BY <1>5, <1>6

(* The operands up to the k-th have been gone through. *)
Settled(ts, tree, k, x, failed) ==
  /\ x.name = tree[k].name
  /\ BoundSomewhere(ts, x)
  /\ ~failed => BoundRight(ts, tree, k, x)

(* What is kept is what the last of them with a joined table has set.      *)
Kept(ts, tree, k, st) ==
  \/ st.schema_rec = NULL
  \/ \E m \in Nat : /\ LastJoined(ts, tree, k, m)
                    /\ st.tindex = PlaceIn(ts, tree[m].name[1])
                    /\ st.schema_rec = <<ts[PlaceIn(ts, tree[m].name[1])], tree[m].name[2]>>

Resolving(ts, st, tree, k) ==
  /\ st \in GoodStates(ts)
  /\ Len(st.tree) = k
  /\ ~st.failed => Kept(ts, tree, k, st)
  /\ \A j \in 1 .. k : Settled(ts, tree, j, st.tree[j], st.failed)

(* The k-th operand, and what is kept for the next one. *)
LEMMA TurnSettles ==
  ASSUME NEW ts, NEW tree, NEW k \in Nat, k > 0, NEW st, Kept(ts, tree, k - 1, st),
         NEW r, NEW x, Turn(ts, st, tree[k], r, x), ~r.failed
  PROVE  Kept(ts, tree, k, r) /\ BoundRight(ts, tree, k, x)
<1>1. PICK t, c : t = tree[k].name[1] /\ c = tree[k].name[2]
  OBVIOUS
<1>2. /\ x.name = tree[k].name /\ (t = None \/ InCatalog(t)) /\ r.schema_rec # NULL
      /\ x.src = Source(r.tindex, r.schema_rec[1], r.schema_rec[2])
      /\ HasTable(ts, x.src.table_index, x.src.table, x.src.column)
      /\ Found(ts, st, tree[k], r)
  BY <1>1 DEF Turn
<1>3. \E m \in Nat : /\ LastJoined(ts, tree, k, m)
                    /\ r.tindex = PlaceIn(ts, tree[m].name[1])
                    /\ r.schema_rec = <<ts[PlaceIn(ts, tree[m].name[1])], tree[m].name[2]>>
  <2>1. CASE JoinedIn(ts, t)
    <3>1. LastJoined(ts, tree, k, k)
      BY <1>1, <2>1 DEF LastJoined
    <3> QED BY <1>1, <1>2, <2>1, <3>1 DEF Found
  <2>2. CASE ~JoinedIn(ts, t)
    <3>1. r.tindex = st.tindex /\ r.schema_rec = st.schema_rec
      BY <1>1, <1>2, <2>2 DEF Found
    <3>2. PICK m \in Nat : /\ LastJoined(ts, tree, k - 1, m)
                          /\ st.tindex = PlaceIn(ts, tree[m].name[1])
                          /\ st.schema_rec = <<ts[PlaceIn(ts, tree[m].name[1])], tree[m].name[2]>>
      BY <1>2, <3>1 DEF Kept
    <3>3. LastJoined(ts, tree, k, m)
      <4>1. m \in 1 .. k /\ JoinedIn(ts, tree[m].name[1])
        BY <3>2 DEF LastJoined
      <4>2. ASSUME NEW l \in 1 .. k, JoinedIn(ts, tree[l].name[1])
            PROVE  l <= m
        <5>1. l # k
          BY <1>1, <2>2, <4>2
        <5>2. l \in 1 .. k - 1
          BY <5>1
        <5> QED BY <3>2, <4>2, <5>2 DEF LastJoined
      <4> QED BY <4>1, <4>2 DEF LastJoined
    <3> QED BY <3>1, <3>2, <3>3
  <2> QED BY <2>1, <2>2
<1>4. PICK m \in Nat : /\ LastJoined(ts, tree, k, m)
                      /\ r.tindex = PlaceIn(ts, tree[m].name[1])
                      /\ r.schema_rec = <<ts[PlaceIn(ts, tree[m].name[1])], tree[m].name[2]>>
  BY <1>3
<1>5. x.src = MeaningIn(ts, tree[m].name)
  BY <1>2, <1>4 DEF MeaningIn
<1>6. x.name[1] = None \/ InCatalog(x.name[1])
  BY <1>1, <1>2
<1> QED BY <1>2, <1>3, <1>4, <1>5, <1>6 DEF Kept, BoundRight

LEMMA ResolvingGoesOn ==
  ASSUME NEW ts \in Queries, ts = tables, NEW tree \in Trees, TreeSomewhere(ts, tree),
         NEW k \in 1 .. Len(tree), NEW st, Resolving(ts, st, tree, k - 1),
         NEW r, r = ResolveOperand(st, tree[k])
  PROVE  Resolving(ts, r, tree, k)
<1>1. DOMAIN tree = 1 .. Len(tree) /\ Len(tree) \in Nat
  BY DEF Trees
<1>2. PICK o \in Opnd : o = tree[k]
  BY DEF Trees
<1>3. BoundSomewhere(ts, o) /\ st \in GoodStates(ts)
  BY <1>1, <1>2 DEF TreeSomewhere, Resolving
<1>4. PICK x \in Opnd : Turn(ts, st, o, r, x)
  BY <1>2, <1>3, ResolveOperandIs
<1>5. PICK v \in Trees : v = st.tree /\ Len(v) = k - 1
  BY <1>3 DEF Resolving, GoodStates, LoopStates
<1>6. PICK w \in Trees : /\ w = r.tree /\ Len(w) = k /\ w[k] = x
                         /\ \A j \in 1 .. k - 1 : w[j] = v[j]
  <2>1. r.tree = Append(v, x)
    BY <1>4, <1>5 DEF Turn
  <2>2. PICK w : w = r.tree /\ w = Append(v, x)
    BY <2>1
  <2>3. w \in Trees /\ Extends(w, v, x)
    BY <2>2, Appended
  <2>4. Len(v) + 1 = k /\ Len(v) = k - 1
    BY <1>1, <1>5
  <2> QED BY <2>2, <2>3, <2>4 DEF Extends
<1>7. ~r.failed => Kept(ts, tree, k, r) /\ BoundRight(ts, tree, k, x)
  <2>1. ASSUME ~r.failed
        PROVE  Kept(ts, tree, k, r) /\ BoundRight(ts, tree, k, x)
    <3>1. Kept(ts, tree, k - 1, st)
      BY <1>4, <2>1 DEF Turn, Resolving
    <3>2. k \in Nat /\ k > 0 /\ Turn(ts, st, tree[k], r, x)
      BY <1>1, <1>2, <1>4
    <3> QED BY <2>1, <3>1, <3>2, TurnSettles
  <2> QED BY <2>1
<1>8. ASSUME NEW j \in 1 .. k
      PROVE  Settled(ts, tree, j, w[j], r.failed)
  <2>1. CASE j = k
    BY <1>2, <1>4, <1>6, <1>7, <2>1 DEF Turn, Settled
  <2>2. CASE j # k
    <3>1. j \in 1 .. k - 1
      BY <1>1, <2>2
    <3>2. Settled(ts, tree, j, v[j], st.failed) /\ w[j] = v[j]
      BY <1>5, <1>6, <3>1 DEF Resolving
    <3>3. ~r.failed => ~st.failed
      BY <1>4 DEF Turn
    <3> QED BY <3>2, <3>3 DEF Settled
  <2> QED BY <2>1, <2>2
<1> QED BY <1>4, <1>6, <1>7, <1>8 DEF Resolving, Turn

LoopStart == [tindex |-> 1, schema_rec |-> NULL, failed |-> FALSE, tree |-> <<>>]

IsExptreeLoop(f, tree) ==
  f = [k \in 0 .. Len(tree) |-> IF k = 0 THEN LoopStart ELSE ResolveOperand(f[k - 1], tree[k])]

LEMMA ExptreeLoop ==
  ASSUME NEW ts \in Queries, ts = tables, NEW tree \in Trees, TreeSomewhere(ts, tree),
         NEW n \in Nat, n = Len(tree)
  PROVE  \E f : /\ ResolveExptree(tree) = f[n]
                /\ f[0] = LoopStart
                /\ \A k \in 1 .. n : f[k] = ResolveOperand(f[k - 1], tree[k])
<1> DEFINE T == GoodStates(ts)
           step == [x \in (1 .. n) \X T |-> ResolveOperand(x[2], tree[x[1]])]
<1>1. LoopStart \in T
  <2>1. <<>> \in Trees
    BY EmptySeq DEF Trees
  <2> QED BY <2>1 DEF GoodStates, LoopStates, GoodRec, LoopStart
<1>2. \A k \in 1 .. n : \A st \in T : ResolveOperand(st, tree[k]) \in T
  <2>1. ASSUME NEW k \in 1 .. n, NEW st \in T
        PROVE  ResolveOperand(st, tree[k]) \in T
    <3>1. PICK o \in Opnd : o = tree[k]
      BY DEF Trees
    <3>2. BoundSomewhere(ts, o)
      BY <3>1 DEF TreeSomewhere, Trees
    <3>3. PICK r : r = ResolveOperand(st, o)
      OBVIOUS
    <3>4. \E x \in Opnd : Turn(ts, st, o, r, x)
      BY <3>2, <3>3, ResolveOperandIs
    <3> QED BY <3>1, <3>3, <3>4 DEF Turn
  <2> QED BY <2>1
<1>3. step \in [(1 .. n) \X T -> T]
  <2> HIDE DEF T
  <2> QED BY <1>2
<1>4. \A k \in 1 .. n : \A st \in T : step[<<k, st>>] = ResolveOperand(st, tree[k])
  <2> HIDE DEF T
  <2> QED OBVIOUS
<1> HIDE DEF T, step
<1>5. PICK g \in [0 .. n -> T] : Loop(g, n, LoopStart, step)
  BY <1>1, <1>3, LoopExists
<1>6. IsExptreeLoop(g, tree)
  <2>1. ASSUME NEW k \in 0 .. n
        PROVE  g[k] = IF k = 0 THEN LoopStart ELSE ResolveOperand(g[k - 1], tree[k])
    <3>1. g[k] = IF k = 0 THEN LoopStart ELSE step[<<k, g[k - 1]>>]
      BY <1>5 DEF Loop
    <3>2. k # 0 => k \in 1 .. n /\ g[k - 1] \in T
      BY <1>5
    <3> QED BY <1>4, <3>1, <3>2
  <2> QED BY <1>5, <2>1 DEF IsExptreeLoop
<1>7. PICK f : f = CHOOSE h : IsExptreeLoop(h, tree)
  OBVIOUS
<1>8. IsExptreeLoop(f, tree)
  BY <1>6, <1>7
<1>9. ResolveExptree(tree) = f[n]
  BY <1>7 DEF ResolveExptree, IsExptreeLoop, LoopStart
<1>10. ASSUME NEW k \in 1 .. n
       PROVE  f[k] = ResolveOperand(f[k - 1], tree[k])
  <2>1. k \in 0 .. n /\ k # 0
    OBVIOUS
  <2> QED BY <1>8, <2>1 DEF IsExptreeLoop
<1>11. f[0] = LoopStart
  BY <1>8 DEF IsExptreeLoop
<1> QED BY <1>9, <1>10, <1>11

(* sql_resolve_exptree as a whole.  The trees it leaves are as long as they*)
(* were, and unless it fails every operand is bound.                       *)
LEMMA ExptreeIs ==
  ASSUME NEW ts \in Queries, ts = tables, NEW tree \in Trees, TreeSomewhere(ts, tree)
  PROVE  Resolving(ts, ResolveExptree(tree), tree, Len(tree))
<1>1. PICK n \in Nat : n = Len(tree)
  BY DEF Trees
<1>2. PICK f : /\ ResolveExptree(tree) = f[n]
               /\ f[0] = LoopStart
               /\ \A k \in 1 .. n : f[k] = ResolveOperand(f[k - 1], tree[k])
  BY <1>1, ExptreeLoop
<1> DEFINE S == {k \in 0 .. n : Resolving(ts, f[k], tree, k)}
<1>3. 0 \in S
  <2>1. <<>> \in Trees /\ Len(<<>>) = 0
    BY EmptySeq DEF Trees
  <2>2. LoopStart \in GoodStates(ts) /\ LoopStart.tree = <<>>
    BY <2>1 DEF GoodStates, LoopStates, GoodRec, LoopStart
  <2>3. Kept(ts, tree, 0, LoopStart)
    BY DEF Kept, LoopStart
  <2> QED BY <1>2, <2>1, <2>2, <2>3 DEF Resolving
<1>4. ASSUME NEW k \in 0 .. n - 1, k \in S
      PROVE  k + 1 \in S
  <2>1. PICK l \in 1 .. Len(tree) : l = k + 1 /\ l - 1 = k /\ l \in 0 .. n
    BY <1>1
  <2>2. f[l] = ResolveOperand(f[l - 1], tree[l])
    BY <1>1, <1>2, <2>1
  <2>3. Resolving(ts, f[l - 1], tree, l - 1)
    BY <1>4, <2>1
  <2>4. Resolving(ts, f[l], tree, l)
    BY <2>2, <2>3, ResolvingGoesOn
  <2> QED BY <2>1, <2>4
<1> HIDE DEF S
<1>5. n \in S
  BY <1>3, <1>4, InductionUpTo
<1> QED BY <1>1, <1>2, <1>5 DEF S

(* What the callers of sql_resolve_exptree need to know of it. *)
LEMMA ResolvedTree ==
  ASSUME NEW ts \in Queries, ts = tables, NEW tree \in Trees, TreeSomewhere(ts, tree),
         NEW r, r = ResolveExptree(tree)
  PROVE  /\ r.tree \in Trees /\ Len(r.tree) = Len(tree)
         /\ DOMAIN r.tree = DOMAIN tree
         /\ \A k \in DOMAIN tree : r.tree[k].name = tree[k].name
         /\ TreeSomewhere(ts, r.tree)
         /\ ~r.failed => TreeRight(ts, r.tree)
<1>1. Resolving(ts, r, tree, Len(tree))
  BY ExptreeIs
<1>2. PICK w \in Trees : w = r.tree
  BY <1>1 DEF Resolving, GoodStates, LoopStates
<1>3. Len(w) = Len(tree) /\ DOMAIN w = 1 .. Len(w) /\ DOMAIN tree = 1 .. Len(tree)
  BY <1>1, <1>2 DEF Resolving, Trees
<1>4. \A j \in 1 .. Len(tree) : Settled(ts, tree, j, w[j], r.failed)
  BY <1>1, <1>2 DEF Resolving
<1>5. \A k \in DOMAIN tree : w[k].name = tree[k].name /\ BoundSomewhere(ts, w[k])
  BY <1>3, <1>4 DEF Settled
<1>6. ~r.failed => TreeRight(ts, w)
  <2>1. ASSUME ~r.failed, NEW k \in DOMAIN w
        PROVE  BoundRight(ts, w, k, w[k])
    <3>1. BoundRight(ts, tree, k, w[k])
      BY <1>3, <1>4, <2>1 DEF Settled
    <3>2. PICK m \in Nat : LastJoined(ts, tree, k, m) /\ w[k].src = MeaningIn(ts, tree[m].name)
      BY <3>1 DEF BoundRight
    <3>3. \A l \in 1 .. k : w[l].name = tree[l].name
      <4>1. Len(w) \in Nat
        BY <1>2 DEF Trees
      <4> QED BY <1>3, <1>5, <4>1
    <3>4. LastJoined(ts, w, k, m) /\ w[m].name = tree[m].name
      BY <3>2, <3>3 DEF LastJoined
    <3> QED BY <3>1, <3>2, <3>4 DEF BoundRight
  <2> QED BY <2>1 DEF TreeRight
<1> QED BY <1>2, <1>3, <1>5, <1>6 DEF TreeSomewhere

-----------------------------------------------------------------------------
(* sql_resolve_exptree_against_table: the clones. *)

LEMMA BoundAtIs ==
  ASSUME NEW ts \in Queries, NEW o \in Opnd, NEW i \in DOMAIN ts, ConcernsIn(ts, o, i),
         NEW x, x = BoundAt(ts, o, i)
  PROVE  x \in Opnd /\ BoundSomewhere(ts, x)
<1>1. PICK t, c : t = ts[i] /\ c = o.name[2] /\ HasColumn(t, c) /\ t \in TableNames
  <2>1. HasColumn(ts[i], o.name[2])
    BY DEF ConcernsIn
  <2>2. ts[i] \in TableNames
    BY QueryTables
  <2> QED BY <2>1, <2>2
<1>2. c \in ColumnNames /\ i \in Nat
  <2>1. c \in ColumnNames
    BY <1>1, SchemaFacts
  <2>2. i \in Nat
    BY QueryTables
  <2> QED BY <2>1, <2>2
<1>3. PICK s : s = Source(i, t, c)
  OBVIOUS
<1>4. s \in Sources /\ s.table_index = i /\ s.table = t /\ s.column = c
  BY <1>1, <1>2, <1>3 DEF Sources, Source
<1>5. x = [o EXCEPT !.src = s]
  BY <1>1, <1>3 DEF BoundAt
<1>6. x \in Opnd /\ x.src = s
  BY <1>4, <1>5, Rebound
<1> QED BY <1>1, <1>4, <1>6 DEF BoundSomewhere, HasTable

LEMMA SoundTreeIs ==
  ASSUME NEW ts, NEW tree
  PROVE  tree \in SoundTrees(ts) <=> (tree \in Trees /\ TreeSomewhere(ts, tree))
<1> DEFINE S == {opnd \in Opnd : BoundSomewhere(ts, opnd)}
<1>1. ASSUME tree \in Seq(S)
      PROVE  tree \in Trees /\ TreeSomewhere(ts, tree)
  BY <1>1 DEF Trees, TreeSomewhere
<1>2. ASSUME tree \in Trees, TreeSomewhere(ts, tree)
      PROVE  tree \in Seq(S)
  BY <1>2 DEF Trees, TreeSomewhere
<1> QED BY <1>1, <1>2 DEF SoundTrees

LEMMA SoundAppended ==
  ASSUME NEW ts, NEW tree \in SoundTrees(ts), NEW x \in Opnd, BoundSomewhere(ts, x),
         NEW w, w = Append(tree, x)
  PROVE  w \in SoundTrees(ts)
<1> PICK S : S = {opnd \in Opnd : BoundSomewhere(ts, opnd)}
  OBVIOUS
<1>1. tree \in Seq(S) /\ x \in S
  BY DEF SoundTrees
<1>2. w \in Seq(S)
  BY <1>1, AppendProperties
<1> QED BY <1>2 DEF SoundTrees

LeafOf(ts, left, o, i) ==
  IF ConcernsIn(ts, o, i) THEN Append(left, BoundAt(ts, o, i)) ELSE left

LEMMA LeafSound ==
  ASSUME NEW ts \in Queries, NEW o \in Opnd, NEW i \in DOMAIN ts,
         NEW left \in SoundTrees(ts)
  PROVE  LeafOf(ts, left, o, i) \in SoundTrees(ts)
<1>1. CASE ~ConcernsIn(ts, o, i)
  BY <1>1 DEF LeafOf
<1>2. CASE ConcernsIn(ts, o, i)
  <2>1. PICK x : x = BoundAt(ts, o, i)
    OBVIOUS
  <2>2. x \in Opnd /\ BoundSomewhere(ts, x)
    BY <1>2, <2>1, BoundAtIs
  <2>3. PICK w : w = Append(left, x)
    OBVIOUS
  <2>4. w \in SoundTrees(ts)
    BY <2>2, <2>3, SoundAppended
  <2> QED BY <1>2, <2>1, <2>3, <2>4 DEF LeafOf
<1> QED BY <1>1, <1>2

IsCloneLoop(f, ts, tree, i) ==
  f = [k \in 0 .. Len(tree) |-> IF k = 0 THEN <<>> ELSE LeafOf(ts, f[k - 1], tree[k], i)]

LEMMA CloneMade ==
  ASSUME NEW ts \in Queries, ts = tables, NEW tree \in Trees, NEW i \in DOMAIN ts
  PROVE  IsClone(ts, tree, i, ResolveAgainstTable(tree, i))
<1>1. PICK n \in Nat : n = Len(tree)
  BY DEF Trees
<1> DEFINE T == SoundTrees(ts)
           step == [x \in (1 .. n) \X T |-> LeafOf(ts, x[2], tree[x[1]], i)]
<1>2. <<>> \in T
  BY EmptySeq DEF SoundTrees
<1>3. \A k \in 1 .. n : \A left \in T : LeafOf(ts, left, tree[k], i) \in T
  <2>1. \A k \in 1 .. n : tree[k] \in Opnd
    BY <1>1 DEF Trees
  <2> QED BY <2>1, LeafSound
<1> HIDE DEF T
<1>4. step \in [(1 .. n) \X T -> T]
  BY <1>3
<1>5. \A k \in 1 .. n : \A left \in T : step[<<k, left>>] = LeafOf(ts, left, tree[k], i)
  OBVIOUS
<1> HIDE DEF step
<1>6. PICK g \in [0 .. n -> T] : Loop(g, n, <<>>, step)
  BY <1>2, <1>4, LoopExists
<1>7. IsCloneLoop(g, ts, tree, i)
  <2>1. ASSUME NEW k \in 0 .. n
        PROVE  g[k] = IF k = 0 THEN <<>> ELSE LeafOf(ts, g[k - 1], tree[k], i)
    <3>1. g[k] = IF k = 0 THEN <<>> ELSE step[<<k, g[k - 1]>>]
      BY <1>6 DEF Loop
    <3>2. k # 0 => k \in 1 .. n /\ g[k - 1] \in T
      BY <1>6
    <3> QED BY <1>5, <3>1, <3>2
  <2> QED BY <1>1, <1>6, <2>1 DEF IsCloneLoop
<1>8. PICK f : f = CHOOSE h : IsCloneLoop(h, ts, tree, i)
  OBVIOUS
<1>9. IsCloneLoop(f, ts, tree, i)
  BY <1>7, <1>8
<1>10. ResolveAgainstTable(tree, i) = f[n]
  BY <1>1, <1>8 DEF ResolveAgainstTable, IsCloneLoop, LeafOf, ConcernsIn, InFull, BoundAt, Concerns, NamesInFull
<1>11. f[0] = <<>>
  BY <1>1, <1>9 DEF IsCloneLoop
<1>12. ASSUME NEW k \in 1 .. n
       PROVE  f[k] = LeafOf(ts, f[k - 1], tree[k], i)
  <2>1. k \in 0 .. n /\ k # 0
    OBVIOUS
  <2> QED BY <1>1, <1>9, <2>1 DEF IsCloneLoop
<1>13. \A k \in 0 .. n : f[k] \in T
  <2> DEFINE S == {k \in 0 .. n : f[k] \in T}
  <2>1. 0 \in S
    BY <1>2, <1>11
  <2>2. ASSUME NEW k \in 0 .. n - 1, k \in S
        PROVE  k + 1 \in S
    <3>1. PICK l \in 1 .. n : l = k + 1 /\ l - 1 = k /\ l \in 0 .. n
      BY <1>1
    <3>2. f[l] = LeafOf(ts, f[l - 1], tree[l], i)
      BY <1>12
    <3> QED BY <1>3, <2>2, <3>1, <3>2
  <2> HIDE DEF S
  <2>3. \A k \in 0 .. n : k \in S
    BY <2>1, <2>2, InductionUpTo
  <2> QED BY <2>3 DEF S
<1>14. f \in [0 .. n -> T]
  <2>1. f = [k \in 0 .. n |-> f[k]]
    BY <1>1, <1>9 DEF IsCloneLoop
  <2> QED BY <1>13, <2>1
<1>15. Leaves(f, ts, tree, i)
  BY <1>1, <1>11, <1>12, <1>14 DEF Leaves, LeafOf, T
<1> QED BY <1>1, <1>10, <1>15 DEF IsClone

LEMMA CloneSound ==
  ASSUME NEW ts, NEW tree \in Trees, NEW i, NEW clone, IsClone(ts, tree, i, clone)
  PROVE  clone \in SoundTrees(ts)
<1>1. PICK left : Leaves(left, ts, tree, i) /\ clone = left[Len(tree)]
  BY DEF IsClone
<1>2. Len(tree) \in 0 .. Len(tree)
  BY DEF Trees
<1> QED BY <1>1, <1>2 DEF Leaves

-----------------------------------------------------------------------------
(* The clones and the clause itself: an operand that names a table in full *)
(* is joined, so the other function has found its column, too.             *)

LEMMA BoundIsSource ==
  ASSUME NEW ts \in Queries, NEW tree, NEW k, NEW x, BoundRight(ts, tree, k, x)
  PROVE  x.src \in Sources
<1>1. PICK i, t, c : i = x.src.table_index /\ t = x.src.table /\ c = x.src.column
  OBVIOUS
<1>2. i \in DOMAIN ts /\ t = ts[i] /\ HasColumn(t, c)
  BY <1>1 DEF BoundRight, HasTable
<1>3. i \in Nat /\ t \in TableNames /\ c \in ColumnNames
  <2>1. i \in Nat /\ t \in TableNames
    BY <1>2, QueryTables
  <2> QED BY <1>2, <2>1, SchemaFacts
<1>4. PICK m \in Nat : x.src = MeaningIn(ts, tree[m].name)
  BY DEF BoundRight
<1>5. x.src = [table_index |-> i, table |-> t, column |-> c]
  BY <1>1, <1>4 DEF MeaningIn, Source
<1> QED BY <1>3, <1>5 DEF Sources

LEMMA HeldIs ==
  ASSUME NEW ts \in Queries, NEW i \in DOMAIN ts, NEW x \in Opnd, x.src \in Sources
  PROVE  /\ HeldAgainst(x, i) \in Opnd
         /\ HeldAgainst(x, i) = [x EXCEPT !.src = Source(i, x.src.table, x.src.column)]
<1>1. i \in Nat
  BY QueryTables
<1>2. PICK q \in Sources : q = x.src
  OBVIOUS
<1>3. PICK s : s = Source(i, q.table, q.column)
  OBVIOUS
<1>4. s \in Sources /\ s = [q EXCEPT !.table_index = i]
  BY <1>1, <1>3 DEF Sources, Source
<1>5. HeldAgainst(x, i) = [x EXCEPT !.src = s]
  BY <1>2, <1>4 DEF HeldAgainst, Opnd
<1>6. [x EXCEPT !.src = s] \in Opnd
  BY <1>4, Rebound
<1> QED BY <1>2, <1>3, <1>5, <1>6

LEMMA ConcernsAsBound ==
  ASSUME NEW ts \in Queries, NEW i \in DOMAIN ts, NEW o \in Opnd, NEW x \in Opnd,
         NEW tree, NEW k \in Nat, k > 0,
         x = tree[k], x.name = o.name, BoundRight(ts, tree, k, x)
  PROVE  /\ ConcernsIn(ts, o, i) <=> InFull(ts, x, i)
         /\ ConcernsIn(ts, o, i) => BoundAt(ts, o, i) = HeldAgainst(x, i)
<1>1. PICK t, c : t = o.name[1] /\ c = o.name[2] /\ t = x.name[1] /\ c = x.name[2]
  OBVIOUS
<1>2. InFull(ts, o, i) <=> InFull(ts, x, i)
  BY <1>1 DEF InFull
<1> SUFFICES ASSUME InFull(ts, x, i)
             PROVE  ConcernsIn(ts, o, i) /\ BoundAt(ts, o, i) = HeldAgainst(x, i)
  BY <1>2 DEF ConcernsIn
<1>3. ts[i] \in TableNames
  BY QueryTables
<1>4. JoinedIn(ts, t)
  <2>1. CASE t = None
    BY <2>1 DEF JoinedIn
  <2>2. CASE t # None
    <3>1. t = ts[i]
      BY <1>1, <2>2 DEF InFull
    <3>2. InCatalog(t) /\ CatalogTable(t) = t
      BY <1>3, <3>1, CatalogIs
    <3> QED BY <3>1, <3>2 DEF JoinedIn, Range
  <2> QED BY <2>1, <2>2
<1>5. PICK p : p = PlaceIn(ts, t)
  OBVIOUS
<1>6. p \in DOMAIN ts /\ ts[p] = ts[i]
  <2>1. CASE t = None
    <3>1. p = 1 /\ i = 1
      BY <1>1, <1>5, <2>1 DEF PlaceIn, InFull
    <3> QED BY <3>1
  <2>2. CASE t # None
    <3>1. t = ts[i]
      BY <1>1, <2>2 DEF InFull
    <3>2. CatalogTable(t) = t
      BY <1>3, <3>1, CatalogIs
    <3>3. p \in DOMAIN ts /\ ts[p] = CatalogTable(t)
      BY <1>4, <1>5, <2>2, PlaceIs
    <3> QED BY <3>1, <3>2, <3>3
  <2> QED BY <2>1, <2>2
<1>7. x.src = Source(p, ts[i], c)
  <2>1. PICK m \in Nat : LastJoined(ts, tree, k, m) /\ x.src = MeaningIn(ts, tree[m].name)
    BY DEF BoundRight
  <2>2. m = k
    BY <1>1, <1>4, <2>1 DEF LastJoined
  <2>3. x.src = Source(p, ts[p], c)
    BY <1>1, <1>5, <2>1, <2>2 DEF MeaningIn
  <2> QED BY <1>6, <2>3
<1>8. x.src.table = ts[i] /\ x.src.column = c
  BY <1>7 DEF Source
<1>9. HasColumn(ts[i], c)
  BY <1>8 DEF BoundRight, HasTable
<1>10. ConcernsIn(ts, o, i)
  BY <1>1, <1>2, <1>9 DEF ConcernsIn
<1>11. BoundAt(ts, o, i) = HeldAgainst(x, i)
  <2>1. x.src \in Sources
    BY BoundIsSource
  <2>2. HeldAgainst(x, i) = [x EXCEPT !.src = Source(i, ts[i], c)]
    BY <1>8, <2>1, HeldIs
  <2>3. PICK s : s = Source(i, ts[i], c)
    OBVIOUS
  <2>4. [x EXCEPT !.src = s] = [o EXCEPT !.src = s]
    BY DEF Opnd
  <2> QED BY <1>1, <2>2, <2>3, <2>4 DEF BoundAt
<1> QED BY <1>10, <1>11

LEMMA MineLoop ==
  ASSUME NEW ts \in Queries, NEW tree \in Trees, TreeRight(ts, tree),
         NEW n \in Nat, n = Len(tree), NEW i \in DOMAIN ts
  PROVE  \E f : /\ MineIn(ts, tree, i) = f[n]
                /\ f[0] = <<>>
                /\ \A k \in 1 .. n : f[k] = MineOf(ts, f[k - 1], tree[k], i)
<1> DEFINE step == [x \in (1 .. n) \X Trees |-> MineOf(ts, x[2], tree[x[1]], i)]
<1>1. <<>> \in Trees
  BY EmptySeq DEF Trees
<1>2. \A k \in 1 .. n : \A mine \in Trees : MineOf(ts, mine, tree[k], i) \in Trees
  <2>1. ASSUME NEW k \in 1 .. n, NEW mine \in Trees
        PROVE  MineOf(ts, mine, tree[k], i) \in Trees
    <3>1. PICK x \in Opnd : x = tree[k]
      BY DEF Trees
    <3>2. BoundRight(ts, tree, k, x)
      <4>1. k \in DOMAIN tree
        BY DEF Trees
      <4> QED BY <3>1, <4>1 DEF TreeRight
    <3>3. x.src \in Sources
      BY <3>2, BoundIsSource
    <3>4. PICK y \in Opnd : y = HeldAgainst(x, i)
      BY <3>3, HeldIs
    <3>5. Append(mine, y) \in Trees
      BY Appended
    <3> QED BY <3>1, <3>4, <3>5 DEF MineOf
  <2> QED BY <2>1
<1>3. step \in [(1 .. n) \X Trees -> Trees]
  BY <1>2
<1>4. \A k \in 1 .. n : \A mine \in Trees : step[<<k, mine>>] = MineOf(ts, mine, tree[k], i)
  OBVIOUS
<1> HIDE DEF step
<1>5. PICK g \in [0 .. n -> Trees] : Loop(g, n, <<>>, step)
  BY <1>1, <1>3, LoopExists
<1>6. IsMineLoop(g, ts, tree, i)
  <2>1. ASSUME NEW k \in 0 .. n
        PROVE  g[k] = IF k = 0 THEN <<>> ELSE MineOf(ts, g[k - 1], tree[k], i)
    <3>1. g[k] = IF k = 0 THEN <<>> ELSE step[<<k, g[k - 1]>>]
      BY <1>5 DEF Loop
    <3>2. k # 0 => k \in 1 .. n /\ g[k - 1] \in Trees
      BY <1>5
    <3> QED BY <1>4, <3>1, <3>2
  <2> QED BY <1>5, <2>1 DEF IsMineLoop
<1>7. PICK f : f = CHOOSE h : IsMineLoop(h, ts, tree, i)
  OBVIOUS
<1>8. IsMineLoop(f, ts, tree, i)
  BY <1>6, <1>7
<1>9. MineIn(ts, tree, i) = f[n]
  BY <1>7 DEF MineIn
<1>10. ASSUME NEW k \in 1 .. n
       PROVE  f[k] = MineOf(ts, f[k - 1], tree[k], i)
  <2>1. k \in 0 .. n /\ k # 0
    OBVIOUS
  <2> QED BY <1>8, <2>1 DEF IsMineLoop
<1>11. f[0] = <<>>
  BY <1>8 DEF IsMineLoop
<1> QED BY <1>9, <1>10, <1>11

(* Tree w is what became of tree when all of it was bound. *)
Renewed(ts, tree, w) ==
  /\ w \in Trees /\ Len(w) = Len(tree)
  /\ \A k \in DOMAIN tree : w[k].name = tree[k].name
  /\ TreeRight(ts, w)

LEMMA CloneAgrees ==
  ASSUME NEW ts \in Queries, NEW i \in DOMAIN ts,
         NEW tree \in Trees, NEW w, Renewed(ts, tree, w),
         NEW clone, IsClone(ts, tree, i, clone)
  PROVE  clone = MineIn(ts, w, i)
<1>1. PICK n \in Nat : /\ n = Len(tree) /\ n = Len(w)
                       /\ DOMAIN tree = 1 .. n /\ DOMAIN w = 1 .. n
  BY DEF Renewed, Trees
<1>2. PICK left : Leaves(left, ts, tree, i) /\ clone = left[n]
  BY <1>1 DEF IsClone
<1>3. w \in Trees /\ TreeRight(ts, w)
  BY DEF Renewed
<1>4. PICK f : /\ MineIn(ts, w, i) = f[n]
               /\ f[0] = <<>>
               /\ \A k \in 1 .. n : f[k] = MineOf(ts, f[k - 1], w[k], i)
  BY <1>1, <1>3, MineLoop
<1> DEFINE S == {k \in 0 .. n : left[k] = f[k]}
<1>5. 0 \in S
  BY <1>2, <1>4 DEF Leaves
<1>6. ASSUME NEW k \in 0 .. n - 1, k \in S
      PROVE  k + 1 \in S
  <2>1. PICK l \in 1 .. n : l = k + 1 /\ l - 1 = k /\ l \in 0 .. n
    BY <1>1
  <2>2. PICK o, x : o = tree[l] /\ x = w[l]
    OBVIOUS
  <2>3. o \in Opnd /\ x \in Opnd
    BY <1>1, <1>3, <2>2 DEF Trees
  <2>4. x.name = o.name /\ BoundRight(ts, w, l, x)
    BY <1>1, <1>3, <2>2 DEF Renewed, TreeRight
  <2>5. /\ ConcernsIn(ts, o, i) <=> InFull(ts, x, i)
        /\ ConcernsIn(ts, o, i) => BoundAt(ts, o, i) = HeldAgainst(x, i)
    <3>1. l \in Nat /\ l > 0
      BY <1>1
    <3> QED BY <2>2, <2>3, <2>4, <3>1, ConcernsAsBound
  <2>6. left[l] = LeafOf(ts, left[l - 1], o, i)
    BY <1>1, <1>2, <2>2 DEF Leaves, LeafOf
  <2>7. f[l] = MineOf(ts, f[l - 1], x, i)
    BY <1>4, <2>2
  <2>8. left[l - 1] = f[l - 1]
    BY <1>6, <2>1
  <2>9. left[l] = f[l]
    <3>1. CASE InFull(ts, x, i)
      BY <2>5, <2>6, <2>7, <2>8, <3>1 DEF LeafOf, MineOf
    <3>2. CASE ~InFull(ts, x, i)
      BY <2>5, <2>6, <2>7, <2>8, <3>2 DEF LeafOf, MineOf
    <3> QED BY <3>1, <3>2
  <2> QED BY <2>1, <2>9
<1> HIDE DEF S
<1>7. n \in S
  <2>1. \A k \in 0 .. n : k \in S
    BY <1>5, <1>6, InductionUpTo
  <2> QED BY <2>1
<1> QED BY <1>2, <1>4, <1>7 DEF S

-----------------------------------------------------------------------------
(* The trees and columns that the actions put together. *)

(* An operand takes the place of another tree's operands. *)
LEMMA Spliced ==
  ASSUME NEW ts, NEW a \in SoundTrees(ts), NEW b \in SoundTrees(ts), NEW k \in DOMAIN a,
         NEW w, w = SubSeq(a, 1, k - 1) \o b \o SubSeq(a, k + 1, Len(a))
  PROVE  w \in SoundTrees(ts)
<1> PICK S : S = {opnd \in Opnd : BoundSomewhere(ts, opnd)}
  OBVIOUS
<1>1. a \in Seq(S) /\ b \in Seq(S)
  BY DEF SoundTrees
<1>2. PICK n \in Nat : n = Len(a) /\ k \in 1 .. n
  <2>1. Len(a) \in Nat /\ DOMAIN a = 1 .. Len(a)
    BY <1>1, LenProperties
  <2> QED BY <2>1
<1>3. \A i \in 1 .. n : a[i] \in S
  BY <1>1, <1>2
<1>4. PICK x \in Seq(S) : x = SubSeq(a, 1, k - 1)
  <2>1. PICK m \in Int : m = k - 1
    BY <1>2
  <2>2. \A i \in 1 .. m : a[i] \in S
    BY <1>2, <1>3, <2>1
  <2>3. SubSeq(a, 1, m) \in Seq(S)
    BY <2>2, SubSeqProperties
  <2> QED BY <2>1, <2>3
<1>5. PICK y \in Seq(S) : y = SubSeq(a, k + 1, Len(a))
  <2>1. PICK m \in Int : m = k + 1
    BY <1>2
  <2>2. \A i \in m .. n : a[i] \in S
    BY <1>2, <1>3, <2>1
  <2>3. SubSeq(a, m, n) \in Seq(S)
    BY <2>2, SubSeqProperties
  <2> QED BY <1>2, <2>1, <2>3
<1>6. (x \o b) \o y \in Seq(S)
  BY <1>1, ConcatProperties
<1> QED BY <1>4, <1>5, <1>6 DEF SoundTrees

LEMMA TreeIs ==
  ASSUME NEW ts, NEW names \in Seq(Names)
  PROVE  Tree(names) \in SoundTrees(ts) /\ Len(Tree(names)) = Len(names)
<1> DEFINE S == {opnd \in Opnd : BoundSomewhere(ts, opnd)}
<1>1. ASSUME NEW k \in 1 .. Len(names)
      PROVE  Operand(names[k]) \in S
  <2>1. PICK o : o = Operand(names[k])
    OBVIOUS
  <2>2. o \in Opnd /\ o.src = NULL
    BY <2>1 DEF Operand, Opnd
  <2> QED BY <2>1, <2>2 DEF BoundSomewhere
<1>2. Tree(names) = [k \in 1 .. Len(names) |-> Operand(names[k])]
  BY DEF Tree
<1> HIDE DEF S
<1>3. Tree(names) \in Seq(S) /\ Len(Tree(names)) = Len(names)
  BY <1>1, <1>2
<1> QED BY <1>3 DEF SoundTrees, S

LEMMA ParsedIs ==
  ASSUME NEW ts, NEW list \in SelectLists, NEW k \in DOMAIN list
  PROVE  ParsedColumn(list[k]) \in SoundCols(ts)
<1>1. PICK c : c = list[k]
  OBVIOUS
<1>2. /\ c.tree \in Seq(Names) /\ c.lone \in BOOLEAN /\ c.alias \in Names \cup {NoAlias}
      /\ c.lone => Len(c.tree) = 1
  <2>1. PICK S : S = [tree : Seq(Names), lone : BOOLEAN, alias : Names \cup {NoAlias}]
    OBVIOUS
  <2>2. list \in Seq(S) /\ (c.lone => Len(c.tree) = 1)
    BY <1>1, <2>1, PlanAssumption
  <2>3. c \in S
    BY <1>1, <2>2
  <2> QED BY <2>1, <2>2, <2>3
<1>3. PICK t \in SoundTrees(ts) : t = Tree(c.tree) /\ Len(t) = Len(c.tree)
  <2>1. PICK names \in Seq(Names) : names = c.tree
    BY <1>2
  <2>2. Tree(names) \in SoundTrees(ts) /\ Len(Tree(names)) = Len(names)
    BY TreeIs
  <2> QED BY <2>1, <2>2
<1>4. c.lone => t # <<>>
  <2>1. ASSUME c.lone
        PROVE  Len(t) = 1
    BY <1>2, <1>3, <2>1
  <2> QED BY <2>1, EmptySeq
<1>5. ParsedColumn(c) = [tree |-> t, lone |-> c.lone, alias_name |-> c.alias,
                         alias_provided_by_user |-> c.alias # NoAlias]
  BY <1>3 DEF ParsedColumn
<1> QED BY <1>1, <1>2, <1>4, <1>5 DEF SoundCols

LEMMA ListIs ==
  ASSUME NEW ts, NEW list \in SelectLists
  PROVE  [k \in DOMAIN list |-> ParsedColumn(list[k])] \in Seq(SoundCols(ts))
<1>1. DOMAIN list = 1 .. Len(list) /\ Len(list) \in Nat
  BY PlanAssumption
<1>2. \A k \in 1 .. Len(list) : ParsedColumn(list[k]) \in SoundCols(ts)
  BY <1>1, ParsedIs
<1> QED BY <1>1, <1>2

LEMMA ColumnsOfIs ==
  ASSUME NEW ts, NEW t \in TableNames
  PROVE  ColumnsOf(t) \in Seq(SoundCols(ts))
<1>1. Schemas[t] \in Seq(ColumnNames)
  BY PlanAssumption DEF TableNames
<1>2. PICK n \in Nat : n = Len(Schemas[t]) /\ DOMAIN Schemas[t] = 1 .. n
  BY <1>1
<1> DEFINE col(k) == [tree |-> Tree(<<ColumnName(t, Schemas[t][k])>>), lone |-> TRUE,
                      alias_name |-> ColumnName(t, Schemas[t][k]),
                      alias_provided_by_user |-> FALSE]
<1>3. ASSUME NEW k \in 1 .. n
      PROVE  col(k) \in SoundCols(ts)
  <2>1. PICK name : name = ColumnName(t, Schemas[t][k])
    OBVIOUS
  <2>2. HasColumn(t, Schemas[t][k])
    BY <1>2 DEF HasColumn, Range
  <2>3. name \in Names
    BY <2>1, <2>2, SchemaFacts DEF ColumnName
  <2>4. <<name>> \in Seq(Names) /\ Len(<<name>>) = 1
    BY <2>3
  <2>5. PICK w \in SoundTrees(ts) : w = Tree(<<name>>) /\ Len(w) = 1
    BY <2>4, TreeIs
  <2>6. w # <<>>
    BY <2>5, EmptySeq
  <2>7. col(k) = [tree |-> w, lone |-> TRUE, alias_name |-> name, alias_provided_by_user |-> FALSE]
    BY <2>1, <2>5
  <2> QED BY <2>3, <2>6, <2>7 DEF SoundCols
<1>4. ColumnsOf(t) = [k \in 1 .. n |-> col(k)]
  BY <1>2 DEF ColumnsOf
<1> HIDE DEF col
<1> QED BY <1>3, <1>4

(* Many sequences become one. *)
LEMMA FlatIs ==
  ASSUME NEW S, NEW seqs \in Seq(Seq(S))
  PROVE  FlattenSeq(seqs) \in Seq(S)
<1>1. PICK n \in Nat : n = Len(seqs)
  OBVIOUS
<1>2. CASE n = 0
  BY <1>1, <1>2, EmptySeq DEF FlattenSeq
<1>3. CASE n # 0
  <2> DEFINE T == Seq(S)
             step == [x \in (1 .. n) \X T |-> x[2] \o seqs[x[1]]]
             IsFlat(h) == h = [i \in 1 .. n |-> IF i = 1 THEN seqs[i] ELSE h[i - 1] \o seqs[i]]
  <2>1. <<>> \in T
    BY EmptySeq
  <2>2. \A i \in 1 .. n : seqs[i] \in T
    BY <1>1
  <2>3. \A i \in 1 .. n : \A s \in T : s \o seqs[i] \in T
    BY <2>2, ConcatProperties
  <2>4. step \in [(1 .. n) \X T -> T] /\ \A i \in 1 .. n : \A s \in T : step[<<i, s>>] = s \o seqs[i]
    <3> HIDE DEF T
    <3> QED BY <2>3
  <2>5. PICK g \in [0 .. n -> T] : Loop(g, n, <<>>, step)
    <3> HIDE DEF T, step
    <3> QED BY <2>1, <2>4, LoopExists
  <2>6. ASSUME NEW i \in 1 .. n
        PROVE  g[i] = g[i - 1] \o seqs[i] /\ i - 1 \in 0 .. n
    <3>1. i \in 0 .. n /\ i # 0 /\ i - 1 \in 0 .. n
      OBVIOUS
    <3>2. g[i] = step[<<i, g[i - 1]>>]
      BY <2>5, <3>1 DEF Loop
    <3> HIDE DEF T, step
    <3> QED BY <2>4, <2>5, <3>1, <3>2
  <2>7. g[1] = seqs[1]
    <3>1. g[0] = <<>>
      BY <1>3, <2>5 DEF Loop
    <3>2. PICK l \in 1 .. n : l = 1 /\ l - 1 = 0
      BY <1>3
    <3>3. g[l] = g[l - 1] \o seqs[l] /\ seqs[l] \in Seq(S)
      BY <2>2, <2>6
    <3>4. g[1] = <<>> \o seqs[1] /\ seqs[1] \in Seq(S)
      BY <3>1, <3>2, <3>3
    <3> QED BY <3>4, ConcatEmptySeq
  <2> DEFINE h == [i \in 1 .. n |-> g[i]]
  <2>8. IsFlat(h)
    <3>1. ASSUME NEW i \in 1 .. n
          PROVE  h[i] = IF i = 1 THEN seqs[i] ELSE h[i - 1] \o seqs[i]
      <4>1. i # 1 => i - 1 \in 1 .. n
        OBVIOUS
      <4> QED BY <2>6, <2>7, <4>1
    <3> HIDE DEF T
    <3> QED BY <3>1
  <2> HIDE DEF IsFlat, h, step, T
  <2>9. PICK f : f = CHOOSE x : IsFlat(x)
    OBVIOUS
  <2>10. IsFlat(f)
    BY <2>8, <2>9
  <2>11. FlattenSeq(seqs) = f[n]
    BY <1>1, <1>3, <2>9 DEF FlattenSeq, IsFlat
  <2>12. PICK m \in Nat : m = n - 1
    BY <1>3
  <2> DEFINE P == {i \in 0 .. m : f[i + 1] \in T}
  <2>13. 0 \in P
    <3>1. PICK l \in 1 .. n : l = 1 /\ l = 0 + 1
      BY <1>3
    <3>2. f[l] = seqs[l]
      BY <2>10, <3>1 DEF IsFlat
    <3>3. f[l] \in T
      BY <2>2, <3>2
    <3> QED BY <2>12, <3>1, <3>3
  <2>14. ASSUME NEW i \in 0 .. m - 1, i \in P
         PROVE  i + 1 \in P
    <3>1. PICK l \in 1 .. n : l = (i + 1) + 1 /\ l # 1 /\ l - 1 = i + 1 /\ i + 1 \in 0 .. m
      BY <2>12
    <3>2. f[l] = f[l - 1] \o seqs[l]
      BY <2>10, <3>1 DEF IsFlat
    <3>3. f[l - 1] \in T
      BY <2>14, <3>1
    <3>4. f[l] \in T
      BY <2>3, <3>2, <3>3
    <3> QED BY <3>1, <3>4
  <2> HIDE DEF P
  <2>15. \A i \in 0 .. m : i \in P
    BY <2>13, <2>14, InductionUpTo
  <2>16. f[n] \in T
    <3>1. n = m + 1 /\ m \in 0 .. m
      BY <2>12
    <3> QED BY <2>15, <3>1 DEF P
  <2> QED BY <2>11, <2>16 DEF T
<1> QED BY <1>2, <1>3

LEMMA AsteriskIs ==
  ASSUME NEW ts \in Queries, ts = tables
  PROVE  FlattenSeq([i \in DOMAIN tables |-> ColumnsOf(tables[i])]) \in Seq(SoundCols(ts))
<1>1. DOMAIN ts = 1 .. Len(ts) /\ Len(ts) \in Nat /\ ts \in Seq(TableNames)
  BY QueryTables
<1>2. \A i \in 1 .. Len(ts) : ColumnsOf(ts[i]) \in Seq(SoundCols(ts))
  BY <1>1, ColumnsOfIs
<1>3. PICK seqs : seqs = [i \in 1 .. Len(ts) |-> ColumnsOf(ts[i])]
  OBVIOUS
<1>4. seqs \in Seq(Seq(SoundCols(ts)))
  BY <1>1, <1>2, <1>3
<1>5. FlattenSeq(seqs) \in Seq(SoundCols(ts))
  BY <1>4, FlatIs
<1> QED BY <1>1, <1>3, <1>5

-----------------------------------------------------------------------------
(* Each step keeps the invariant. *)

LEMMA InitSound == Init => IInv
<1> SUFFICES ASSUME Init PROVE IInv
  OBVIOUS
<1>1. PICK ts \in Queries : ts = tables /\ Len(ts) \in Nat
  <2>1. PICK from \in TableLists : tables = [i \in DOMAIN from |-> CatalogTable(from[i])]
    BY DEF Init
  <2>2. PICK S : S = {n \in DOMAIN Prefix : InCatalog(n)}
    OBVIOUS
  <2>3. from \in Seq(S) /\ from # <<>>
    BY <2>2, PlanAssumption
  <2>4. PICK n \in Nat : n = Len(from) /\ n # 0 /\ DOMAIN from = 1 .. n
    BY <2>3, EmptySeq
  <2>5. \A i \in 1 .. n : CatalogTable(from[i]) \in TableNames
    BY <2>2, <2>3, <2>4, CatalogIs
  <2>6. tables = [i \in 1 .. n |-> CatalogTable(from[i])]
    BY <2>1, <2>4
  <2>7. tables \in Seq(TableNames) /\ Len(tables) = n
    BY <2>5, <2>6
  <2> QED BY <2>4, <2>7, EmptySeq DEF Queries
<1>2. PICK list \in SelectLists : cols = [k \in DOMAIN list |-> ParsedColumn(list[k])]
  BY DEF Init
<1>3. cols \in Seq(SoundCols(ts))
  BY <1>2, ListIs
<1>4. where \in {NULL} \cup SoundTrees(ts)
  <2>1. PICK clause \in WhereClauses : where = IF clause = NULL THEN NULL ELSE Tree(clause)
    BY DEF Init
  <2>2. clause # NULL => clause \in Seq(Names)
    BY PlanAssumption
  <2> QED BY <2>1, <2>2, TreeIs
<1>5. per_table = <<>> /\ pc = "asterisk" /\ resolved = 0
  BY DEF Init
<1>6. per_table \in Seq(SoundTrees(ts)) /\ Len(per_table) = 0 /\ Len(cols) \in Nat
  BY <1>3, <1>5, EmptySeq
<1>7. Typed
  BY <1>1, <1>3, <1>4, <1>5, <1>6 DEF Typed, Phases
<1>8. Phased
  BY <1>1, <1>5, <1>6 DEF Phased
<1> QED BY <1>5, <1>7, <1>8 DEF IInv, Right, ClonesRight

LEMMA AsteriskKeeps ==
  ASSUME IInv, ResolveAsterisk
  PROVE  IInv'
<1>1. PICK ts \in Queries : ts = tables /\ ts = tables'
  BY DEF IInv, Typed, ResolveAsterisk
<1>2. /\ pc = "asterisk" /\ pc' = (IF HasWhere THEN "alias" ELSE "select")
      /\ where' = where /\ per_table' = per_table /\ resolved' = resolved
  BY DEF ResolveAsterisk
<1>3. resolved = 0 /\ per_table = <<>> /\ Len(per_table) <= Len(tables)
  BY <1>2 DEF IInv, Phased
<1>4. cols' \in Seq(SoundCols(ts))
  <2>1. CASE cols # <<>>
    BY <1>1, <2>1 DEF IInv, Typed, ResolveAsterisk
  <2>2. CASE cols = <<>>
    <3>1. cols' = FlattenSeq([i \in DOMAIN tables |-> ColumnsOf(tables[i])])
      BY <2>2 DEF ResolveAsterisk
    <3> QED BY <1>1, <3>1, AsteriskIs
  <2> QED BY <2>1, <2>2
<1>5. Len(cols') \in Nat
  BY <1>4
<1>6. Typed'
  BY <1>1, <1>2, <1>3, <1>4, <1>5 DEF IInv, Typed, Phases
<1>7. Phased'
  <2>1. HasWhere => where' \in SoundTrees(ts)
    BY <1>1, <1>2 DEF IInv, Typed, HasWhere
  <2> QED BY <1>1, <1>2, <1>3, <2>1 DEF Phased
<1>8. Right' /\ ClonesRight'
  BY <1>2, <1>3 DEF Right, ClonesRight, HasWhere
<1> QED BY <1>6, <1>7, <1>8 DEF IInv

LEMMA AliasKeeps ==
  ASSUME IInv, ReplaceAlias
  PROVE  IInv'
<1>1. PICK ts \in Queries : ts = tables /\ ts = tables'
  BY DEF IInv, Typed, ReplaceAlias
<1>2. /\ pc = "alias" /\ pc' = pc /\ Aliased # {}
      /\ cols' = cols /\ per_table' = per_table /\ resolved' = resolved
  BY DEF ReplaceAlias
<1>3. PICK tree \in SoundTrees(ts) : tree = where
  BY <1>1, <1>2 DEF IInv, Phased
<1>4. PICK k : k = Least(Aliased)
  OBVIOUS
<1>5. k \in DOMAIN tree /\ Aliases(tree[k]) # {}
  <2>1. DOMAIN tree \in SUBSET Nat
    BY DEF SoundTrees
  <2>2. Aliased \in SUBSET Nat
    BY <1>3, <2>1 DEF Aliased
  <2>3. k \in Aliased
    BY <1>2, <1>4, <2>2, LeastIs
  <2> QED BY <1>3, <2>3 DEF Aliased
<1>6. PICK j : j = Least(Aliases(tree[k]))
  OBVIOUS
<1>7. cols \in Seq(SoundCols(ts))
  BY <1>1 DEF IInv, Typed
<1>8. PICK b \in SoundTrees(ts) : b = cols[j].tree
  <2>1. Aliases(tree[k]) \in SUBSET Nat
    BY <1>7 DEF Aliases
  <2>2. j \in Aliases(tree[k])
    BY <1>5, <1>6, <2>1, LeastIs
  <2>3. cols[j] \in SoundCols(ts)
    BY <1>7, <2>2 DEF Aliases
  <2> QED BY <2>3 DEF SoundCols
<1>9. where' = SubSeq(tree, 1, k - 1) \o b \o SubSeq(tree, k + 1, Len(tree))
  BY <1>3, <1>4, <1>6, <1>8 DEF ReplaceAlias
<1>10. PICK w : w = where'
  OBVIOUS
<1>11. w \in SoundTrees(ts)
  BY <1>5, <1>9, <1>10, Spliced
<1>12. Typed'
  BY <1>1, <1>2, <1>10, <1>11 DEF IInv, Typed
<1>13. Phased'
  BY <1>1, <1>2, <1>10, <1>11 DEF IInv, Phased
<1>14. Right' /\ ClonesRight'
  BY <1>2 DEF Right, ClonesRight
<1> QED BY <1>12, <1>13, <1>14 DEF IInv

LEMMA AliasesDoneKeep ==
  ASSUME IInv, AliasesReplaced
  PROVE  IInv'
<1>1. PICK ts \in Queries : ts = tables /\ ts = tables'
  BY DEF IInv, Typed, AliasesReplaced
<1>2. /\ pc = "alias" /\ pc' = "per_table" /\ where' = where
      /\ cols' = cols /\ per_table' = per_table /\ resolved' = resolved
  BY DEF AliasesReplaced
<1>3. per_table = <<>> /\ Len(per_table) = 0 /\ DOMAIN per_table = {}
  BY <1>2, EmptySeq DEF IInv, Phased
<1>4. Len(ts) \in Nat /\ Len(ts) > 0
  BY QueryTables
<1>5. Typed' /\ Phased'
  BY <1>1, <1>2, <1>3, <1>4 DEF IInv, Typed, Phased, Phases
<1>6. Right' /\ ClonesRight'
  BY <1>2, <1>3 DEF Right, ClonesRight, ClonesMade
<1> QED BY <1>5, <1>6 DEF IInv

LEMMA PerTableKeeps ==
  ASSUME IInv, ResolvePerTable
  PROVE  IInv'
<1>1. PICK ts \in Queries : ts = tables /\ ts = tables'
  BY DEF IInv, Typed, ResolvePerTable
<1>2. /\ pc = "per_table" /\ where' = where /\ cols' = cols /\ resolved' = resolved
      /\ pc' = IF Len(per_table') = Len(tables) THEN "global" ELSE pc
      /\ per_table' = Append(per_table, ResolveAgainstTable(where, Len(per_table) + 1))
  BY DEF ResolvePerTable
<1>3. PICK tree \in SoundTrees(ts) : tree = where
  BY <1>1, <1>2 DEF IInv, Phased
<1>4. PICK old : old = per_table /\ old \in Seq(SoundTrees(ts)) /\ Len(old) < Len(ts)
  BY <1>1, <1>2 DEF IInv, Typed, Phased
<1>5. PICK m \in Nat : m = Len(old)
  BY <1>4
<1>6. PICK i : i = m + 1 /\ i \in DOMAIN ts
  BY <1>4, <1>5, QueryTables
<1>7. PICK clone : clone = ResolveAgainstTable(tree, i)
  OBVIOUS
<1>8. tree \in Trees
  BY SoundTreeIs
<1>9. IsClone(ts, tree, i, clone) /\ clone \in SoundTrees(ts)
  BY <1>1, <1>6, <1>7, <1>8, CloneMade, CloneSound
<1>10. PICK new : new = Append(old, clone) /\ new = per_table'
  BY <1>2, <1>3, <1>4, <1>5, <1>6, <1>7
<1>11. /\ new \in Seq(SoundTrees(ts)) /\ Len(new) = i /\ DOMAIN new = 1 .. i
       /\ new[i] = clone /\ \A k \in 1 .. m : new[k] = old[k]
  <2>1. PICK S : S = SoundTrees(ts)
    OBVIOUS
  <2>2. old \in Seq(S) /\ clone \in S
    BY <1>4, <1>9, <2>1
  <2>3. /\ new \in Seq(S) /\ Len(new) = Len(old) + 1 /\ new[Len(old) + 1] = clone
        /\ \A k \in 1 .. Len(old) : new[k] = old[k]
    <3>1. new = Append(old, clone)
      BY <1>10
    <3>2. PICK x \in S : x = clone
      BY <2>2
    <3>3. PICK seq \in Seq(S) : seq = old
      BY <2>2
    <3>4. /\ Append(seq, x) \in Seq(S) /\ Len(Append(seq, x)) = Len(seq) + 1
          /\ Append(seq, x)[Len(seq) + 1] = x
          /\ \A k \in 1 .. Len(seq) : Append(seq, x)[k] = seq[k]
      BY AppendProperties
    <3> QED BY <3>1, <3>2, <3>3, <3>4
  <2>4. Len(new) = i /\ new[i] = clone /\ \A k \in 1 .. m : new[k] = old[k]
    BY <1>5, <1>6, <2>3
  <2>5. DOMAIN new = 1 .. i
    BY <2>3, <2>4, LenProperties
  <2> QED BY <2>1, <2>3, <2>4, <2>5
<1>12. ClonesMade(ts, tree, new)
  <2>1. ClonesMade(ts, tree, old) /\ DOMAIN old = 1 .. m
    BY <1>1, <1>2, <1>3, <1>4, <1>5 DEF IInv, ClonesRight
  <2>2. ASSUME NEW k \in 1 .. i
        PROVE  IsClone(ts, tree, k, new[k])
    <3>1. CASE k = i
      BY <1>9, <1>11, <3>1
    <3>2. CASE k # i
      <4>1. k \in 1 .. m
        BY <1>6, <3>2
      <4> QED BY <1>11, <2>1, <4>1 DEF ClonesMade
    <3> QED BY <3>1, <3>2
  <2> QED BY <1>11, <2>2 DEF ClonesMade
<1>13. Typed'
  BY <1>1, <1>2, <1>10, <1>11 DEF IInv, Typed, Phases
<1>14. i <= Len(ts) /\ i \in Nat /\ Len(ts) \in Nat
  BY <1>5, <1>6, QueryTables
<1>15. Phased'
  <2>1. resolved = 0
    BY <1>2 DEF IInv, Phased
  <2>2. Len(per_table') = i /\ Len(tables') = Len(ts) /\ where' \in SoundTrees(tables')
    BY <1>1, <1>2, <1>3, <1>10, <1>11
  <2>3. resolved' = 0 /\ pc' = IF i = Len(ts) THEN "global" ELSE "per_table"
    BY <1>1, <1>2, <1>10, <1>11, <2>1
  <2>4. CASE i = Len(ts)
    <3>1. pc' = "global"
      BY <2>3, <2>4
    <3> QED BY <1>14, <2>2, <2>3, <2>4, <3>1 DEF Phased
  <2>5. CASE i # Len(ts)
    <3>1. pc' = "per_table" /\ i < Len(ts)
      BY <1>14, <2>3, <2>5
    <3> QED BY <1>14, <2>2, <2>3, <3>1 DEF Phased
  <2> QED BY <2>4, <2>5
<1>16. Right' /\ ClonesRight'
  BY <1>1, <1>2, <1>3, <1>10, <1>12 DEF Right, ClonesRight
<1> QED BY <1>13, <1>15, <1>16 DEF IInv

(* The clones were made of the names that the clause has now been bound by.*)
LEMMA WhereKeeps ==
  ASSUME IInv, ResolveWhere
  PROVE  IInv'
<1>1. PICK ts \in Queries : ts = tables /\ ts = tables'
  BY DEF IInv, Typed, ResolveWhere
<1>2. PICK r : r = ResolveExptree(where)
  OBVIOUS
<1>3. /\ pc = "global" /\ pc' = (IF r.failed THEN "failed" ELSE "select")
      /\ where' = r.tree /\ cols' = cols /\ per_table' = per_table /\ resolved' = resolved
  BY <1>2 DEF ResolveWhere
<1>4. PICK tree : tree = where /\ tree \in SoundTrees(ts) /\ tree \in Trees /\ TreeSomewhere(ts, tree)
  BY <1>1, <1>3, SoundTreeIs DEF IInv, Phased
<1>5. PICK w : w = r.tree
  OBVIOUS
<1>6. /\ w \in Trees /\ Len(w) = Len(tree) /\ DOMAIN w = DOMAIN tree
      /\ \A k \in DOMAIN tree : w[k].name = tree[k].name
      /\ TreeSomewhere(ts, w)
      /\ ~r.failed => TreeRight(ts, w)
  BY <1>1, <1>2, <1>4, <1>5, ResolvedTree
<1>7. w \in SoundTrees(ts)
  BY <1>6, SoundTreeIs
<1>8. ~r.failed => ClonesAgree(ts, w, per_table)
  <2> SUFFICES ASSUME ~r.failed, NEW i \in DOMAIN ts
               PROVE  per_table[i] = MineIn(ts, w, i)
    BY DEF ClonesAgree
  <2>1. Renewed(ts, tree, w)
    BY <1>6 DEF Renewed
  <2>2. PICK clone : clone = per_table[i]
    OBVIOUS
  <2>3. IsClone(ts, tree, i, clone)
    <3>1. Len(per_table) = Len(ts) /\ ClonesMade(ts, tree, per_table)
      BY <1>1, <1>3, <1>4 DEF IInv, Phased, ClonesRight
    <3>2. per_table \in Seq(SoundTrees(ts))
      BY <1>1 DEF IInv, Typed
    <3>3. i \in DOMAIN per_table
      BY <3>1, <3>2, QueryTables
    <3> QED BY <2>2, <3>1, <3>3 DEF ClonesMade
  <2> QED BY <1>1, <1>4, <1>6, <2>1, <2>2, <2>3, CloneAgrees
<1>9. Typed'
  BY <1>1, <1>3, <1>5, <1>7 DEF IInv, Typed, Phases
<1>10. Phased'
  BY <1>1, <1>3 DEF IInv, Phased
<1>11. Right' /\ ClonesRight'
  <2>1. resolved' = 0
    BY <1>3 DEF IInv, Phased
  <2>2. pc' \in {"select", "ready"} => ~r.failed
    BY <1>3
  <2> QED BY <1>1, <1>3, <1>5, <1>6, <1>8, <2>1, <2>2 DEF Right, ClonesRight
<1> QED BY <1>9, <1>10, <1>11 DEF IInv

(* A column that is named keeps its operands. *)
LEMMA FixedIs ==
  ASSUME NEW ts \in Queries, NEW col \in SoundCols(ts)
  PROVE  AliasFixed(col) \in SoundCols(ts) /\ AliasFixed(col).tree = col.tree
<1>1. CASE ~(col.lone /\ col.alias_name = NoAlias)
  BY <1>1 DEF AliasFixed
<1>2. CASE col.lone /\ col.alias_name = NoAlias
  <2>1. col.tree \in SoundTrees(ts) /\ col.tree # <<>>
    BY <1>2 DEF SoundCols
  <2>2. PICK tree \in Trees : tree = col.tree /\ tree # <<>>
    BY <2>1, SoundTreeIs
  <2>3. tree[1] \in Opnd
    BY <2>2 DEF Trees
  <2>4. PICK name \in Names : name = col.tree[1].name
    BY <2>2, <2>3 DEF Opnd
  <2>5. AliasFixed(col) = [col EXCEPT !.alias_name = name]
    BY <1>2, <2>4 DEF AliasFixed
  <2>6. [col EXCEPT !.alias_name = name] \in SoundCols(ts)
    BY DEF SoundCols
  <2>7. [col EXCEPT !.alias_name = name].tree = col.tree
    BY DEF SoundCols
  <2> QED BY <2>5, <2>6, <2>7
<1> QED BY <1>1, <1>2

LEMMA NamedIs ==
  ASSUME NEW ts \in Queries, NEW list \in Seq(SoundCols(ts)), NEW named,
         named = [j \in DOMAIN list |-> AliasFixed(list[j])]
  PROVE  /\ named \in Seq(SoundCols(ts)) /\ DOMAIN named = DOMAIN list
         /\ Len(named) = Len(list)
<1>1. PICK n \in Nat : n = Len(list) /\ DOMAIN list = 1 .. n
  OBVIOUS
<1>2. PICK S : S = SoundCols(ts)
  OBVIOUS
<1>3. \A j \in 1 .. n : AliasFixed(list[j]) \in S
  BY <1>1, <1>2, FixedIs
<1>4. named = [j \in 1 .. n |-> AliasFixed(list[j])]
  BY <1>1
<1>5. named \in Seq(S) /\ DOMAIN named = 1 .. n /\ Len(named) = n
  BY <1>3, <1>4
<1> QED BY <1>1, <1>2, <1>5

(* A column whose operands have been resolved. *)
LEMMA RebuiltIs ==
  ASSUME NEW ts \in Queries, NEW col \in SoundCols(ts),
         NEW w \in SoundTrees(ts), Len(w) = Len(col.tree),
         NEW x, x = [col EXCEPT !.tree = w]
  PROVE  x \in SoundCols(ts) /\ x.tree = w
<1>1. col.lone => w # <<>>
  <2>1. SUFFICES ASSUME col.lone PROVE Len(w) # 0
    BY EmptySeq
  <2>2. col.tree \in SoundTrees(ts) /\ col.tree # <<>>
    BY <2>1 DEF SoundCols
  <2>3. PICK tree \in Trees : tree = col.tree /\ tree # <<>>
    BY <2>2, SoundTreeIs
  <2>4. Len(tree) # 0
    BY <2>3, EmptySeq DEF Trees
  <2> QED BY <2>3, <2>4
<1> QED BY <1>1 DEF SoundCols

(* One member of a sequence is replaced. *)
LEMMA ReplacedIs ==
  ASSUME NEW S, NEW s \in Seq(S), NEW m \in DOMAIN s, NEW x \in S,
         NEW new, new = [s EXCEPT ![m] = x]
  PROVE  /\ new \in Seq(S) /\ Len(new) = Len(s) /\ new[m] = x
         /\ \A j \in DOMAIN s : j # m => new[j] = s[j]
<1>1. PICK n \in Nat : n = Len(s) /\ DOMAIN s = 1 .. n
  OBVIOUS
<1>2. s \in [1 .. n -> S]
  BY <1>1
<1>3. new \in [1 .. n -> S] /\ new[m] = x /\ \A j \in 1 .. n : j # m => new[j] = s[j]
  BY <1>1, <1>2
<1>4. new \in Seq(S) /\ Len(new) = n
  BY <1>3
<1> QED BY <1>1, <1>3, <1>4

LEMMA ColumnKeeps ==
  ASSUME IInv, ResolveColumn
  PROVE  IInv'
<1>1. PICK ts \in Queries : ts = tables /\ ts = tables'
  BY DEF IInv, Typed, ResolveColumn
<1>2. /\ pc = "select" /\ resolved < Len(cols) /\ where' = where /\ per_table' = per_table
  BY DEF ResolveColumn
<1>3. PICK list : list = cols /\ list \in Seq(SoundCols(ts))
  BY <1>1 DEF IInv, Typed
<1>4. PICK named : named = IF resolved = 0 THEN [j \in DOMAIN list |-> AliasFixed(list[j])] ELSE list
  OBVIOUS
<1>5. /\ named \in Seq(SoundCols(ts)) /\ DOMAIN named = DOMAIN list /\ Len(named) = Len(list)
      /\ resolved # 0 => named = list
  BY <1>3, <1>4, NamedIs
<1>6. resolved \in Nat /\ Len(list) \in Nat /\ resolved < Len(list)
  BY <1>1, <1>2, <1>3 DEF IInv, Typed
<1>7. PICK m : m = resolved + 1 /\ m \in DOMAIN named
  BY <1>5, <1>6
<1>8. PICK col \in SoundCols(ts) : col = named[m]
  BY <1>5, <1>7
<1>9. PICK tree : tree = col.tree /\ tree \in SoundTrees(ts)
  BY DEF SoundCols
<1>10. tree \in Trees /\ TreeSomewhere(ts, tree)
  BY <1>9, SoundTreeIs
<1>11. PICK r : r = ResolveExptree(tree)
  OBVIOUS
<1>12. PICK w : w = r.tree
  OBVIOUS
<1>13. /\ w \in Trees /\ Len(w) = Len(tree) /\ TreeSomewhere(ts, w)
       /\ ~r.failed => TreeRight(ts, w)
  BY <1>1, <1>10, <1>11, <1>12, ResolvedTree
<1>14. w \in SoundTrees(ts)
  BY <1>13, SoundTreeIs
<1>15. PICK x : x = [col EXCEPT !.tree = w]
  OBVIOUS
<1>16. x \in SoundCols(ts) /\ x.tree = w
  BY <1>9, <1>13, <1>14, <1>15, RebuiltIs
<1>17. PICK new : new = [named EXCEPT ![m] = x]
  OBVIOUS
<1>18. /\ cols' = [named EXCEPT ![m].tree = w]
       /\ IF r.failed THEN pc' = "failed" /\ resolved' = resolved
          ELSE resolved' = m /\ pc' = pc
  BY <1>3, <1>4, <1>7, <1>8, <1>9, <1>11, <1>12 DEF ResolveColumn
<1>19. cols' = new
  BY <1>8, <1>15, <1>17, <1>18
<1>20. /\ new \in Seq(SoundCols(ts)) /\ Len(new) = Len(list) /\ new[m] = x
       /\ \A j \in DOMAIN list : j # m => new[j] = named[j]
  <2>1. PICK S : S = SoundCols(ts)
    OBVIOUS
  <2>2. named \in Seq(S) /\ x \in S
    BY <1>5, <1>16, <2>1
  <2>3. /\ new \in Seq(S) /\ Len(new) = Len(named) /\ new[m] = x
        /\ \A j \in DOMAIN named : j # m => new[j] = named[j]
    BY <1>7, <1>17, <2>2, ReplacedIs
  <2> QED BY <1>5, <2>1, <2>3
<1>21. resolved' \in 0 .. Len(new)
  BY <1>6, <1>7, <1>18, <1>20
<1>22. Typed'
  BY <1>1, <1>2, <1>18, <1>19, <1>20, <1>21 DEF IInv, Typed, Phases
<1>23. pc' \in {"failed", "select"} /\ (pc' = "select" => resolved' = m /\ ~r.failed)
  BY <1>2, <1>18
<1>24. Phased'
  <2>1. Len(per_table') <= Len(tables')
    BY <1>1, <1>2 DEF IInv, Phased
  <2> QED BY <1>23, <2>1 DEF Phased
<1>25. ClonesRight'
  BY <1>23 DEF ClonesRight
<1>26. Right'
  <2>1. SUFFICES ASSUME pc' = "select"
                 PROVE  /\ HasWhere' => TreeRight(tables', where') /\ ClonesAgree(tables', where', per_table')
                        /\ \A j \in 1 .. resolved' : TreeRight(tables', cols'[j].tree)
    BY <1>23 DEF Right
  <2>2. HasWhere' => TreeRight(tables', where') /\ ClonesAgree(tables', where', per_table')
    BY <1>1, <1>2 DEF IInv, Right, HasWhere
  <2>3. ASSUME NEW j \in 1 .. m
        PROVE  TreeRight(ts, new[j].tree)
    <3>1. CASE j = m
      BY <1>13, <1>16, <1>20, <1>23, <2>1, <3>1
    <3>2. CASE j # m
      <4>1. j \in 1 .. resolved /\ resolved # 0 /\ j \in DOMAIN list
        BY <1>3, <1>6, <1>7, <3>2
      <4>2. TreeRight(ts, list[j].tree)
        BY <1>1, <1>2, <1>3, <4>1 DEF IInv, Right
      <4> QED BY <1>5, <1>20, <3>2, <4>1, <4>2
    <3> QED BY <3>1, <3>2
  <2> QED BY <1>1, <1>19, <1>23, <2>1, <2>2, <2>3
<1> QED BY <1>22, <1>24, <1>25, <1>26 DEF IInv

LEMMA InitialisedKeeps ==
  ASSUME IInv, PlanInitialised
  PROVE  IInv'
<1>1. /\ pc = "select" /\ resolved = Len(cols) /\ pc' = "ready" /\ tables' = tables
      /\ where' = where /\ cols' = cols /\ per_table' = per_table /\ resolved' = resolved
  BY DEF PlanInitialised
<1>2. Typed'
  BY <1>1 DEF IInv, Typed, Phases
<1>3. Phased'
  BY <1>1 DEF IInv, Phased
<1>4. Right'
  BY <1>1 DEF IInv, Right, HasWhere
<1>5. ClonesRight'
  BY <1>1 DEF ClonesRight
<1> QED BY <1>2, <1>3, <1>4, <1>5 DEF IInv

LEMMA DeinitKeeps ==
  ASSUME IInv, Deinit
  PROVE  IInv'
<1>1. /\ pc' = "done" /\ cols' = <<>> /\ where' = NULL /\ resolved' = 0
      /\ tables' = tables /\ per_table' = per_table
  BY DEF Deinit
<1>2. cols' \in Seq(SoundCols(tables')) /\ Len(cols') = 0
  BY <1>1, EmptySeq
<1>3. Typed'
  BY <1>1, <1>2 DEF IInv, Typed, Phases
<1>4. Phased'
  BY <1>1 DEF IInv, Phased
<1> QED BY <1>1, <1>3, <1>4 DEF IInv, Right, ClonesRight

LEMMA FailureKeeps ==
  ASSUME IInv, ReplaceAliasFails \/ ResolvePerTableFails
  PROVE  IInv'
<1>1. /\ pc' = "failed" /\ tables' = tables /\ where' = where
      /\ cols' = cols /\ per_table' = per_table /\ resolved' = resolved
  BY DEF ReplaceAliasFails, ResolvePerTableFails
<1>2. Typed'
  BY <1>1 DEF IInv, Typed, Phases
<1>3. Phased'
  BY <1>1 DEF IInv, Phased
<1> QED BY <1>1, <1>2, <1>3 DEF IInv, Right, ClonesRight

LEMMA StutterKeeps ==
  ASSUME IInv, UNCHANGED vars
  PROVE  IInv'
<1>1. /\ pc' = pc /\ tables' = tables /\ where' = where /\ cols' = cols
      /\ per_table' = per_table /\ resolved' = resolved
  BY DEF vars
<1>2. Typed' /\ Phased'
  BY <1>1 DEF IInv, Typed, Phased
<1>3. Right' /\ ClonesRight'
  BY <1>1 DEF IInv, Right, ClonesRight, HasWhere
<1> QED BY <1>2, <1>3 DEF IInv

-----------------------------------------------------------------------------
(* What the invariant says of the operands. *)

LEMMA SomewhereIs ==
  ASSUME NEW tree \in SoundTrees(tables), tables \in Queries, NEW opnd \in Operands(tree)
  PROVE  BoundSomewhere(tables, opnd)
<1>1. tree \in Trees /\ TreeSomewhere(tables, tree)
  BY SoundTreeIs
<1>2. PICK k \in DOMAIN tree : opnd = tree[k]
  BY DEF Operands, Range
<1> QED BY <1>1, <1>2 DEF TreeSomewhere

(* What the bound operands of a tree show. *)
Shows(tree, k) ==
  /\ tree[k].name[1] = None \/ InCatalog(tree[k].name[1])
  /\ \E j \in 1 .. k : Joined(tree[j].name[1])
  /\ tree[k].src = Meaning(tree[SetBy(tree, k)].name)

LEMMA RightIs ==
  ASSUME NEW tree \in Trees, TreeRight(tables, tree), NEW k \in DOMAIN tree
  PROVE  Shows(tree, k)
<1>1. BoundRight(tables, tree, k, tree[k])
  BY DEF TreeRight
<1>2. PICK m \in Nat : LastJoined(tables, tree, k, m) /\ tree[k].src = MeaningIn(tables, tree[m].name)
  BY <1>1 DEF BoundRight
<1>3. \A t : Joined(t) <=> JoinedIn(tables, t)
  BY DEF Joined, JoinedIn
<1> DEFINE S == {j \in 1 .. k : Joined(tree[j].name[1])}
<1>4. m \in S /\ \A l \in S : l <= m
  BY <1>2, <1>3 DEF LastJoined
<1>5. k \in Nat
  BY DEF Trees
<1>6. S \in SUBSET Nat
  BY <1>5
<1>7. Latest(S) = m
  <2> HIDE DEF S
  <2>1. \A x \in S : (\A y \in S : y <= x) => x = m
    BY <1>4, <1>6
  <2> QED BY <1>4, <2>1 DEF Latest
<1>8. SetBy(tree, k) = m
  BY <1>7 DEF SetBy
<1>9. Meaning(tree[m].name) = MeaningIn(tables, tree[m].name)
  BY DEF Meaning, MeaningIn, Place, PlaceIn
<1> QED BY <1>1, <1>2, <1>4, <1>8, <1>9 DEF BoundRight, Shows

LEMMA ColumnTree ==
  ASSUME IInv, NEW j \in DOMAIN cols
  PROVE  cols[j].tree \in SoundTrees(tables)
<1>1. PICK col \in SoundCols(tables) : col = cols[j]
  BY DEF IInv, Typed
<1> QED BY <1>1 DEF SoundCols

LEMMA InvTypes == IInv => TypeOK
<1> SUFFICES ASSUME IInv PROVE TypeOK
  OBVIOUS
<1>1. tables \in Queries
  BY DEF IInv, Typed
<1>2. ASSUME NEW opnd \in AllOperands
      PROVE  BoundSomewhere(tables, opnd)
  <2>1. CASE HasWhere /\ opnd \in Operands(where)
    <3>1. where \in SoundTrees(tables)
      BY <2>1 DEF IInv, Typed, HasWhere
    <3> QED BY <1>1, <2>1, <3>1, SomewhereIs
  <2>2. CASE \E j \in DOMAIN cols : opnd \in Operands(cols[j].tree)
    <3>1. PICK j \in DOMAIN cols : opnd \in Operands(cols[j].tree)
      BY <2>2
    <3>2. cols[j].tree \in SoundTrees(tables)
      BY ColumnTree
    <3> QED BY <1>1, <3>1, <3>2, SomewhereIs
  <2> QED BY <2>1, <2>2 DEF AllOperands
<1>3. ASSUME NEW i \in DOMAIN per_table, NEW opnd \in Operands(per_table[i])
      PROVE  BoundSomewhere(tables, opnd)
  <2>1. per_table[i] \in SoundTrees(tables)
    BY DEF IInv, Typed
  <2> QED BY <1>1, <2>1, SomewhereIs
<1>4. ASSUME NEW opnd, BoundSomewhere(tables, opnd), opnd.src # NULL
      PROVE  /\ opnd.src.table_index \in DOMAIN tables
             /\ opnd.src.table = tables[opnd.src.table_index]
             /\ HasColumn(opnd.src.table, opnd.src.column)
  BY <1>4 DEF BoundSomewhere, HasTable
<1>5. /\ pc \in Phases /\ resolved \in 0 .. Len(cols) /\ Len(per_table) <= Len(tables)
  BY DEF IInv, Typed, Phased
<1> QED BY <1>2, <1>3, <1>4, <1>5 DEF TypeOK, Phases

LEMMA InvBinds == IInv => BoundAsNamed
<1> SUFFICES ASSUME IInv PROVE BoundAsNamed
  OBVIOUS
<1>1. ASSUME Ready, NEW tree \in ResolvedTrees, NEW k \in DOMAIN tree
      PROVE  Shows(tree, k)
  <2>1. pc = "ready" /\ resolved = Len(cols)
    BY <1>1 DEF Ready, IInv, Phased
  <2>2. CASE HasWhere /\ tree = where
    <3>1. TreeRight(tables, tree)
      BY <2>1, <2>2 DEF IInv, Right
    <3>2. tree \in Trees
      <4>1. tree \in SoundTrees(tables)
        BY <2>2 DEF IInv, Typed, HasWhere
      <4> QED BY <4>1, SoundTreeIs
    <3> QED BY <3>1, <3>2, RightIs
  <2>3. CASE \E j \in DOMAIN cols : tree = cols[j].tree
    <3>1. PICK j \in DOMAIN cols : tree = cols[j].tree
      BY <2>3
    <3>2. j \in 1 .. resolved
      BY <2>1 DEF IInv, Typed
    <3>3. TreeRight(tables, tree)
      BY <2>1, <3>1, <3>2 DEF IInv, Right
    <3>4. tree \in Trees
      BY <3>1, ColumnTree, SoundTreeIs
    <3> QED BY <3>3, <3>4, RightIs
  <2> QED BY <1>1, <2>2, <2>3 DEF ResolvedTrees
<1>2. TypeOK
  BY InvTypes
<1> QED BY <1>1, <1>2 DEF BoundAsNamed, Shows

LEMMA InvAgrees == IInv => PerTableAgrees
<1> SUFFICES ASSUME IInv, Ready, HasWhere, NEW i \in DOMAIN tables
             PROVE  per_table[i] = Expected(where, i)
  BY DEF PerTableAgrees
<1>1. ClonesAgree(tables, where, per_table)
  BY DEF IInv, Right, Ready
<1>2. MineIn(tables, where, i) = Expected(where, i)
  BY DEF MineIn, Expected, IsMineLoop, MineOf, InFull, NamesInFull
<1> QED BY <1>1, <1>2 DEF ClonesAgree

-----------------------------------------------------------------------------
(* From any plan the parser leaves, what is bound is bound to a column of  *)
(* a joined table; the clauses are right once they are resolved, and until *)
(* then the clones are those of the clause as it stands.                   *)
THEOREM Inductive == Spec => []IInv
<1>1. Init => IInv
  BY InitSound
<1>2. IInv /\ [Next]_vars => IInv'
  <2> SUFFICES ASSUME IInv, [Next]_vars PROVE IInv'
    OBVIOUS
  <2>1. CASE ResolveAsterisk
    BY <2>1, AsteriskKeeps
  <2>2. CASE ReplaceAlias
    BY <2>2, AliasKeeps
  <2>3. CASE AliasesReplaced
    BY <2>3, AliasesDoneKeep
  <2>4. CASE ResolvePerTable
    BY <2>4, PerTableKeeps
  <2>5. CASE ResolveWhere
    BY <2>5, WhereKeeps
  <2>6. CASE ResolveColumn
    BY <2>6, ColumnKeeps
  <2>7. CASE PlanInitialised
    BY <2>7, InitialisedKeeps
  <2>8. CASE Deinit
    BY <2>8, DeinitKeeps
  <2>9. CASE UNCHANGED vars
    BY <2>9, StutterKeeps
  <2>10. CASE ReplaceAliasFails \/ ResolvePerTableFails
    BY <2>10, FailureKeeps
  <2> QED BY <2>1, <2>2, <2>3, <2>4, <2>5, <2>6, <2>7, <2>8, <2>9, <2>10 DEF Next, Steps
<1> QED BY <1>1, <1>2, PTL DEF Spec

(* When rows are evaluated, each operand of the where clause and of the    *)
(* select list, however it came there (written, from the asterisk, or in   *)
(* place of an alias), is bound to what the last operand up to it names    *)
(* whose table is joined: itself, if its own table is.  What the loop of   *)
(* sql_resolve_exptree keeps from one operand to the next shows only in    *)
(* operands of tables that are not joined.                                 *)
THEOREM EveryOperandIsBound == Spec => []BoundAsNamed
<1>1. IInv => BoundAsNamed
  BY InvBinds
<1> QED BY <1>1, Inductive, PTL

(* The clones for the tables, made by sql_resolve_exptree_against_table    *)
(* while the clause was still unresolved, against the clause resolved by   *)
(* sql_resolve_exptree: whatever the tables, joined twice or found by      *)
(* other names, a clone has just the operands of the clause that name its  *)
(* table in full, in their order and bound to the same columns, and the    *)
(* operands that the clause finds by the first twelve characters only are  *)
(* in no clone.                                                            *)
THEOREM ClonesAgreeWithClause == Spec => []PerTableAgrees
<1>1. IInv => PerTableAgrees
  BY InvAgrees
<1> QED BY <1>1, Inductive, PTL


-----------------------------------------------------------------------------
(* The join.                                                               *)

USE JoinAssumption

-----------------------------------------------------------------------------
(* The order of combinations.                                              *)

\* Looking at one more place.
LEMMA SameSplit ==
  ASSUME NEW n \in Nat, NEW c, NEW d
  PROVE  Same(c, d, n + 1) <=> Same(c, d, n) /\ c[n] = d[n]
<1>1. 0 .. (n + 1) - 1 = (0 .. n - 1) \cup {n}
  OBVIOUS
<1> QED BY <1>1 DEF Same

LEMMA BeforeSplit ==
  ASSUME NEW n \in Nat, NEW c, NEW d
  PROVE  Before(c, d, n + 1) <=> Before(c, d, n) \/ (c[n] < d[n] /\ Same(c, d, n))
<1>1. 0 .. (n + 1) - 1 = (0 .. n - 1) \cup {n}
  OBVIOUS
<1> QED BY <1>1 DEF Before

\* Only the places that are looked at count.
LEMMA OrderLocal ==
  ASSUME NEW n \in Nat, NEW c, NEW d, NEW e, \A s \in 0 .. n - 1 : d[s] = e[s]
  PROVE  /\ Same(c, d, n) <=> Same(c, e, n)
         /\ Before(c, d, n) <=> Before(c, e, n)
<1>1. Same(c, d, n) <=> Same(c, e, n)
  BY DEF Same
<1>2. \A t \in 0 .. n - 1 : Same(c, d, t) <=> Same(c, e, t)
  BY DEF Same
<1>3. Before(c, d, n) <=> Before(c, e, n)
  BY <1>2 DEF Before
<1> QED BY <1>1, <1>3

LEMMA UpToSplit ==
  ASSUME NEW n \in Nat, NEW c, NEW d, c[n] \in Int, d[n] \in Int
  PROVE  Before(c, d, n + 1) \/ Same(c, d, n + 1)
           <=> Before(c, d, n) \/ (Same(c, d, n) /\ c[n] =< d[n])
BY SameSplit, BeforeSplit

\* Nothing comes before a combination that is nowhere larger.
LEMMA LeastIsFirst ==
  ASSUME NEW n \in Nat, NEW c, NEW d, \A s \in 0 .. n - 1 : c[s] \in Int /\ d[s] \in Int /\ c[s] >= d[s]
  PROVE  ~Before(c, d, n)
BY DEF Before

LEMMA BeforeIsStrict ==
  ASSUME NEW n \in Nat, NEW c, NEW d, \A s \in 0 .. n - 1 : c[s] \in Int /\ d[s] \in Int, Same(c, d, n)
  PROVE  ~Before(c, d, n)
BY DEF Before, Same

\* Different combinations are ordered one way or the other.
LEMMA Ordered ==
  ASSUME NEW n \in Nat, NEW c, NEW d,
         \A s \in 0 .. n - 1 : c[s] \in Int /\ d[s] \in Int,
         ~Same(c, d, n), ~Before(c, d, n)
  PROVE  Before(d, c, n)
<1> DEFINE Differ == {s \in 0 .. n - 1 : c[s] # d[s]}
<1>1. Differ \subseteq Nat /\ Differ # {}
  BY DEF Same
<1>2. PICK t \in Differ : \A s \in Differ : ~(<<s, t>> \in OpToRel(<, Nat))
  <2> HIDE DEF Differ
  <2> QED BY <1>1, WFMin, NatLessThanWellFounded
<1>3. \A s \in Differ : ~(s < t)
  <2> HIDE DEF Differ
  <2> QED BY <1>1, <1>2 DEF OpToRel
<1>4. t \in 0 .. n - 1 /\ c[t] # d[t] /\ c[t] \in Int /\ d[t] \in Int
  OBVIOUS
<1>5. \A u \in 0 .. t - 1 : c[u] = d[u]
  BY <1>3, <1>4
<1>6. ~(c[t] < d[t])
  BY <1>4, <1>5 DEF Before, Same
<1>7. d[t] < c[t]
  BY <1>4, <1>6
<1> QED BY <1>4, <1>5, <1>7 DEF Before, Same


-----------------------------------------------------------------------------
(* What BPlusTree_get_next_record returns.                                 *)

LEMMA NextRowFacts ==
  ASSUME JoinTypeOK, QueryData, NEW t \in Tables
  PROVE  /\ NextRow(t) \in 0 .. MaxRows
         /\ NextRow(t) # 0 => NextRow(t) = cursor[t] + 1
         /\ NextRow(t) = 0 => \A r \in pass[t] : r \in Nat /\ r =< cursor[t]
         /\ pass[t] \subseteq 1 .. MaxRows
         /\ cursor[t] \in 0 .. MaxRows
         /\ rec[t] \in 0 .. MaxRows
<1>1. cursor[t] \in 0 .. MaxRows /\ rec[t] \in 0 .. MaxRows /\ rows[t] \in 0 .. MaxRows
  BY DEF JoinTypeOK
<1>2. pass[t] \subseteq 1 .. MaxRows
  BY DEF JoinTypeOK
<1>3. pass[t] \subseteq 1 .. rows[t]
  BY DEF QueryData
<1> QED BY <1>1, <1>2, <1>3 DEF NextRow

(* The effect of moving one cursor, and of storing the record it is on.    *)
LEMMA Moved ==
  ASSUME JoinTypeOK, QueryData, NEW t \in Tables, Fetch(t)
  PROVE  /\ cursor' \in [Tables -> 0 .. MaxRows]
         /\ cursor'[t] = NextRow(t)
         /\ \A s \in Tables : s # t => cursor'[s] = cursor[s]
BY NextRowFacts DEF Fetch, JoinTypeOK

LEMMA Stored ==
  ASSUME JoinTypeOK, QueryData, NEW t \in Tables, Store(t)
  PROVE  /\ rec' \in [Tables -> 0 .. MaxRows]
         /\ rec'[t] = NextRow(t)
         /\ \A s \in Tables : s # t => rec'[s] = rec[s]
BY NextRowFacts DEF Store, JoinTypeOK

LEMMA TableIds ==
  ASSUME JoinTypeOK, NEW t \in Tables
  PROVE  /\ t \in Nat /\ table_cnt \in Nat /\ t + 1 \in 1 .. table_cnt /\ t + 1 \in -1 .. table_cnt
         /\ t - 1 \in -1 .. table_cnt
         /\ t # 0 => t - 1 \in Tables /\ t - 1 \in Nat
         /\ \A s \in 0 .. t - 1 : s \in Tables /\ s # t /\ s < t
<1>1. table_cnt \in Nat
  BY DEF JoinTypeOK
<1> QED BY <1>1 DEF Tables

LEMMA AcceptedRows ==
  ASSUME JoinTypeOK, NEW c \in accept, NEW t \in Tables
  PROVE  c[t] \in pass[t] /\ c[t] \in 1 .. MaxRows
BY DEF JoinTypeOK, Combos, Tables

\* A step that leaves the query and what was printed alone keeps what is said of them.
LEMMA DataKept ==
  ASSUME JoinIInv, UNCHANGED <<query, printed, row_no>>
  PROVE  QueryData' /\ IsFiniteSet(printed') /\ row_no' = Cardinality(printed') /\ Tables' = Tables
BY DEF JoinIInv, QueryData, query, Combos, Tables

LEMMA TypeKept ==
  ASSUME JoinTypeOK, UNCHANGED <<query, printed, row_no>>,
         cursor' \in [Tables -> 0 .. MaxRows],
         rec' \in [Tables -> 0 .. MaxRows],
         is_join_started' \in BOOLEAN,
         is_join_finished' \in BOOLEAN,
         phase' \in {"join", "first", "next", "again", "deliver", "done"},
         table_id' \in -1 .. table_cnt
  PROVE  JoinTypeOK'
<1>1. Combos(table_cnt, pass)' = Combos(table_cnt, pass) /\ Tables' = Tables
  BY DEF Combos, Tables, query
<1> QED BY <1>1 DEF JoinTypeOK, query

-----------------------------------------------------------------------------
(* One lemma per action.                                                   *)

LEMMA StartJoinStep == JoinIInv /\ StartJoin => JoinIInv'
<1> SUFFICES ASSUME JoinIInv, StartJoin PROVE JoinIInv'
  OBVIOUS
<1>1. AtStart
  BY DEF JoinIInv, StartJoin, AtRow
<1>2. JoinTypeOK'
  BY DEF JoinIInv, JoinTypeOK, StartJoin, Goto, query, Tables, LastTable, Combos
<1>3. InFirst'
  <2>1. \A t \in Tables : Unpassed(t)
    BY <1>1, NextRowFacts DEF JoinIInv, AtStart, Reset, Unpassed
  <2> QED BY <1>1, <2>1 DEF JoinIInv, JoinTypeOK, AtStart, StartJoin, Goto, query, Tables, LastTable, InFirst, Shown, Reset,
            Unpassed, AtLeast
<1> QED BY <1>2, <1>3, DataKept DEF JoinIInv, StartJoin, Goto

LEMMA ContinueJoinStep == JoinIInv /\ ContinueJoin => JoinIInv'
<1> SUFFICES ASSUME JoinIInv, ContinueJoin PROVE JoinIInv'
  OBVIOUS
<1>1. AtRow
  BY DEF JoinIInv, ContinueJoin, AtStart
<1>2. JoinTypeOK'
  BY DEF JoinIInv, JoinTypeOK, ContinueJoin, Goto, query, Tables, LastTable, Combos
<1>3. InNext'
  <2>1. table_cnt \in Nat \ {0} /\ LastTable + 1 = table_cnt
    BY DEF JoinIInv, JoinTypeOK, LastTable
  <2> QED BY <1>1, <2>1 DEF AtRow, ContinueJoin, Goto, query, Tables, LastTable, InNext, Shown, Reset, UpTo
<1> QED BY <1>2, <1>3, DataKept DEF JoinIInv, ContinueJoin, Goto

LEMMA FirstFindsStep == JoinIInv /\ FirstFinds => JoinIInv'
<1> SUFFICES ASSUME JoinIInv, FirstFinds PROVE JoinIInv'
  OBVIOUS
<1> DEFINE t0 == table_id
<1>1. InFirst /\ JoinTypeOK /\ QueryData /\ t0 \in Tables
  BY DEF JoinIInv, FirstFinds
<1>2. JoinTypeOK'
  <2>1. cursor' \in [Tables -> 0 .. MaxRows] /\ rec' \in [Tables -> 0 .. MaxRows]
    BY <1>1, Moved, Stored DEF FirstFinds
  <2>2. table_id' \in -1 .. table_cnt /\ phase' = "first"
    BY <1>1 DEF FirstFinds, Goto, JoinTypeOK, Tables
  <2> QED BY <1>1, <2>1, <2>2, TypeKept DEF FirstFinds, JoinTypeOK
<1>3. InFirst'
  <2>1. /\ rec'[t0] = cursor'[t0] /\ cursor'[t0] \in pass[t0]
        /\ \A r \in pass[t0] : r >= cursor'[t0]
    BY <1>1, Moved, Stored, NextRowFacts DEF FirstFinds, Finds, InFirst, Unpassed
  <2>2. \A t \in Tables : t # t0 => cursor'[t] = cursor[t] /\ rec'[t] = rec[t]
    BY <1>1, Moved, Stored DEF FirstFinds
  <2>3. \A t \in Tables : t > t0 - 1 => Shown(t)' /\ AtLeast(t)'
    BY <1>1, <2>1, <2>2 DEF InFirst, Shown, AtLeast, FirstFinds, query, Tables
  <2>4. \A t \in Tables : t = t0 - 1 => Unpassed(t)'
    BY <1>1, <2>2, NextRowFacts DEF InFirst, Reset, Unpassed, FirstFinds, query, Tables
  <2>5. \A t \in Tables : t < t0 - 1 => Reset(t)'
    BY <1>1, <2>2 DEF InFirst, Reset, FirstFinds, query, Tables
  <2> QED BY <1>1, <2>3, <2>4, <2>5, DataKept DEF FirstFinds, Goto, InFirst, Tables, LastTable, JoinTypeOK, query
<1> QED BY <1>2, <1>3, DataKept DEF JoinIInv, FirstFinds, Goto

LEMMA FirstFailsStep == JoinIInv /\ FirstFails => JoinIInv'
<1> SUFFICES ASSUME JoinIInv, FirstFails PROVE JoinIInv'
  OBVIOUS
<1> DEFINE t0 == table_id
<1>1. InFirst /\ JoinTypeOK /\ QueryData /\ t0 \in Tables
  BY DEF JoinIInv, FirstFails
<1>2. JoinTypeOK'
  <2>1. cursor' \in [Tables -> 0 .. MaxRows] /\ rec' \in [Tables -> 0 .. MaxRows]
    BY <1>1, Moved DEF FirstFails, JoinTypeOK
  <2>2. table_id' \in -1 .. table_cnt /\ phase' = "done"
    BY <1>1 DEF FirstFails, Goto, JoinTypeOK, Tables
  <2> QED BY <1>1, <2>1, <2>2, TypeKept DEF FirstFails, JoinTypeOK
<1>3. pass[t0] = {}
  BY <1>1, NextRowFacts DEF FirstFails, Fails, InFirst, Unpassed
<1>4. accept = {}
  BY <1>1, <1>3, AcceptedRows
<1>5. printed' = accept'
  BY <1>1, <1>4 DEF InFirst, FirstFails, query
<1> QED BY <1>2, <1>5, DataKept DEF JoinIInv, FirstFails, Goto

LEMMA FirstReturnsStep == JoinIInv /\ FirstReturns => JoinIInv'
<1> SUFFICES ASSUME JoinIInv, FirstReturns PROVE JoinIInv'
  OBVIOUS
<1>1. InFirst /\ JoinTypeOK /\ QueryData /\ table_id = -1
  BY DEF JoinIInv, FirstReturns
<1>2. JoinTypeOK'
  BY <1>1, TypeKept DEF JoinTypeOK, FirstReturns, Goto, LastTable
<1>3. \A t \in Tables : Shown(t) /\ AtLeast(t)
  BY <1>1 DEF InFirst, Tables, JoinTypeOK
<1>4. \A c \in accept : ~Before(c, cursor, table_cnt)
  <2> TAKE c \in accept
  <2>1. \A s \in 0 .. table_cnt - 1 : c[s] \in Int /\ cursor[s] \in Int /\ c[s] >= cursor[s]
    <3> TAKE s \in 0 .. table_cnt - 1
    <3>1. s \in Tables
      BY DEF Tables
    <3> QED BY <1>1, <1>3, <3>1, AcceptedRows, NextRowFacts DEF AtLeast
  <2>2. table_cnt \in Nat
    BY <1>1 DEF JoinTypeOK
  <2> QED BY <2>1, <2>2, LeastIsFirst
<1>5. AtDelivery'
  BY <1>1, <1>3, <1>4 DEF AtDelivery, FirstReturns, InFirst, Shown, Tables, query
<1> QED BY <1>2, <1>5, DataKept DEF JoinIInv, FirstReturns, Goto


\* The three loops' turns over a rejected row.
LEMMA SkipRowFacts ==
  ASSUME JoinIInv, SkipRow(phase)
  PROVE  /\ JoinTypeOK' /\ QueryData' /\ Tables' = Tables
         /\ IsFiniteSet(printed') /\ row_no' = Cardinality(printed')
         /\ phase' = phase /\ table_id' = table_id /\ table_id \in Tables /\ table_cnt' = table_cnt
         /\ pass' = pass /\ accept' = accept /\ printed' = printed /\ table_id \in Nat
         /\ is_join_started' = is_join_started /\ is_join_finished' = is_join_finished
         /\ cursor'[table_id] = cursor[table_id] + 1
         /\ cursor'[table_id] \notin pass[table_id]
         /\ \A t \in Tables : t # table_id => cursor'[t] = cursor[t] /\ rec'[t] = rec[t]
<1>1. JoinTypeOK /\ QueryData /\ table_id \in Tables /\ Skips(table_id)
  BY DEF JoinIInv, SkipRow
<1>2. JoinTypeOK'
  <2>1. cursor' \in [Tables -> 0 .. MaxRows] /\ rec' \in [Tables -> 0 .. MaxRows]
    BY <1>1, Moved, Stored DEF SkipRow
  <2> QED BY <1>1, <2>1, TypeKept DEF SkipRow, JoinTypeOK
<1>3. /\ cursor'[table_id] = cursor[table_id] + 1
      /\ cursor'[table_id] \notin pass[table_id]
  BY <1>1, Moved, NextRowFacts DEF SkipRow, Skips
<1>4. \A t \in Tables : t # table_id => cursor'[t] = cursor[t] /\ rec'[t] = rec[t]
  BY <1>1, Moved, Stored DEF SkipRow
<1>5. table_id \in Nat
  BY <1>1 DEF Tables, JoinTypeOK
<1> QED BY <1>1, <1>2, <1>3, <1>4, <1>5, DataKept DEF SkipRow, query

LEMMA FirstSkipsStep == JoinIInv /\ FirstSkips => JoinIInv'
<1> SUFFICES ASSUME JoinIInv, FirstSkips PROVE JoinIInv'
  OBVIOUS
<1>1. SkipRow(phase) /\ phase = "first" /\ InFirst /\ JoinTypeOK /\ QueryData
  BY DEF FirstSkips, SkipRow, JoinIInv
<1>2. Unpassed(table_id)'
  BY <1>1, SkipRowFacts, NextRowFacts DEF InFirst, Unpassed
<1>3. InFirst'
  BY <1>1, <1>2, SkipRowFacts DEF InFirst, Shown, AtLeast, Reset, LastTable
<1> QED BY <1>1, <1>3, SkipRowFacts DEF JoinIInv

LEMMA NextSkipsStep == JoinIInv /\ NextSkips => JoinIInv'
<1> SUFFICES ASSUME JoinIInv, NextSkips PROVE JoinIInv'
  OBVIOUS
<1>1. SkipRow(phase) /\ phase = "next" /\ InNext /\ JoinTypeOK /\ QueryData
  BY DEF NextSkips, SkipRow, JoinIInv
<1>2. ASSUME NEW c \in accept
      PROVE  UpTo(c, table_id + 1) <=> UpTo(c, table_id + 1)'
  <2>1. /\ c[table_id] \in 1 .. MaxRows /\ cursor[table_id] \in 0 .. MaxRows
        /\ c[table_id] # cursor'[table_id]
    BY <1>1, SkipRowFacts, AcceptedRows, NextRowFacts
  <2>2. c[table_id] =< cursor[table_id] <=> c[table_id] =< cursor'[table_id]
    BY <2>1, SkipRowFacts, <1>1
  <2>3. \A s \in 0 .. table_id - 1 : cursor[s] = cursor'[s]
    BY <1>1, SkipRowFacts DEF Tables, JoinTypeOK
  <2>4. /\ Before(c, cursor, table_id) <=> Before(c, cursor', table_id)
        /\ Same(c, cursor, table_id) <=> Same(c, cursor', table_id)
    BY <2>3, <1>1, SkipRowFacts, OrderLocal
  <2>5. UpTo(c, table_id + 1) <=> Before(c, cursor, table_id)
                                    \/ (Same(c, cursor, table_id) /\ c[table_id] =< cursor[table_id])
    BY <1>1, <2>1, SkipRowFacts, UpToSplit DEF UpTo
  <2>6. UpTo(c, table_id + 1)' <=> Before(c, cursor', table_id)
                                    \/ (Same(c, cursor', table_id) /\ c[table_id] =< cursor'[table_id])
    <3>1. cursor'[table_id] \in Int /\ c[table_id] \in Int /\ table_id \in Nat
      BY <1>1, <2>1, SkipRowFacts
    <3>2. UpTo(c, table_id + 1)' <=> Before(c, cursor', table_id + 1) \/ Same(c, cursor', table_id + 1)
      BY <1>1, SkipRowFacts DEF UpTo, Before, Same
    <3> QED BY <3>1, <3>2, UpToSplit
  <2> QED BY <2>2, <2>4, <2>5, <2>6
<1>3. InNext'
  BY <1>1, <1>2, SkipRowFacts DEF InNext, Shown, Reset
<1> QED BY <1>1, <1>3, SkipRowFacts DEF JoinIInv

LEMMA AgainSkipsStep == JoinIInv /\ AgainSkips => JoinIInv'
<1> SUFFICES ASSUME JoinIInv, AgainSkips PROVE JoinIInv'
  OBVIOUS
<1>1. SkipRow(phase) /\ phase = "again" /\ JoinTypeOK /\ QueryData
  BY DEF AgainSkips, SkipRow, JoinIInv
<1>2. CASE Unwinding
  <2>1. table_id - 1 \in Tables
    BY <1>2, SkipRowFacts, <1>1 DEF Unwinding, Tables, JoinTypeOK
  <2> QED BY <1>2, <2>1 DEF AgainSkips, Unwinding
<1>3. CASE InAgain
  <2>1. Unpassed(table_id)'
    BY <1>1, <1>3, SkipRowFacts, NextRowFacts DEF InAgain, Unpassed
  <2>2. ASSUME NEW c PROVE Before(c, cursor, table_id) <=> Before(c, cursor', table_id)
    <3>1. \A s \in 0 .. table_id - 1 : cursor[s] = cursor'[s]
      BY <1>1, SkipRowFacts DEF Tables, JoinTypeOK
    <3> QED BY <3>1, <1>1, SkipRowFacts, OrderLocal
  <2>3. InAgain'
    BY <1>1, <1>3, <2>1, <2>2, SkipRowFacts DEF InAgain, Shown, Reset
  <2> QED BY <1>1, <2>3, SkipRowFacts DEF JoinIInv
<1> QED BY <1>1, <1>2, <1>3 DEF JoinIInv

\* A turn that moves the cursor and stores the record.
LEMMA TurnFacts ==
  ASSUME JoinIInv, NEW t \in Tables, Fetch(t), Store(t),
         UNCHANGED <<query, is_join_started, printed, row_no>>,
         is_join_finished' \in BOOLEAN, phase' = "next" \/ phase' = "again",
         table_id' \in -1 .. table_cnt
  PROVE  /\ JoinTypeOK' /\ QueryData' /\ Tables' = Tables
         /\ IsFiniteSet(printed') /\ row_no' = Cardinality(printed')
         /\ table_cnt' = table_cnt /\ pass' = pass /\ accept' = accept
         /\ cursor'[t] = NextRow(t) /\ rec'[t] = NextRow(t)
         /\ \A s \in Tables : s # t => cursor'[s] = cursor[s] /\ rec'[s] = rec[s]
<1>1. JoinTypeOK /\ QueryData
  BY DEF JoinIInv
<1>2. cursor' \in [Tables -> 0 .. MaxRows] /\ rec' \in [Tables -> 0 .. MaxRows]
  BY <1>1, Moved, Stored
<1>3. JoinTypeOK'
  BY <1>1, <1>2, TypeKept DEF JoinTypeOK
<1> QED BY <1>1, <1>3, Moved, Stored, DataKept DEF query

\* Up to a table at its end is up to the table before it.
LEMMA AtTheEnd ==
  ASSUME JoinTypeOK, QueryData, NEW t \in Tables, Fails(t), NEW c \in accept
  PROVE  UpTo(c, t + 1) <=> UpTo(c, t)
<1>1. /\ c[t] \in pass[t] /\ c[t] \in Int /\ cursor[t] \in Int /\ t \in Nat
      /\ c[t] =< cursor[t]
  <2>1. c[t] \in pass[t] /\ c[t] \in Int /\ cursor[t] \in Int
    BY AcceptedRows, NextRowFacts
  <2>2. c[t] =< cursor[t]
    BY <2>1, NextRowFacts DEF Fails
  <2> QED BY <2>1, <2>2, TableIds
<1> QED BY <1>1, UpToSplit DEF UpTo

LEMMA NextFindsStep == JoinIInv /\ NextFinds => JoinIInv'
<1> SUFFICES ASSUME JoinIInv, NextFinds PROVE JoinIInv'
  OBVIOUS
<1> DEFINE t0 == table_id
<1>1. InNext /\ JoinTypeOK /\ QueryData /\ t0 \in Tables /\ t0 \in Nat /\ t0 + 1 \in 1 .. table_cnt
  <2>1. InNext /\ JoinTypeOK /\ QueryData /\ t0 \in Tables
    BY DEF JoinIInv, NextFinds
  <2> QED BY <2>1, TableIds
<1>2. /\ JoinTypeOK' /\ QueryData' /\ Tables' = Tables
      /\ IsFiniteSet(printed') /\ row_no' = Cardinality(printed')
      /\ table_cnt' = table_cnt /\ pass' = pass /\ accept' = accept
      /\ cursor'[t0] = NextRow(t0) /\ rec'[t0] = NextRow(t0)
      /\ \A s \in Tables : s # t0 => cursor'[s] = cursor[s] /\ rec'[s] = rec[s]
  BY <1>1, TurnFacts DEF NextFinds, Goto, JoinTypeOK
<1>3. cursor'[t0] \in pass[t0] /\ cursor'[t0] = cursor[t0] + 1
  BY <1>1, <1>2, NextRowFacts DEF NextFinds, Finds
<1>4. ASSUME NEW c \in accept
      PROVE  UpTo(c, t0 + 1) <=> Before(c, cursor', t0 + 1)
  <2>1. c[t0] \in 1 .. MaxRows /\ cursor[t0] \in 0 .. MaxRows
    BY <1>1, AcceptedRows, NextRowFacts
  <2>2. \A s \in 0 .. t0 - 1 : cursor[s] = cursor'[s]
    BY <1>1, <1>2, TableIds
  <2>3. /\ Before(c, cursor, t0) <=> Before(c, cursor', t0)
        /\ Same(c, cursor, t0) <=> Same(c, cursor', t0)
    BY <2>2, <1>1, OrderLocal
  <2>4. UpTo(c, t0 + 1) <=> Before(c, cursor, t0) \/ (Same(c, cursor, t0) /\ c[t0] =< cursor[t0])
    BY <1>1, <2>1, UpToSplit DEF UpTo
  <2>5. Before(c, cursor', t0 + 1) <=> Before(c, cursor', t0)
                                         \/ (c[t0] < cursor'[t0] /\ Same(c, cursor', t0))
    BY <1>1, BeforeSplit
  <2>6. c[t0] =< cursor[t0] <=> c[t0] < cursor'[t0]
    BY <2>1, <1>3
  <2> QED BY <2>3, <2>4, <2>5, <2>6
<1>5. \A t \in Tables : t = t0 + 1 => Unpassed(t)'
  BY <1>1, <1>2, NextRowFacts DEF InNext, Reset, Unpassed
<1>6. table_id' = t0 + 1 /\ phase' = "again" /\ printed' = printed
      /\ is_join_started' = is_join_started /\ is_join_finished' = is_join_finished
  BY DEF NextFinds, Goto
<1>7. InAgain'
  <2>1. printed' = {c \in accept : Before(c, cursor', t0 + 1)}
    BY <1>1, <1>4, <1>6 DEF InNext
  <2>2. \A t \in Tables : t < t0 + 1 => Shown(t)'
    <3> SUFFICES ASSUME NEW t \in Tables, t < t0 + 1 PROVE Shown(t)'
      OBVIOUS
    <3>1. t \in Nat /\ t0 \in Nat
      BY <1>1, TableIds
    <3>4. t = t0 \/ (t < t0 /\ t # t0)
      BY <3>1
    <3>2. CASE t = t0
      BY <1>2, <1>3, <3>2 DEF Shown
    <3>3. CASE t < t0 /\ t # t0
      BY <1>1, <1>2, <3>3 DEF InNext, Shown
    <3> QED BY <3>2, <3>3, <3>4
  <2>3. \A t \in Tables : t > t0 + 1 => Reset(t)'
    BY <1>1, <1>2, TableIds DEF InNext, Reset
  <2> QED BY <1>1, <1>2, <1>5, <1>6, <2>1, <2>2, <2>3 DEF InNext, InAgain
<1> QED BY <1>2, <1>6, <1>7 DEF JoinIInv

LEMMA NextFailsStep == JoinIInv /\ NextFails => JoinIInv'
<1> SUFFICES ASSUME JoinIInv, NextFails PROVE JoinIInv'
  OBVIOUS
<1> DEFINE t0 == table_id
<1>1. /\ InNext /\ JoinTypeOK /\ QueryData /\ t0 \in Tables /\ t0 \in Nat /\ t0 - 1 \in Nat
      /\ t0 - 1 \in Tables /\ t0 - 1 \in -1 .. table_cnt /\ Fails(t0)
  <2>1. InNext /\ JoinTypeOK /\ QueryData /\ t0 \in Tables /\ t0 # 0 /\ Fails(t0)
    BY DEF JoinIInv, NextFails
  <2> QED BY <2>1, TableIds
<1>2. /\ JoinTypeOK' /\ QueryData' /\ Tables' = Tables
      /\ IsFiniteSet(printed') /\ row_no' = Cardinality(printed')
      /\ table_cnt' = table_cnt /\ pass' = pass /\ accept' = accept
      /\ cursor'[t0] = 0 /\ rec'[t0] = 0
      /\ \A s \in Tables : s # t0 => cursor'[s] = cursor[s] /\ rec'[s] = rec[s]
  BY <1>1, TurnFacts DEF NextFails, Goto, JoinTypeOK, Fails
<1>3. ASSUME NEW c \in accept
      PROVE  UpTo(c, t0 + 1) <=> Before(c, cursor', t0) \/ Same(c, cursor', t0)
  <2>1. \A s \in 0 .. t0 - 1 : cursor[s] = cursor'[s]
    BY <1>1, <1>2, TableIds
  <2>2. /\ Before(c, cursor, t0) <=> Before(c, cursor', t0)
        /\ Same(c, cursor, t0) <=> Same(c, cursor', t0)
    BY <2>1, <1>1, OrderLocal
  <2> QED BY <1>1, <2>2, AtTheEnd DEF UpTo
<1>4. table_id' = t0 - 1 /\ phase' = "next" /\ printed' = printed
      /\ is_join_started' = is_join_started /\ is_join_finished' = is_join_finished
  BY DEF NextFails, Goto
<1>5. InNext'
  <2>1. printed' = {c \in accept : Before(c, cursor', t0) \/ Same(c, cursor', t0)}
    BY <1>1, <1>3, <1>4 DEF InNext
  <2>2. t0 = table_id' + 1
    BY <1>1, <1>4
  <2>3. \A t \in Tables : t < t0 - 1 => Shown(t)'
    <3> SUFFICES ASSUME NEW t \in Tables, t < t0 - 1 PROVE Shown(t)'
      OBVIOUS
    <3>1. t \in Nat /\ t0 \in Nat
      BY <1>1, TableIds
    <3>2. t < t0 /\ t # t0
      BY <3>1
    <3> QED BY <1>1, <1>2, <3>2 DEF InNext, Shown
  <2>4. \A t \in Tables : t > t0 - 1 => Reset(t)'
    <3> SUFFICES ASSUME NEW t \in Tables, t > t0 - 1 PROVE Reset(t)'
      OBVIOUS
    <3>1. t \in Nat /\ t0 \in Nat
      BY <1>1, TableIds
    <3>2. t = t0 \/ (t > t0 /\ t # t0)
      BY <3>1
    <3> QED BY <1>1, <1>2, <3>2 DEF InNext, Reset
  <2> QED BY <1>1, <1>2, <1>4, <2>1, <2>2, <2>3, <2>4 DEF InNext, UpTo
<1> QED BY <1>2, <1>4, <1>5 DEF JoinIInv

LEMMA FirstTableEndsStep == JoinIInv /\ FirstTableEnds => JoinIInv'
<1> SUFFICES ASSUME JoinIInv, FirstTableEnds PROVE JoinIInv'
  OBVIOUS
<1>1. InNext /\ JoinTypeOK /\ QueryData /\ table_id = 0 /\ 0 \in Tables /\ Fails(0)
  BY DEF JoinIInv, FirstTableEnds, InNext
<1>2. 1 \in 1 .. table_cnt /\ 1 \in -1 .. table_cnt
  BY <1>1, TableIds
<1>3. /\ JoinTypeOK' /\ QueryData' /\ Tables' = Tables
      /\ IsFiniteSet(printed') /\ row_no' = Cardinality(printed')
      /\ table_cnt' = table_cnt /\ accept' = accept
      /\ rec'[0] = 0
      /\ \A s \in Tables : s # 0 => rec'[s] = rec[s]
  BY <1>1, <1>2, TurnFacts DEF FirstTableEnds, Goto, Fails
<1>4. \A c \in accept : UpTo(c, 0)
  BY DEF UpTo, Same
<1>5. printed' = accept
  BY <1>1, <1>4, AtTheEnd DEF FirstTableEnds, InNext
<1>6. \A t \in Tables : rec'[t] = 0
  BY <1>1, <1>3, TableIds DEF InNext, Reset
<1>7. Unwinding'
  BY <1>1, <1>2, <1>3, <1>5, <1>6 DEF Unwinding, FirstTableEnds, Goto, InNext
<1> QED BY <1>3, <1>7 DEF JoinIInv, FirstTableEnds, Goto

LEMMA AgainAbortsStep == JoinIInv /\ AgainAborts => JoinIInv'
<1> SUFFICES ASSUME JoinIInv, AgainAborts PROVE JoinIInv'
  OBVIOUS
<1>1. JoinTypeOK /\ QueryData /\ table_id \in Tables /\ rec[table_id - 1] = 0
  BY DEF JoinIInv, AgainAborts
<1>2. CASE InAgain
  <2>1. table_id - 1 \in Tables /\ table_id - 1 < table_id
    BY <1>1, <1>2, TableIds DEF InAgain
  <2>2. 0 \in pass[table_id - 1]
    BY <1>1, <1>2, <2>1 DEF InAgain, Shown
  <2> QED BY <1>1, <2>1, <2>2, NextRowFacts
<1>3. CASE Unwinding
  <2>1. JoinTypeOK'
    BY <1>1, TableIds, TypeKept DEF JoinTypeOK, AgainAborts, Goto
  <2>2. Unwinding'
    BY <1>1, <1>3, TableIds DEF Unwinding, AgainAborts, Goto, query, Tables
  <2> QED BY <2>1, <2>2, DataKept DEF JoinIInv, AgainAborts, Goto
<1> QED BY <1>2, <1>3 DEF JoinIInv, AgainAborts

LEMMA AgainEndsStep == JoinIInv /\ AgainEnds => JoinIInv'
<1> SUFFICES ASSUME JoinIInv, AgainEnds PROVE JoinIInv'
  OBVIOUS
<1> DEFINE t0 == table_id
<1>1. JoinTypeOK /\ QueryData /\ t0 \in Tables /\ rec[t0 - 1] # 0
  BY DEF JoinIInv, AgainEnds
<1>2. InAgain
  <2>1. CASE Unwinding
    <3>1. t0 - 1 \in Tables
      BY <1>1, <2>1, TableIds DEF Unwinding
    <3> QED BY <1>1, <2>1, <3>1 DEF Unwinding
  <2> QED BY <2>1 DEF JoinIInv, AgainEnds
<1>3. /\ JoinTypeOK' /\ QueryData' /\ Tables' = Tables
      /\ IsFiniteSet(printed') /\ row_no' = Cardinality(printed')
      /\ table_cnt' = table_cnt /\ pass' = pass /\ accept' = accept
      /\ cursor'[t0] = NextRow(t0) /\ rec'[t0] = NextRow(t0)
      /\ \A s \in Tables : s # t0 => cursor'[s] = cursor[s] /\ rec'[s] = rec[s]
  BY <1>1, TableIds, TurnFacts DEF AgainEnds, Goto, JoinTypeOK
<1>4. Finds(t0)
  <2>1. PICK r \in pass[t0] : r > cursor[t0]
    BY <1>1, <1>2 DEF InAgain, Unpassed
  <2> QED BY <1>1, <2>1, NextRowFacts DEF AgainEnds, Fails
<1>5. cursor'[t0] \in pass[t0] /\ cursor'[t0] = cursor[t0] + 1
  BY <1>1, <1>3, <1>4, NextRowFacts DEF Finds
<1>6. ASSUME NEW c \in accept
      PROVE  Before(c, cursor, t0) <=> Before(c, cursor', t0 + 1)
  <2>1. \A s \in 0 .. t0 - 1 : cursor[s] = cursor'[s]
    BY <1>1, <1>3, TableIds
  <2>2. Before(c, cursor, t0) <=> Before(c, cursor', t0)
    BY <2>1, <1>1, TableIds, OrderLocal
  <2>3. c[t0] \in pass[t0] /\ c[t0] \in Int /\ cursor[t0] \in Int
    BY <1>1, AcceptedRows, NextRowFacts
  <2>4. ~(c[t0] < cursor'[t0])
    BY <1>1, <1>2, <1>5, <2>3 DEF InAgain, Unpassed
  <2> QED BY <1>1, <2>2, <2>4, TableIds, BeforeSplit
<1>7. table_id' = t0 + 1 /\ phase' = "again" /\ printed' = printed
      /\ is_join_started' = is_join_started /\ is_join_finished' = is_join_finished
  BY DEF AgainEnds, Goto
<1>8. InAgain'
  <2>1. printed' = {c \in accept : Before(c, cursor', t0 + 1)}
    BY <1>2, <1>6, <1>7 DEF InAgain
  <2>2. \A t \in Tables : t < t0 + 1 => Shown(t)'
    <3> SUFFICES ASSUME NEW t \in Tables, t < t0 + 1 PROVE Shown(t)'
      OBVIOUS
    <3>1. t \in Nat /\ t0 \in Nat
      BY <1>1, TableIds
    <3>4. t = t0 \/ (t < t0 /\ t # t0)
      BY <3>1
    <3>2. CASE t = t0
      BY <1>3, <1>5, <3>2 DEF Shown
    <3>3. CASE t < t0 /\ t # t0
      BY <1>2, <1>3, <3>3 DEF InAgain, Shown
    <3> QED BY <3>2, <3>3, <3>4
  <2>3. \A t \in Tables : t = t0 + 1 => Unpassed(t)'
    BY <1>1, <1>2, <1>3, TableIds, NextRowFacts DEF InAgain, Reset, Unpassed
  <2>4. \A t \in Tables : t > t0 + 1 => Reset(t)'
    <3> SUFFICES ASSUME NEW t \in Tables, t > t0 + 1 PROVE Reset(t)'
      OBVIOUS
    <3>1. t \in Nat /\ t0 \in Nat
      BY <1>1, TableIds
    <3>2. t > t0 /\ t # t0
      BY <3>1
    <3> QED BY <1>2, <1>3, <3>2 DEF InAgain, Reset
  <2> QED BY <1>1, <1>2, <1>3, <1>7, <2>1, <2>2, <2>3, <2>4, TableIds DEF InAgain
<1> QED BY <1>3, <1>7, <1>8 DEF JoinIInv

LEMMA NextReturnsStep == JoinIInv /\ NextReturns => JoinIInv'
<1> SUFFICES ASSUME JoinIInv, NextReturns PROVE JoinIInv'
  OBVIOUS
<1>1. JoinTypeOK /\ QueryData /\ phase = "again" /\ table_id = table_cnt /\ table_cnt \in Nat \ {0}
  BY DEF JoinIInv, NextReturns, JoinTypeOK
<1>2. JoinTypeOK'
  BY <1>1, TypeKept DEF JoinTypeOK, NextReturns, Goto, LastTable
<1>3. CASE InAgain
  <2>1. \A t \in Tables : Shown(t)
    BY <1>1, <1>3 DEF InAgain, Tables
  <2>2. AtDelivery'
    BY <1>1, <1>3, <2>1 DEF InAgain, AtDelivery, NextReturns, Goto, Shown, query, Tables
  <2> QED BY <1>2, <1>3, <2>2, DataKept DEF JoinIInv, NextReturns, Goto, InAgain
<1>4. CASE Unwinding
  BY <1>2, <1>4, DataKept DEF JoinIInv, NextReturns, Goto, Unwinding, query
<1> QED BY <1>1, <1>3, <1>4 DEF JoinIInv

\* The row on the odometer, seen as a combination.
LEMMA RowOnOdometer ==
  ASSUME JoinTypeOK, QueryData, AtDelivery
  PROVE  /\ rec = cursor
         /\ rec \in Combos(table_cnt, pass)
         /\ rec \notin printed
         /\ rec \in accept \/ Rejected
         /\ \A c \in accept : Same(c, cursor, table_cnt) <=> c = rec
<1>1. table_cnt \in Nat
  BY DEF JoinTypeOK
<1>2. \A t \in Tables : rec[t] = cursor[t] /\ rec[t] \in pass[t] /\ rec[t] \in 1 .. MaxRows
  BY NextRowFacts DEF AtDelivery, Shown
<1>3. rec = cursor
  BY <1>2 DEF JoinTypeOK
<1>4. rec \in [0 .. table_cnt - 1 -> 1 .. MaxRows]
  BY <1>2 DEF JoinTypeOK, Tables
<1>5. rec \in Combos(table_cnt, pass)
  BY <1>2, <1>4 DEF Combos, Tables
<1>6. rec \notin printed
  <2>1. ~Before(rec, cursor, table_cnt)
    BY <1>1, <1>2, <1>3, BeforeIsStrict DEF Same, Tables
  <2> QED BY <2>1 DEF AtDelivery
<1>7. rec \in accept \/ Rejected
  <2>1. table_cnt = 1 \/ table_cnt > 1
    BY DEF JoinTypeOK
  <2> QED BY <1>5, <2>1 DEF QueryData, Rejected
<1>8. ASSUME NEW c \in accept
      PROVE  Same(c, cursor, table_cnt) <=> c = rec
  <2>1. c \in [0 .. table_cnt - 1 -> 1 .. MaxRows]
    BY DEF JoinTypeOK, Combos
  <2>2. c = [s \in 0 .. table_cnt - 1 |-> c[s]] /\ rec = [s \in 0 .. table_cnt - 1 |-> rec[s]]
    BY <1>4, <2>1
  <2>3. ASSUME Same(c, cursor, table_cnt) PROVE c = rec
    <3>1. \A s \in 0 .. table_cnt - 1 : c[s] = rec[s]
      BY <1>3, <2>3 DEF Same
    <3>2. [s \in 0 .. table_cnt - 1 |-> c[s]] = [s \in 0 .. table_cnt - 1 |-> rec[s]]
      BY <3>1
    <3> QED BY <2>2, <3>2
  <2>4. ASSUME c = rec PROVE Same(c, cursor, table_cnt)
    BY <1>3, <2>4 DEF Same
  <2> QED BY <2>3, <2>4
<1> QED BY <1>3, <1>5, <1>6, <1>7, <1>8

LEMMA PassOverStep == JoinIInv /\ PassOver => JoinIInv'
<1> SUFFICES ASSUME JoinIInv, PassOver PROVE JoinIInv'
  OBVIOUS
<1>1. JoinTypeOK /\ QueryData /\ AtDelivery /\ rec \notin accept
  BY DEF JoinIInv, PassOver, Rejected
<1>2. JoinTypeOK'
  BY <1>1, TypeKept DEF JoinTypeOK, PassOver, Goto, LastTable
<1>3. \A c \in accept : ~Same(c, cursor, table_cnt)
  BY <1>1, RowOnOdometer
<1>4. AtRow'
  BY <1>1, <1>3 DEF AtRow, AtDelivery, PassOver, Goto, UpTo, Shown, query, Tables, LastTable
<1> QED BY <1>2, <1>4, DataKept DEF JoinIInv, PassOver, Goto

LEMMA EmitRowStep == JoinIInv /\ EmitRow => JoinIInv'
<1> SUFFICES ASSUME JoinIInv, EmitRow PROVE JoinIInv'
  OBVIOUS
<1>1. JoinTypeOK /\ QueryData /\ AtDelivery /\ ~Rejected
  BY DEF JoinIInv, EmitRow
<1>2. /\ rec \in accept /\ rec \notin printed /\ rec \in Combos(table_cnt, pass)
      /\ \A c \in accept : Same(c, cursor, table_cnt) <=> c = rec
  BY <1>1, RowOnOdometer
<1>3. Combos(table_cnt, pass)' = Combos(table_cnt, pass) /\ Tables' = Tables /\ QueryData'
  BY <1>1 DEF EmitRow, query, Combos, Tables, QueryData
<1>4. JoinTypeOK'
  BY <1>1, <1>2, <1>3 DEF JoinTypeOK, EmitRow, Goto, LastTable, query
<1>5. IsFiniteSet(printed') /\ row_no' = Cardinality(printed')
  BY <1>2, FS_AddElement DEF JoinIInv, EmitRow
<1>6. printed' = {c \in accept : UpTo(c, table_cnt)}
  BY <1>1, <1>2 DEF AtDelivery, EmitRow, UpTo
<1>7. AtRow'
  BY <1>1, <1>6 DEF AtRow, AtDelivery, EmitRow, Goto, UpTo, Shown, query, Tables, LastTable
<1> QED BY <1>3, <1>4, <1>5, <1>7 DEF JoinIInv, EmitRow, Goto

-----------------------------------------------------------------------------
(* The theorems.                                                           *)

LEMMA InitEstablishes == JoinInit => JoinIInv
<1> SUFFICES ASSUME JoinInit PROVE JoinIInv
  OBVIOUS
<1>1. table_cnt \in Nat \ {0}
  BY DEF JoinInit
<1>2. JoinTypeOK
  <2>1. cursor \in [Tables -> 0 .. MaxRows] /\ rec \in [Tables -> 0 .. MaxRows]
    BY DEF JoinInit
  <2>2. table_id \in -1 .. table_cnt
    BY <1>1 DEF JoinInit, LastTable
  <2> QED BY <2>1, <2>2 DEF JoinInit, JoinTypeOK
<1>3. AtStart
  BY DEF JoinInit, AtStart, Reset
<1> QED BY <1>2, <1>3, FS_EmptySet DEF JoinInit, JoinIInv, QueryData

LEMMA StutterStep == JoinIInv /\ UNCHANGED joinVars => JoinIInv'
<1> SUFFICES ASSUME JoinIInv, UNCHANGED joinVars PROVE JoinIInv'
  OBVIOUS
<1>1. JoinTypeOK'
  BY TypeKept DEF JoinIInv, JoinTypeOK, joinVars, query
<1>2. QueryData' /\ IsFiniteSet(printed') /\ row_no' = Cardinality(printed') /\ Tables' = Tables
  BY DataKept DEF joinVars, query
<1>3. /\ AtStart' <=> AtStart
      /\ AtRow' <=> AtRow
      /\ InFirst' <=> InFirst
      /\ InNext' <=> InNext
      /\ InAgain' <=> InAgain
      /\ Unwinding' <=> Unwinding
      /\ AtDelivery' <=> AtDelivery
  BY DEF joinVars, AtStart, AtRow, InFirst, InNext, InAgain, Unwinding, AtDelivery,
         Tables, LastTable, Shown, Reset, Unpassed, AtLeast, UpTo
<1> QED BY <1>1, <1>2, <1>3 DEF JoinIInv, joinVars

(* The odometer is where printed says it is, in every loop.                *)
THEOREM JoinInductive == JoinSpec => []JoinIInv
<1>1. JoinInit => JoinIInv
  BY InitEstablishes
<1>2. JoinIInv /\ [JoinNext]_joinVars => JoinIInv'
  BY StartJoinStep, ContinueJoinStep, FirstSkipsStep, FirstFindsStep, FirstFailsStep, FirstReturnsStep,
     NextSkipsStep, NextFindsStep, NextFailsStep, FirstTableEndsStep, AgainAbortsStep,
     AgainSkipsStep, AgainEndsStep, NextReturnsStep, PassOverStep, EmitRowStep, StutterStep
     DEF JoinNext
<1> QED BY <1>1, <1>2, PTL DEF JoinSpec

(* Type correctness of the executor's cursors, row and counters.           *)
THEOREM JoinTypeCorrect == JoinSpec => []JoinTypeOK
<1>1. JoinIInv => JoinTypeOK
  BY DEF JoinIInv
<1> QED BY <1>1, JoinInductive, PTL

(* A row that is delivered has a record of every table, none left NULL.    *)
THEOREM RowsAreComplete == JoinSpec => []RowIsComplete
<1>1. JoinIInv => RowIsComplete
  BY DEF JoinIInv, RowIsComplete, AtDelivery, Shown
<1> QED BY <1>1, JoinInductive, PTL

(* The wheels turn back without skipping or repeating a combination.       *)
THEOREM NothingIsSkipped == JoinSpec => []NothingSkipped
<1>1. JoinIInv => NothingSkipped
  BY DEF JoinIInv, NothingSkipped, AtStart, AtRow
<1> QED BY <1>1, JoinInductive, PTL

(* A query that has ended has printed its whole answer, each row once.     *)
THEOREM WholeAnswerPrinted == JoinSpec => []AnswerIsWhole
<1>1. JoinIInv => AnswerIsWhole
  BY DEF JoinIInv, AnswerIsWhole
<1> QED BY <1>1, JoinInductive, PTL

(* The executor implements the abstract answer: a printed row is the first *)
(* of those left, every other step is invisible, and the query ends only   *)
(* when nothing is left.                                                   *)
THEOREM ExecutorImplementsAnswer == JoinSpec => ImplementsAnswer
<1>1. JoinInit => Answer!AnswerInit
  BY DEF JoinInit, Answer!AnswerInit
<1>2. JoinIInv /\ JoinIInv' /\ [JoinNext]_joinVars => [Answer!AnswerNext]_Answer!answerVars
  <2> SUFFICES ASSUME JoinIInv, JoinIInv', [JoinNext]_joinVars PROVE [Answer!AnswerNext]_Answer!answerVars
    OBVIOUS
  <2>1. CASE EmitRow
    <3>1. JoinTypeOK /\ QueryData /\ AtDelivery /\ table_cnt \in Nat /\ ~Rejected
      BY <2>1 DEF JoinIInv, EmitRow, JoinTypeOK
    <3>2. /\ rec = cursor /\ rec \in accept /\ rec \notin printed
          /\ \A c \in accept : Same(c, cursor, table_cnt) <=> c = rec
      BY <3>1, RowOnOdometer
    <3>3. ASSUME NEW d \in (accept \ printed) \ {rec}
          PROVE  Before(rec, d, table_cnt)
      <4>1. ~Before(d, rec, table_cnt) /\ ~Same(d, rec, table_cnt)
        BY <3>1, <3>2, <3>3 DEF AtDelivery
      <4>2. \A s \in 0 .. table_cnt - 1 : d[s] \in Int /\ rec[s] \in Int
        <5> TAKE s \in 0 .. table_cnt - 1
        <5>1. s \in Tables
          BY DEF Tables
        <5> QED BY <3>1, <3>2, <5>1, AcceptedRows
      <4> QED BY <3>1, <4>1, <4>2, Ordered
    <3>4. accept' \ printed' = (accept \ printed) \ {rec}
      BY <2>1 DEF EmitRow, query
    <3>5. Answer!PrintLeast
      <4>1. row_no' = row_no + 1 /\ table_cnt' = table_cnt /\ phase = "deliver" /\ phase' = "join"
        BY <2>1 DEF EmitRow, query, Goto
      <4> QED BY <3>2, <3>3, <3>4, <4>1 DEF Answer!PrintLeast, Answer!Before, Answer!Same, Before, Same
    <3> QED BY <3>5 DEF Answer!AnswerNext
  <2>2. CASE FirstFails \/ NextReturns
    <3>1. /\ table_cnt' = table_cnt /\ accept' = accept /\ printed' = printed /\ row_no' = row_no
          /\ phase # "done"
      BY <2>2 DEF FirstFails, NextReturns, query
    <3>2. phase' = "done" => Answer!End
      BY <3>1 DEF Answer!End, JoinIInv
    <3>3. phase' # "done" => UNCHANGED Answer!answerVars
      BY <3>1 DEF Answer!answerVars
    <3> QED BY <3>2, <3>3 DEF Answer!AnswerNext
  <2>3. CASE \/ StartJoin \/ ContinueJoin
             \/ FirstSkips \/ FirstFinds \/ FirstReturns
             \/ NextSkips \/ NextFinds \/ NextFails \/ FirstTableEnds
             \/ AgainAborts \/ AgainSkips \/ AgainEnds \/ PassOver
    <3>1. /\ table_cnt' = table_cnt /\ accept' = accept /\ printed' = printed /\ row_no' = row_no
          /\ phase # "done" /\ phase' # "done"
      BY <2>3 DEF StartJoin, ContinueJoin, FirstSkips, FirstFinds, FirstReturns, NextSkips, NextFinds,
                  NextFails, FirstTableEnds, AgainAborts, AgainSkips, AgainEnds, PassOver, SkipRow,
                  Goto, query
    <3> QED BY <3>1 DEF Answer!answerVars
  <2>4. CASE UNCHANGED joinVars
    BY <2>4 DEF joinVars, Answer!answerVars
  <2> QED BY <2>1, <2>2, <2>3, <2>4 DEF JoinNext
<1> QED BY <1>1, <1>2, JoinInductive, PTL DEF JoinSpec, ImplementsAnswer, Answer!AnswerSpec
=============================================================================
