--------------------------- MODULE CatalogProofs ----------------------------
(***************************************************************************)
(* Proofs about Catalog: however many columns a table has, of whatever     *)
(* types and sizes, keys and records are filled from the same bytes, no    *)
(* two rows have the same primary key, rows read back as they were         *)
(* inserted, and the statements are steps of relations.                    *)
(***************************************************************************)
EXTENDS Catalog, TLAPS, SequenceTheorems, FiniteSetTheorems, WellFoundedInduction

(* A set of natural numbers that is not empty has a smallest member. *)
LEMMA SmallestOf ==
  ASSUME NEW S \in SUBSET Nat, S # {}
  PROVE  \E j \in S : \A l \in S : j <= l
<1>1. IsWellFoundedOn(OpToRel(<, Nat), Nat)
  BY NatLessThanWellFounded
<1>2. PICK j \in S : \A l \in S : ~(<<l, j>> \in OpToRel(<, Nat))
  BY <1>1, WFMin
<1>3. \A l \in S : ~(l < j)
  BY <1>2 DEF OpToRel
<1> QED BY <1>3

(* What holds of 0 and passes from each number to the next holds up to n. *)
LEMMA UpTo ==
  ASSUME NEW n \in Nat, NEW S, 0 \in S, \A i \in 0..n - 1 : i \in S => i + 1 \in S
  PROVE  \A i \in 0..n : i \in S
<1> DEFINE Bad == {i \in 0..n : i \notin S}
<1>1. SUFFICES ASSUME Bad # {} PROVE FALSE
  OBVIOUS
<1>2. PICK j \in Bad : \A l \in Bad : j <= l
  <2>1. Bad \in SUBSET Nat
    OBVIOUS
  <2> HIDE DEF Bad
  <2> QED BY <1>1, <2>1, SmallestOf
<1>3. j # 0 /\ j - 1 \in 0..n - 1 /\ j - 1 \in 0..n
  BY <1>2
<1>4. j - 1 \in S
  BY <1>2, <1>3
<1>5. j \in S
  BY <1>3, <1>4
<1> QED BY <1>2, <1>5

(* A loop that carries a value of T from turn to turn. *)
Loop(f, n, a, step) ==
  f = [i \in 0..n |-> IF i = 0 THEN a ELSE step[<<i, f[i - 1]>>]]

LEMMA LoopExists ==
  ASSUME NEW n \in Nat, NEW T, NEW a \in T, NEW step \in [(1..n) \X T -> T]
  PROVE  \E f \in [0..n -> T] : Loop(f, n, a, step)
<1> DEFINE S == {m \in 0..n : \E f \in [0..m -> T] : Loop(f, m, a, step)}
<1>1. 0 \in S
  <2> DEFINE f == [i \in 0..0 |-> a]
  <2>1. f \in [0..0 -> T] /\ Loop(f, 0, a, step)
    BY DEF Loop
  <2> HIDE DEF f
  <2> QED BY <2>1
<1>2. ASSUME NEW m \in 0..n - 1, m \in S
      PROVE  m + 1 \in S
  <2>1. PICK f \in [0..m -> T] : Loop(f, m, a, step)
    BY <1>2
  <2> DEFINE g == [i \in 0..m + 1 |-> IF i = m + 1 THEN step[<<i, f[m]>>] ELSE f[i]]
  <2>2. g \in [0..m + 1 -> T]
    BY <1>2, <2>1
  <2>3. ASSUME NEW i \in 0..m + 1
        PROVE  g[i] = IF i = 0 THEN a ELSE step[<<i, g[i - 1]>>]
    <3>1. CASE i = m + 1
      <4>1. i # 0 /\ i - 1 = m /\ i - 1 \in 0..m + 1 /\ i - 1 # m + 1
        BY <1>2, <3>1
      <4>2. g[i] = step[<<i, f[m]>>] /\ g[i - 1] = f[m]
        BY <3>1, <4>1
      <4> QED BY <4>1, <4>2
    <3>2. CASE i \in 0..m
      <4>1. f[i] = IF i = 0 THEN a ELSE step[<<i, f[i - 1]>>]
        BY <2>1, <3>2 DEF Loop
      <4>2. i # m + 1 /\ i \in 0..m + 1 /\ (i # 0 => i - 1 \in 0..m + 1 /\ i - 1 # m + 1)
        BY <1>2, <3>2
      <4>3. g[i] = f[i] /\ (i # 0 => g[i - 1] = f[i - 1])
        BY <4>2
      <4> HIDE DEF g
      <4> QED BY <4>1, <4>3
    <3> QED BY <1>2, <3>1, <3>2
  <2> HIDE DEF g
  <2>4. Loop(g, m + 1, a, step)
    BY <2>2, <2>3 DEF Loop
  <2> QED BY <1>2, <2>2, <2>4
<1> HIDE DEF S
<1>3. n \in S
  BY <1>1, <1>2, UpTo
<1> QED BY <1>3 DEF S

-----------------------------------------------------------------------------
(* Sums. *)

IsSum(f, s) == f = [i \in 0..Len(s) |-> IF i = 0 THEN 0 ELSE f[i - 1] + s[i]]

(* The running sum that Total computes. *)
Runs(f, s, n) ==
  /\ f \in [0..n -> Nat]
  /\ f[0] = 0
  /\ \A i \in 1..n : f[i] = f[i - 1] + s[i]
  /\ Total(s) = f[n]

LEMMA TotalRuns ==
  ASSUME NEW s \in Seq(Nat), NEW n \in Nat, n = Len(s)
  PROVE  \E f : Runs(f, s, n)
<1>2. \A i \in 1..n : s[i] \in Nat
  OBVIOUS
<1> DEFINE step == [x \in (1..n) \X Nat |-> x[2] + s[x[1]]]
<1>3. step \in [(1..n) \X Nat -> Nat]
  BY <1>2
<1>4. \A i \in 1..n : \A v \in Nat : step[<<i, v>>] = v + s[i]
  OBVIOUS
<1> HIDE DEF step
<1>5. PICK g \in [0..n -> Nat] : Loop(g, n, 0, step)
  BY <1>3, LoopExists
<1>6. IsSum(g, s)
  <2>1. ASSUME NEW i \in 0..n
        PROVE  g[i] = IF i = 0 THEN 0 ELSE g[i - 1] + s[i]
    <3>1. g[i] = IF i = 0 THEN 0 ELSE step[<<i, g[i - 1]>>]
      BY <1>5 DEF Loop
    <3>2. i # 0 => i \in 1..n /\ g[i - 1] \in Nat
      BY <1>5
    <3> QED BY <1>4, <3>1, <3>2
  <2> QED BY <2>1 DEF IsSum
<1>7. PICK f : f = CHOOSE h : IsSum(h, s)
  OBVIOUS
<1>8. IsSum(f, s)
  BY <1>6, <1>7
<1>9. Total(s) = f[n]
  BY <1>7 DEF Total, IsSum
<1>10. f[0] = 0 /\ \A i \in 1..n : f[i] = f[i - 1] + s[i]
  <2>1. \A i \in 0..n : f[i] = IF i = 0 THEN 0 ELSE f[i - 1] + s[i]
    BY <1>8 DEF IsSum
  <2>2. ASSUME NEW i \in 1..n
        PROVE  f[i] = f[i - 1] + s[i]
    <3>1. i \in 0..n /\ i # 0
      OBVIOUS
    <3> QED BY <2>1, <3>1
  <2> QED BY <2>1, <2>2
<1>11. \A i \in 0..n : f[i] \in Nat
  <2> DEFINE S == {i \in 0..n : f[i] \in Nat}
  <2>1. 0 \in S
    BY <1>10
  <2>2. ASSUME NEW i \in 0..n - 1, i \in S
        PROVE  i + 1 \in S
    <3>1. i + 1 \in 1..n /\ i + 1 - 1 = i /\ i + 1 \in 0..n
      OBVIOUS
    <3>2. f[i + 1] = f[i] + s[i + 1]
      BY <1>10, <3>1
    <3> QED BY <1>2, <2>2, <3>1, <3>2
  <2> HIDE DEF S
  <2>3. \A i \in 0..n : i \in S
    BY <2>1, <2>2, UpTo
  <2> QED BY <2>3 DEF S
<1>12. f \in [0..n -> Nat]
  <2>1. f = [i \in 0..n |-> f[i]]
    BY <1>8 DEF IsSum
  <2> QED BY <1>11, <2>1
<1> QED BY <1>9, <1>10, <1>12 DEF Runs

(* A sum without its last term. *)
LEMMA TotalStep ==
  ASSUME NEW s \in Seq(Nat), NEW t \in Seq(Nat), Len(s) = Len(t) + 1,
         \A i \in 1..Len(t) : t[i] = s[i]
  PROVE  Total(s) = Total(t) + s[Len(s)]
<1>1. PICK n \in Nat : n = Len(t) /\ Len(s) = n + 1
  OBVIOUS
<1>2. PICK f : Runs(f, s, n + 1)
  BY <1>1, TotalRuns
<1>3. PICK g : Runs(g, t, n)
  BY <1>1, TotalRuns
<1> DEFINE S == {i \in 0..n : f[i] = g[i]}
<1>4. 0 \in S
  BY <1>2, <1>3 DEF Runs
<1>5. ASSUME NEW i \in 0..n - 1, i \in S
      PROVE  i + 1 \in S
  <2>1. i + 1 \in 1..n /\ i + 1 - 1 = i /\ i + 1 \in 0..n /\ i + 1 \in 1..n + 1
    OBVIOUS
  <2>2. f[i + 1] = f[i] + s[i + 1] /\ g[i + 1] = g[i] + t[i + 1] /\ t[i + 1] = s[i + 1]
    BY <1>1, <1>2, <1>3, <2>1 DEF Runs
  <2> QED BY <1>5, <2>1, <2>2
<1> HIDE DEF S
<1>6. \A i \in 0..n : i \in S
  BY <1>4, <1>5, UpTo
<1>7. f[n] = g[n]
  BY <1>6 DEF S
<1>8. f[n + 1] = f[n] + s[n + 1]
  BY <1>2 DEF Runs
<1> QED BY <1>1, <1>2, <1>3, <1>7, <1>8 DEF Runs

LEMMA TotalIsNat ==
  ASSUME NEW s \in Seq(Nat)
  PROVE  Total(s) \in Nat
<1>1. PICK n \in Nat : n = Len(s)
  OBVIOUS
<1>2. PICK f : Runs(f, s, n)
  BY <1>1, TotalRuns
<1> QED BY <1>2 DEF Runs

LEMMA TotalOfNone ==
  ASSUME NEW s \in Seq(Nat), Len(s) = 0
  PROVE  Total(s) = 0
<1>1. PICK n \in Nat : n = 0 /\ n = Len(s)
  OBVIOUS
<1>2. PICK f : Runs(f, s, n)
  BY <1>1, TotalRuns
<1> QED BY <1>1, <1>2 DEF Runs

-----------------------------------------------------------------------------
(* Columns and their places in a record. *)

Columns == {cols \in Seq(Column) : cols # <<>> /\ DistinctColumns(cols)}

LEMMA ColumnFacts ==
  ASSUME NEW cols \in Columns, NEW i \in 1..Len(cols)
  PROVE  /\ cols \in Seq(Column) /\ Len(cols) \in Nat /\ DOMAIN cols = 1..Len(cols)
         /\ cols[i] \in Column /\ cols[i].len \in Nat /\ cols[i].pk \in BOOLEAN
         /\ \A j \in 1..Len(cols) : cols[j].name = cols[i].name => j = i
<1>1. cols \in Seq(Column) /\ cols[i] \in Column
  BY DEF Columns
<1> QED BY <1>1 DEF Columns, Column, DistinctColumns

LEMMA Offsets ==
  ASSUME NEW cols \in Columns, NEW i \in 1..Len(cols)
  PROVE  /\ Offset(cols, i) \in Nat
         /\ Offset(cols, i + 1) = Offset(cols, i) + cols[i].len
<1> DEFINE s == [j \in 1..i |-> cols[j].len]
           t == [j \in 1..i - 1 |-> cols[j].len]
<1>1. \A j \in 1..i : cols[j].len \in Nat
  <2>1. ASSUME NEW j \in 1..i
        PROVE  cols[j].len \in Nat
    <3>1. j \in 1..Len(cols)
      BY DEF Columns
    <3> QED BY <3>1, ColumnFacts
  <2> QED BY <2>1
<1>2. i \in Nat /\ i - 1 \in Nat
  BY DEF Columns
<1>3. s \in Seq(Nat) /\ Len(s) = i
  BY <1>1, <1>2
<1>4. t \in Seq(Nat) /\ Len(t) = i - 1
  BY <1>1, <1>2
<1>5. s[i] = cols[i].len /\ \A j \in 1..i - 1 : t[j] = s[j]
  BY <1>2
<1>6. Offset(cols, i) = Total(t)
  BY DEF Offset
<1>7. Offset(cols, i + 1) = Total(s)
  BY <1>2 DEF Offset
<1> HIDE DEF s, t
<1>8. Total(s) = Total(t) + s[Len(s)]
  BY <1>2, <1>3, <1>4, <1>5, TotalStep, SMTT(40)
<1> QED BY <1>3, <1>4, <1>5, <1>6, <1>7, <1>8, TotalIsNat

(* A field ends before the next one begins. *)
LEMMA FieldsApart ==
  ASSUME NEW cols \in Columns, NEW i \in 1..Len(cols), NEW j \in i + 1..Len(cols) + 1
  PROVE  Offset(cols, j) \in Nat /\ Offset(cols, i) + cols[i].len <= Offset(cols, j)
<1>1. Len(cols) \in Nat /\ i \in Nat /\ Offset(cols, i) \in Nat /\ cols[i].len \in Nat
  BY ColumnFacts, Offsets
<1>2. PICK n \in Nat : n = Len(cols)
  BY <1>1
<1> DEFINE S == {d \in 0..n - i : /\ Offset(cols, i + 1 + d) \in Nat
                                  /\ Offset(cols, i) + cols[i].len <= Offset(cols, i + 1 + d)}
<1>3. 0 \in S
  <2>1. Offset(cols, i + 1) = Offset(cols, i) + cols[i].len
    BY Offsets
  <2>2. i + 1 + 0 = i + 1 /\ 0 \in 0..n - i
    BY <1>1, <1>2
  <2> QED BY <1>1, <2>1, <2>2
<1>4. ASSUME NEW d \in 0..n - i - 1, d \in S
      PROVE  d + 1 \in S
  <2>1. PICK l \in 1..Len(cols) : l = i + 1 + d /\ i + 1 + (d + 1) = l + 1
    BY <1>1, <1>2, SMTT(40)
  <2>2. Offset(cols, l + 1) = Offset(cols, l) + cols[l].len /\ cols[l].len \in Nat
    BY Offsets, ColumnFacts
  <2>3. d + 1 \in 0..n - i
    BY <1>1, <1>2
  <2>4. Offset(cols, l) \in Nat /\ Offset(cols, i) + cols[i].len <= Offset(cols, l)
    BY <1>4, <2>1
  <2>5. /\ Offset(cols, l + 1) \in Nat
        /\ Offset(cols, i) + cols[i].len <= Offset(cols, l + 1)
    BY <1>1, <2>2, <2>4, SMTT(40)
  <2> QED BY <2>1, <2>3, <2>5
<1> HIDE DEF S
<1>5. n - i \in Nat
  BY <1>1, <1>2
<1>6. \A d \in 0..n - i : d \in S
  BY <1>3, <1>4, <1>5, UpTo
<1>7. j - (i + 1) \in 0..n - i /\ i + 1 + (j - (i + 1)) = j
  BY <1>1, <1>2
<1> QED BY <1>6, <1>7 DEF S

(* The entry of a table that has its trees. *)
Describes(e, cols) ==
  /\ e.col_list = [i \in DOMAIN cols |-> cols[i].name]
  /\ e.schema_table = SchemaTable(cols)
  /\ e.key_mdata = KeyMdata(cols)

LEMMA SchemaIs ==
  ASSUME NEW cols \in Columns, NEW e, Describes(e, cols), NEW i \in 1..Len(cols)
  PROVE  /\ e.col_list[i] = cols[i].name
         /\ Schema(e, i) = e.schema_table[cols[i].name]
         /\ Schema(e, i).dtype = cols[i].dtype
         /\ Schema(e, i).dtype_size = cols[i].len
         /\ Schema(e, i).is_primary_key = cols[i].pk
         /\ Schema(e, i).offset = Offset(cols, i)
<1>1. DOMAIN cols = 1..Len(cols) /\ i \in DOMAIN cols
  BY ColumnFacts
<1>2. e.col_list[i] = cols[i].name
  BY <1>1 DEF Describes
<1>3. (CHOOSE j \in DOMAIN cols : cols[j].name = cols[i].name) = i
  BY <1>1, ColumnFacts
<1>4. SchemaTable(cols)[cols[i].name] =
        [dtype |-> cols[i].dtype, dtype_size |-> cols[i].len,
         is_primary_key |-> cols[i].pk, offset |-> Offset(cols, i)]
  BY <1>1, <1>3 DEF SchemaTable
<1>5. Schema(e, i) = SchemaTable(cols)[cols[i].name]
  BY <1>2 DEF Schema, Describes
<1> QED BY <1>2, <1>4, <1>5 DEF Describes

LEMMA SchemaNames ==
  ASSUME NEW cols \in Columns, NEW e, Describes(e, cols)
  PROVE  /\ DOMAIN e.col_list = 1..Len(cols)
         /\ e.col_list \in Seq(STRING) /\ Len(e.col_list) = Len(cols)
         /\ DOMAIN e.schema_table = {cols[i].name : i \in 1..Len(cols)}
         /\ e.schema_table # NULL
<1>1. DOMAIN cols = 1..Len(cols) /\ Len(cols) \in Nat /\ Len(cols) # 0
  BY DEF Columns
<1>2. \A i \in 1..Len(cols) : cols[i].name \in STRING
  BY ColumnFacts DEF Column
<1>3. e.col_list = [i \in 1..Len(cols) |-> cols[i].name]
  BY <1>1 DEF Describes
<1>4. e.col_list \in Seq(STRING) /\ Len(e.col_list) = Len(cols) /\ DOMAIN e.col_list = 1..Len(cols)
  BY <1>1, <1>2, <1>3
<1>5. DOMAIN e.schema_table = {cols[i].name : i \in 1..Len(cols)}
  BY <1>1 DEF Describes, SchemaTable
<1>6. cols[1].name \in DOMAIN e.schema_table
  <2>1. 1 \in 1..Len(cols)
    BY <1>1
  <2> QED BY <1>5, <2>1
<1>7. e.schema_table # NULL
  BY <1>6 DEF NULL
<1> QED BY <1>4, <1>5, <1>7

(* A record is as long as its fields. *)
LEMMA RecSizeIs ==
  ASSUME NEW cols \in Columns, NEW e, Describes(e, cols)
  PROVE  RecSize(e) = Offset(cols, Len(cols) + 1) /\ RecSize(e) \in Nat
<1>1. PICK n \in Nat : n = Len(cols) /\ n # 0
  BY DEF Columns
<1>2. [i \in DOMAIN e.col_list |-> Schema(e, i).dtype_size] = [j \in 1..n |-> cols[j].len]
  BY <1>1, SchemaIs, SchemaNames
<1>3. RecSize(e) = Offset(cols, n + 1)
  BY <1>1, <1>2 DEF RecSize, Offset
<1>4. Offset(cols, n + 1) \in Nat
  BY <1>1, Offsets, ColumnFacts
<1> QED BY <1>1, <1>3, <1>4

-----------------------------------------------------------------------------
(* Filling a record. *)

Bytes(m) == [1..m -> Nat]

LEMMA FieldBytes ==
  ASSUME NEW value, value.bytes \in Seq(Nat), NEW size \in Nat
  PROVE  Field(value, size) \in Bytes(size)
  BY DEF Field, Chunk, Bytes

LEMMA OverlayBytes ==
  ASSUME NEW m \in Nat, NEW buffer \in Bytes(m), NEW offset \in Nat,
         NEW size \in Nat, NEW bytes \in Bytes(size)
  PROVE  /\ Overlay(buffer, offset, bytes) \in Bytes(m)
         /\ \A p \in 1..m : p - offset \in 1..size =>
              Overlay(buffer, offset, bytes)[p] = bytes[p - offset]
         /\ \A p \in 1..m : p - offset \notin 1..size =>
              Overlay(buffer, offset, bytes)[p] = buffer[p]
<1>1. DOMAIN buffer = 1..m /\ DOMAIN bytes = 1..size
  BY DEF Bytes
<1>2. PICK o : o = Overlay(buffer, offset, bytes)
  OBVIOUS
<1>3. o = [p \in 1..m |-> IF p - offset \in 1..size THEN bytes[p - offset] ELSE buffer[p]]
  BY <1>1, <1>2 DEF Overlay
<1>4. \A p \in 1..m : buffer[p] \in Nat /\ (p - offset \in 1..size => bytes[p - offset] \in Nat)
  BY DEF Bytes
<1>5. o \in Bytes(m)
  BY <1>3, <1>4 DEF Bytes
<1> QED BY <1>2, <1>3, <1>5

LEMMA OverlayAt ==
  ASSUME NEW m \in Nat, NEW buffer \in Bytes(m), NEW offset \in Nat,
         NEW size \in Nat, NEW bytes \in Bytes(size),
         NEW ov, ov = Overlay(buffer, offset, bytes),
         NEW p \in 1..m, NEW q, q = p - offset
  PROVE  /\ q \in 1..size => ov[p] = bytes[q]
         /\ q \notin 1..size => ov[p] = buffer[p]
<1>1. DOMAIN buffer = 1..m /\ DOMAIN bytes = 1..size
  BY DEF Bytes
<1>2. ov[p] = IF q \in 1..size THEN bytes[q] ELSE buffer[p]
  BY <1>1 DEF Overlay
<1> QED BY <1>2

LEMMA OverlayBehind ==
  ASSUME NEW m \in Nat, NEW buffer \in Bytes(m), NEW offset \in Nat,
         NEW size \in Nat, NEW bytes \in Bytes(size),
         NEW ov, ov = Overlay(buffer, offset, bytes),
         NEW p \in 1..m, p <= offset
  PROVE  ov[p] = buffer[p]
<1>1. DOMAIN buffer = 1..m /\ DOMAIN bytes = 1..size
  BY DEF Bytes
<1>2. p - offset \notin 1..size
  OBVIOUS
<1> QED BY <1>1, <1>2 DEF Overlay

(* The turns of the loop that fills a record of m bytes. *)
Fills(f, e, values, cols, n, m) ==
  /\ f \in [0..n -> Bytes(m)]
  /\ \A i \in 1..n : f[i] = Overlay(f[i - 1], Offset(cols, i), Field(values[i], cols[i].len))
  /\ FillRecord(e, values) = f[n]

IsFill(f, e, values) ==
  f = [i \in 0..Len(e.col_list) |->
         IF i = 0 THEN [p \in 1..RecSize(e) |-> 0]
         ELSE Overlay(f[i - 1], Schema(e, i).offset, Field(values[i], Schema(e, i).dtype_size))]

(* Values for each of the columns. *)
Filling(cols, values) ==
  \A i \in 1..Len(cols) : values[i].bytes \in Seq(Nat)

LEMMA RecordFills ==
  ASSUME NEW cols \in Columns, NEW e, Describes(e, cols), NEW values, Filling(cols, values),
         NEW n, n = Len(cols), NEW m, m = RecSize(e)
  PROVE  \E f : Fills(f, e, values, cols, n, m)
<1>1. n \in Nat /\ m \in Nat /\ Len(e.col_list) = n
  BY RecSizeIs, SchemaNames DEF Columns
<1> DEFINE zeros == [p \in 1..m |-> 0]
           step == [x \in (1..n) \X Bytes(m) |->
                      Overlay(x[2], Offset(cols, x[1]), Field(values[x[1]], cols[x[1]].len))]
<1>2. \A i \in 1..n : /\ Offset(cols, i) \in Nat /\ cols[i].len \in Nat
                      /\ Field(values[i], cols[i].len) \in Bytes(cols[i].len)
  BY Offsets, ColumnFacts, FieldBytes DEF Filling
<1>3. zeros \in Bytes(m)
  BY DEF Bytes
<1>4. \A i \in 1..n : \A b \in Bytes(m) :
        Overlay(b, Offset(cols, i), Field(values[i], cols[i].len)) \in Bytes(m)
  BY <1>1, <1>2, OverlayBytes
<1>5. step \in [(1..n) \X Bytes(m) -> Bytes(m)]
  BY <1>4
<1>6. \A i \in 1..n : \A b \in Bytes(m) :
        step[<<i, b>>] = Overlay(b, Offset(cols, i), Field(values[i], cols[i].len))
  OBVIOUS
<1> HIDE DEF step
<1>7. PICK g \in [0..n -> Bytes(m)] : Loop(g, n, zeros, step)
  <2> HIDE DEF zeros
  <2> QED BY <1>1, <1>3, <1>5, LoopExists
<1>8. ASSUME NEW i \in 1..n
      PROVE  /\ Schema(e, i).offset = Offset(cols, i)
             /\ Schema(e, i).dtype_size = cols[i].len
  BY SchemaIs
<1>9. IsFill(g, e, values)
  <2>1. ASSUME NEW i \in 0..n
        PROVE  g[i] = IF i = 0 THEN zeros
                      ELSE Overlay(g[i - 1], Schema(e, i).offset,
                                   Field(values[i], Schema(e, i).dtype_size))
    <3>1. g[i] = IF i = 0 THEN zeros ELSE step[<<i, g[i - 1]>>]
      BY <1>7 DEF Loop
    <3>2. i # 0 => i \in 1..n /\ g[i - 1] \in Bytes(m)
      BY <1>1, <1>7
    <3> HIDE DEF zeros
    <3> QED BY <1>6, <1>8, <3>1, <3>2
  <2> QED BY <1>1, <1>7, <2>1 DEF IsFill
<1>10. PICK f : f = CHOOSE h : IsFill(h, e, values)
  OBVIOUS
<1>11. IsFill(f, e, values)
  BY <1>9, <1>10
<1>12. FillRecord(e, values) = f[n]
  BY <1>1, <1>10 DEF FillRecord, IsFill
<1>13. f[0] = zeros
  BY <1>1, <1>11 DEF IsFill
<1>14. \A i \in 1..n : f[i] = Overlay(f[i - 1], Offset(cols, i), Field(values[i], cols[i].len))
  <2>1. ASSUME NEW i \in 1..n
        PROVE  f[i] = Overlay(f[i - 1], Schema(e, i).offset,
                              Field(values[i], Schema(e, i).dtype_size))
    <3>1. i \in 0..n /\ i # 0
      BY <1>1
    <3> QED BY <1>1, <1>11, <3>1 DEF IsFill
  <2> QED BY <1>8, <2>1
<1> HIDE DEF zeros
<1>15. \A i \in 0..n : f[i] \in Bytes(m)
  <2> DEFINE S == {i \in 0..n : f[i] \in Bytes(m)}
  <2>1. 0 \in S
    BY <1>1, <1>3, <1>13
  <2>2. ASSUME NEW i \in 0..n - 1, i \in S
        PROVE  i + 1 \in S
    <3>1. i + 1 \in 1..n /\ i + 1 - 1 = i /\ i + 1 \in 0..n
      BY <1>1
    <3> QED BY <1>4, <1>14, <2>2, <3>1
  <2> HIDE DEF S
  <2>3. \A i \in 0..n : i \in S
    BY <1>1, <2>1, <2>2, UpTo
  <2> QED BY <2>3 DEF S
<1>16. f \in [0..n -> Bytes(m)]
  <2>1. f = [i \in 0..n |-> f[i]]
    BY <1>1, <1>11 DEF IsFill
  <2> QED BY <1>15, <2>1
<1> QED BY <1>12, <1>14, <1>16 DEF Fills


(* The fields of a record do not overwrite each other. *)
LEMMA FieldKept ==
  ASSUME NEW cols \in Columns, NEW e, Describes(e, cols), NEW values, Filling(cols, values),
         NEW i \in 1..Len(cols), NEW j \in 1..cols[i].len
  PROVE  /\ FillRecord(e, values) \in Bytes(RecSize(e))
         /\ Offset(cols, i) + j \in 1..RecSize(e)
         /\ FillRecord(e, values)[Offset(cols, i) + j] = Field(values[i], cols[i].len)[j]
<1>1. PICK n \in Nat : n = Len(cols)
  BY DEF Columns
<1>2. PICK m \in Nat : m = RecSize(e) /\ m = Offset(cols, n + 1)
  BY <1>1, RecSizeIs
<1>3. PICK f : Fills(f, e, values, cols, n, m)
  BY <1>1, <1>2, RecordFills
<1>4. PICK o \in Nat : o = Offset(cols, i)
  BY Offsets
<1>5. PICK z \in Nat : z = cols[i].len
  BY ColumnFacts
<1>6. PICK p : p = o + j /\ p \in 1..m /\ p - o = j /\ j \in 1..z
  <2>1. n + 1 \in i + 1..n + 1
    BY <1>1
  <2>2. o + z <= m
    BY <1>1, <1>2, <1>4, <1>5, <2>1, FieldsApart
  <2> QED BY <1>4, <1>5, <2>2, SMTT(40)
<1>7. PICK b \in Bytes(z) : b = Field(values[i], z)
  BY <1>1, <1>5, FieldBytes DEF Filling
<1> DEFINE S == {d \in 0..n - i : f[i + d][p] = b[j]}
<1>8. 0 \in S
  <2>1. i \in 1..n /\ i - 1 \in 0..n /\ i + 0 = i /\ 0 \in 0..n - i
    BY <1>1
  <2>2. f[i] = Overlay(f[i - 1], o, b) /\ f[i - 1] \in Bytes(m)
    BY <1>3, <1>4, <1>5, <1>7, <2>1 DEF Fills
  <2>3. PICK v \in Bytes(m) : v = f[i - 1]
    BY <2>2
  <2>4. PICK w : w = f[i] /\ w = Overlay(v, o, b)
    BY <2>2, <2>3
  <2>5. DOMAIN v = 1..m /\ DOMAIN b = 1..z
    BY <2>3 DEF Bytes
  <2>6. w[p] = b[j]
    BY <1>6, <2>4, <2>5 DEF Overlay
  <2> QED BY <2>1, <2>4, <2>6
<1>9. ASSUME NEW d \in 0..n - i - 1, d \in S
      PROVE  d + 1 \in S
  <2>1. PICK l : l = i + (d + 1) /\ l \in 1..n /\ l - 1 = i + d /\ l - 1 \in 0..n
                 /\ l \in i + 1..n + 1 /\ d + 1 \in 0..n - i
    BY <1>1
  <2>2. f[l] = Overlay(f[l - 1], Offset(cols, l), Field(values[l], cols[l].len))
        /\ f[l - 1] \in Bytes(m)
    BY <1>3, <2>1 DEF Fills
  <2>3. Offset(cols, l) \in Nat /\ o + z <= Offset(cols, l)
    BY <1>1, <1>4, <1>5, <2>1, FieldsApart
  <2>4. PICK y \in Nat : y = cols[l].len
    BY <1>1, <2>1, ColumnFacts
  <2>5. PICK k \in Nat : k = Offset(cols, l) /\ o + z <= k
    BY <2>3
  <2>6. Field(values[l], y) \in Bytes(y)
    BY <1>1, <2>1, <2>4, FieldBytes DEF Filling
  <2>7. PICK v \in Bytes(m) : v = f[l - 1]
    BY <2>2
  <2>8. PICK c \in Bytes(y) : c = Field(values[l], y)
    BY <2>6
  <2>9. PICK w : w = f[l] /\ w = Overlay(v, k, c)
    BY <2>2, <2>4, <2>5, <2>7, <2>8
  <2>10. p <= k
    BY <1>6, <2>5
  <2>11. PICK x \in 1..m : x = p /\ x <= k
    BY <1>6, <2>10
  <2>12. w[p] = v[p]
    BY <2>9, <2>11, OverlayBehind
  <2>13. v[p] = b[j]
    BY <1>9, <2>1, <2>7
  <2> QED BY <2>1, <2>9, <2>12, <2>13
<1> HIDE DEF S
<1>10. n - i \in Nat /\ n - i \in 0..n - i /\ i + (n - i) = n /\ n \in 0..n
  BY <1>1
<1>11. n - i \in S
  BY <1>8, <1>9, <1>10, UpTo
<1>12. f[n][p] = b[j]
  BY <1>10, <1>11 DEF S
<1>13. FillRecord(e, values) = f[n] /\ f[n] \in Bytes(m)
  BY <1>3, <1>10 DEF Fills
<1> QED BY <1>2, <1>4, <1>5, <1>6, <1>7, <1>12, <1>13

LEMMA RecordLength ==
  ASSUME NEW cols \in Columns, NEW e, Describes(e, cols), NEW values, Filling(cols, values)
  PROVE  FillRecord(e, values) \in Bytes(RecSize(e)) /\ Len(FillRecord(e, values)) = RecSize(e)
<1>1. PICK n \in Nat : n = Len(cols)
  BY DEF Columns
<1>2. PICK m \in Nat : m = RecSize(e)
  BY RecSizeIs
<1>3. PICK f : Fills(f, e, values, cols, n, m)
  BY <1>1, <1>2, RecordFills
<1>4. FillRecord(e, values) = f[n] /\ f[n] \in Bytes(m)
  BY <1>1, <1>3 DEF Fills
<1>5. ASSUME NEW b \in Bytes(m) PROVE Len(b) = m
  BY <1>2 DEF Bytes
<1> QED BY <1>2, <1>4, <1>5

(* A query reads what was inserted. *)
LEMMA RowReads ==
  ASSUME NEW cols \in Columns, NEW e, Describes(e, cols), NEW values, Filling(cols, values),
         NEW r, r.rec = FillRecord(e, values)
  PROVE  /\ DOMAIN Row(e, r) = DOMAIN e.schema_table
         /\ \A i \in 1..Len(cols) :
              Row(e, r)[cols[i].name] = Field(values[i], cols[i].len)
<1>1. DOMAIN Row(e, r) = DOMAIN e.schema_table
  BY DEF Row
<1>2. ASSUME NEW i \in 1..Len(cols)
      PROVE  Row(e, r)[cols[i].name] = Field(values[i], cols[i].len)
  <2>1. cols[i].name \in DOMAIN e.schema_table
    BY SchemaNames
  <2>2. Row(e, r)[cols[i].name] = Chunk(r.rec, Offset(cols, i), cols[i].len)
    BY <2>1, SchemaIs DEF Row
  <2>3. PICK b : b = Field(values[i], cols[i].len) /\ b \in Bytes(cols[i].len)
    BY FieldBytes, ColumnFacts DEF Filling
  <2>4. Len(r.rec) = RecSize(e) /\ RecSize(e) \in Nat
    BY RecordLength, RecSizeIs
  <2>5. \A j \in 1..cols[i].len :
          Offset(cols, i) + j <= Len(r.rec) /\ r.rec[Offset(cols, i) + j] = b[j]
    BY <2>3, <2>4, FieldKept
  <2>6. Chunk(r.rec, Offset(cols, i), cols[i].len) = [j \in 1..cols[i].len |-> b[j]]
    BY <2>5 DEF Chunk
  <2>7. b = [j \in 1..cols[i].len |-> b[j]]
    BY <2>3 DEF Bytes
  <2> QED BY <2>2, <2>3, <2>6, <2>7
<1> QED BY <1>1, <1>2


-----------------------------------------------------------------------------
(* Filling a key. *)

(* The turns of the loop that lays the parts of s side by side. *)
Flattens(f, s, n) ==
  /\ f \in [0..n -> Seq(Nat)]
  /\ f[0] = <<>>
  /\ \A i \in 1..n : f[i] = f[i - 1] \o s[i]
  /\ FlattenSeq(s) = f[n]

IsFlatten(f, s) ==
  f = [i \in 1..Len(s) |-> IF i = 1 THEN s[i] ELSE f[i - 1] \o s[i]]

LEMMA FlattenRuns ==
  ASSUME NEW s \in Seq(Seq(Nat)), NEW n \in Nat, n = Len(s)
  PROVE  \E f : Flattens(f, s, n)
<1>1. \A i \in 1..n : s[i] \in Seq(Nat)
  OBVIOUS
<1> DEFINE step == [x \in (1..n) \X Seq(Nat) |-> x[2] \o s[x[1]]]
           nil == <<>>
<1>2. step \in [(1..n) \X Seq(Nat) -> Seq(Nat)] /\ nil \in Seq(Nat)
  BY <1>1
<1>3. \A i \in 1..n : \A v \in Seq(Nat) : step[<<i, v>>] = v \o s[i]
  OBVIOUS
<1> HIDE DEF step
<1>4. PICK g \in [0..n -> Seq(Nat)] : Loop(g, n, nil, step)
  <2> HIDE DEF nil
  <2> QED BY <1>2, LoopExists
<1>5. g[0] = <<>>
  BY <1>4 DEF Loop
<1>6. ASSUME NEW i \in 1..n
      PROVE  g[i] = g[i - 1] \o s[i]
  <2>1. i \in 0..n /\ i # 0 /\ i - 1 \in 0..n
    OBVIOUS
  <2>2. g[i] = step[<<i, g[i - 1]>>]
    BY <1>4, <2>1 DEF Loop
  <2> QED BY <1>3, <1>4, <2>1, <2>2
<1>7. CASE n = 0
  <2>1. s = <<>> /\ Len(s) = 0
    BY <1>7, EmptySeq
  <2>3. FlattenSeq(s) = s
    BY <2>1 DEF FlattenSeq
  <2>2. FlattenSeq(s) = g[n]
    BY <1>5, <1>7, <2>1, <2>3
  <2> QED BY <1>4, <1>5, <1>6, <2>2 DEF Flattens
<1>8. CASE n # 0
  <2>0. g[1] = s[1]
    <3>1. PICK i \in 1..n : i = 1 /\ i - 1 = 0
      BY <1>8
    <3>2. PICK v \in Seq(Nat) : v = s[i]
      BY <1>1
    <3>3. g[i] = g[0] \o v
      BY <1>6, <3>1, <3>2
    <3>4. <<>> \o v = v
      BY ConcatEmptySeq
    <3> QED BY <1>5, <3>1, <3>2, <3>3, <3>4
  <2> DEFINE h == [i \in 1..n |-> g[i]]
  <2>1. IsFlatten(h, s)
    <3>1. ASSUME NEW i \in 1..n
          PROVE  h[i] = IF i = 1 THEN s[i] ELSE h[i - 1] \o s[i]
      <4>1. CASE i = 1
        BY <2>0, <4>1
      <4>2. CASE i # 1
        <5>1. i - 1 \in 1..n /\ h[i] = g[i] /\ h[i - 1] = g[i - 1]
          BY <4>2
        <5>2. g[i] = g[i - 1] \o s[i]
          BY <1>6
        <5> HIDE DEF h
        <5> QED BY <4>2, <5>1, <5>2
      <4> QED BY <4>1, <4>2
    <3> QED BY <3>1 DEF IsFlatten
  <2> HIDE DEF h
  <2>2. PICK f : f = CHOOSE x : IsFlatten(x, s)
    OBVIOUS
  <2>3. IsFlatten(f, s)
    BY <2>1, <2>2
  <2>4. FlattenSeq(s) = f[n]
    BY <1>8, <2>2 DEF FlattenSeq, IsFlatten
  <2> DEFINE S == {i \in 0..n : i # 0 => f[i] = g[i]}
  <2>5. ASSUME NEW i \in 1..n
        PROVE  f[i] = IF i = 1 THEN s[i] ELSE f[i - 1] \o s[i]
    BY <2>3 DEF IsFlatten
  <2>6. ASSUME NEW i \in 0..n - 1, i \in S
        PROVE  i + 1 \in S
    <3>1. i + 1 \in 1..n /\ i + 1 \in 0..n /\ i + 1 - 1 = i
      OBVIOUS
    <3>2. f[i + 1] = IF i + 1 = 1 THEN s[i + 1] ELSE f[i] \o s[i + 1]
      BY <2>5, <3>1
    <3>3. g[i + 1] = g[i] \o s[i + 1]
      <4>1. PICK l \in 1..n : l = i + 1 /\ l - 1 = i
        BY <3>1
      <4>2. g[l] = g[l - 1] \o s[l]
        BY <1>6
      <4> QED BY <4>1, <4>2
    <3>4. CASE i = 0
      BY <2>0, <3>1, <3>2, <3>4
    <3>5. CASE i # 0
      <4>1. f[i] = g[i] /\ i + 1 # 1
        BY <2>6, <3>5
      <4>2. f[i + 1] = g[i + 1]
        BY <3>2, <3>3, <4>1
      <4> QED BY <3>1, <4>2
    <3> QED BY <3>4, <3>5
  <2>7. 0 \in S
    OBVIOUS
  <2> HIDE DEF S
  <2>8. \A i \in 0..n : i \in S
    BY <2>6, <2>7, UpTo
  <2>9. f[n] = g[n]
    BY <1>8, <2>8 DEF S
  <2> QED BY <1>4, <1>5, <1>6, <2>4, <2>9 DEF Flattens
<1> QED BY <1>7, <1>8

Mdatum == [dtype : {"int", "double", "string"}, size : Nat]

MdatumOf(col) == [dtype |-> col.dtype, size |-> col.len]

LEMMA MdatumIs ==
  ASSUME NEW cols \in Columns, NEW i \in 1..Len(cols)
  PROVE  MdatumOf(cols[i]) \in Mdatum /\ MdatumOf(cols[i]).size = cols[i].len
<1>1. cols[i] \in Column
  BY ColumnFacts
<1> QED BY <1>1 DEF Column, MdatumOf, Mdatum

(* The turns of the loop that notes the types of a key's columns. *)
Notes(g, cols, n) ==
  /\ g \in [0..n -> Seq(Mdatum)]
  /\ g[0] = <<>>
  /\ \A i \in 1..n : g[i] = IF cols[i].pk THEN Append(g[i - 1], MdatumOf(cols[i])) ELSE g[i - 1]
  /\ KeyMdata(cols) = g[n]

IsNoted(g, cols) ==
  g = [i \in 0..Len(cols) |->
         IF i = 0 THEN <<>>
         ELSE IF cols[i].pk THEN Append(g[i - 1], [dtype |-> cols[i].dtype, size |-> cols[i].len])
         ELSE g[i - 1]]

LEMMA MdataNotes ==
  ASSUME NEW cols \in Columns, NEW n, n = Len(cols)
  PROVE  \E g : Notes(g, cols, n)
<1>1. n \in Nat
  BY DEF Columns
<1>2. ASSUME NEW i \in 1..n
      PROVE  MdatumOf(cols[i]) \in Mdatum
  BY <1>2, ColumnFacts DEF Column, MdatumOf, Mdatum
<1> DEFINE step == [x \in (1..n) \X Seq(Mdatum) |->
                      IF cols[x[1]].pk THEN Append(x[2], MdatumOf(cols[x[1]])) ELSE x[2]]
           nil == <<>>
<1>3. ASSUME NEW i \in 1..n, NEW v \in Seq(Mdatum)
      PROVE  /\ step[<<i, v>>] = IF cols[i].pk THEN Append(v, MdatumOf(cols[i])) ELSE v
             /\ step[<<i, v>>] \in Seq(Mdatum)
  <2>1. step[<<i, v>>] = IF cols[i].pk THEN Append(v, MdatumOf(cols[i])) ELSE v
    OBVIOUS
  <2> HIDE DEF step
  <2>2. Append(v, MdatumOf(cols[i])) \in Seq(Mdatum)
    BY <1>2
  <2> QED BY <2>1, <2>2
<1>4. step = [x \in (1..n) \X Seq(Mdatum) |-> step[x]]
  OBVIOUS
<1> HIDE DEF step
<1>5. step \in [(1..n) \X Seq(Mdatum) -> Seq(Mdatum)]
  <2>1. \A x \in (1..n) \X Seq(Mdatum) : step[x] \in Seq(Mdatum)
    BY <1>3
  <2> QED BY <1>4, <2>1
<1>6. PICK h \in [0..n -> Seq(Mdatum)] : Loop(h, n, nil, step)
  <2>1. nil \in Seq(Mdatum)
    OBVIOUS
  <2> HIDE DEF nil
  <2> QED BY <1>1, <1>5, <2>1, LoopExists
<1>7. IsNoted(h, cols)
  <2>1. ASSUME NEW i \in 0..n
        PROVE  h[i] = IF i = 0 THEN <<>>
                      ELSE IF cols[i].pk THEN Append(h[i - 1], MdatumOf(cols[i])) ELSE h[i - 1]
    <3>1. h[i] = IF i = 0 THEN <<>> ELSE step[<<i, h[i - 1]>>]
      BY <1>6 DEF Loop
    <3>2. i # 0 => i \in 1..n /\ h[i - 1] \in Seq(Mdatum)
      BY <1>1, <1>6
    <3> QED BY <1>3, <3>1, <3>2
  <2> QED BY <1>6, <2>1 DEF IsNoted, MdatumOf
<1>8. PICK g : g = CHOOSE x : IsNoted(x, cols)
  OBVIOUS
<1>9. IsNoted(g, cols)
  BY <1>7, <1>8
<1>10. KeyMdata(cols) = g[n]
  BY <1>8 DEF KeyMdata, IsNoted
<1>11. ASSUME NEW i \in 0..n
       PROVE  g[i] = IF i = 0 THEN <<>>
                     ELSE IF cols[i].pk THEN Append(g[i - 1], MdatumOf(cols[i])) ELSE g[i - 1]
  BY <1>9 DEF IsNoted, MdatumOf
<1>12. g[0] = <<>>
  BY <1>1, <1>11
<1>13. ASSUME NEW i \in 1..n
       PROVE  g[i] = IF cols[i].pk THEN Append(g[i - 1], MdatumOf(cols[i])) ELSE g[i - 1]
  <2>1. i \in 0..n /\ i # 0
    OBVIOUS
  <2> QED BY <1>11, <2>1
<1>14. \A i \in 0..n : g[i] \in Seq(Mdatum)
  <2> DEFINE S == {i \in 0..n : g[i] \in Seq(Mdatum)}
  <2>1. 0 \in S
    BY <1>1, <1>12, SMTT(40)
  <2>2. ASSUME NEW i \in 0..n - 1, i \in S
        PROVE  i + 1 \in S
    <3>1. i + 1 \in 1..n /\ i + 1 - 1 = i /\ i + 1 \in 0..n
      BY <1>1
    <3>2. g[i + 1] = IF cols[i + 1].pk THEN Append(g[i], MdatumOf(cols[i + 1])) ELSE g[i]
      BY <1>13, <3>1
    <3>3. g[i] \in Seq(Mdatum) /\ MdatumOf(cols[i + 1]) \in Mdatum
      BY <1>2, <2>2, <3>1
    <3>4. g[i + 1] \in Seq(Mdatum)
      BY <3>2, <3>3
    <3> QED BY <3>1, <3>4
  <2> HIDE DEF S
  <2>3. \A i \in 0..n : i \in S
    BY <1>1, <2>1, <2>2, UpTo
  <2> QED BY <2>3 DEF S
<1>15. g \in [0..n -> Seq(Mdatum)]
  <2>1. g = [i \in 0..n |-> g[i]]
    BY <1>9 DEF IsNoted
  <2> QED BY <1>14, <2>1
<1> QED BY <1>10, <1>12, <1>13, <1>15 DEF Notes


(* What each column puts into the key. *)
KeyParts(cols, values) ==
  [i \in 1..Len(cols) |-> IF cols[i].pk THEN Field(values[i], cols[i].len) ELSE <<>>]

LEMMA KeyPartsAre ==
  ASSUME NEW cols \in Columns, NEW values, Filling(cols, values)
  PROVE  /\ KeyParts(cols, values) \in Seq(Seq(Nat))
         /\ Len(KeyParts(cols, values)) = Len(cols)
         /\ \A i \in 1..Len(cols) :
              IF cols[i].pk
                THEN KeyParts(cols, values)[i] \in Seq(Nat)
                     /\ Len(KeyParts(cols, values)[i]) = cols[i].len
                ELSE KeyParts(cols, values)[i] = <<>>
<1>1. PICK n \in Nat : n = Len(cols)
  BY DEF Columns
<1>2. PICK s : s = KeyParts(cols, values)
  OBVIOUS
<1>3. s = [i \in 1..n |-> IF cols[i].pk THEN Field(values[i], cols[i].len) ELSE <<>>]
  BY <1>1, <1>2 DEF KeyParts
<1>4. ASSUME NEW i \in 1..n
      PROVE  /\ s[i] \in Seq(Nat)
             /\ IF cols[i].pk THEN Len(s[i]) = cols[i].len ELSE s[i] = <<>>
  <2>1. PICK z \in Nat : z = cols[i].len
    BY <1>1, ColumnFacts
  <2>2. PICK b : b = Field(values[i], z) /\ b \in Bytes(z)
    BY <1>1, <2>1, FieldBytes DEF Filling
  <2>3. b \in Seq(Nat) /\ Len(b) = z
    BY <2>1, <2>2 DEF Bytes
  <2>4. s[i] = IF cols[i].pk THEN b ELSE <<>>
    BY <1>3, <2>1, <2>2
  <2>5. <<>> \in Seq(Nat)
    OBVIOUS
  <2> QED BY <2>1, <2>3, <2>4, <2>5
<1>5. s \in Seq(Seq(Nat)) /\ Len(s) = n
  <2>1. s = [i \in 1..n |-> s[i]]
    BY <1>3
  <2> QED BY <1>4, <2>1
<1> QED BY <1>1, <1>2, <1>4, <1>5

LEMMA KeyColumnIs ==
  ASSUME NEW cols \in Columns, NEW e, Describes(e, cols), NEW i \in 1..Len(cols)
  PROVE  cols[i].name \in KeyColumns(e) <=> cols[i].pk
<1>1. cols[i].name \in DOMAIN e.schema_table
  BY SchemaNames
<1> QED BY <1>1, SchemaIs DEF KeyColumns

(* Key and record hold the same bytes of the columns of the primary key.   *)
LEMMA KeyReads ==
  ASSUME NEW cols \in Columns, NEW e, Describes(e, cols), NEW values, Filling(cols, values),
         NEW r, r.rec = FillRecord(e, values)
  PROVE  /\ FillKey(e, values) = FlattenSeq(KeyParts(cols, values))
         /\ FlattenSeq([i \in DOMAIN e.col_list |->
                          IF e.col_list[i] \in KeyColumns(e)
                            THEN Row(e, r)[e.col_list[i]] ELSE <<>>])
              = FlattenSeq(KeyParts(cols, values))
<1>1. DOMAIN e.col_list = 1..Len(cols)
  BY SchemaNames
<1>2. ASSUME NEW i \in 1..Len(cols)
      PROVE  (IF Schema(e, i).is_primary_key
                THEN Field(values[i], Schema(e, i).dtype_size) ELSE <<>>)
               = IF cols[i].pk THEN Field(values[i], cols[i].len) ELSE <<>>
  BY SchemaIs
<1>3. ASSUME NEW i \in 1..Len(cols)
      PROVE  (IF e.col_list[i] \in KeyColumns(e) THEN Row(e, r)[e.col_list[i]] ELSE <<>>)
               = IF cols[i].pk THEN Field(values[i], cols[i].len) ELSE <<>>
  <2>1. e.col_list[i] = cols[i].name
    BY SchemaIs
  <2>2. Row(e, r)[cols[i].name] = Field(values[i], cols[i].len)
    BY RowReads
  <2> QED BY <2>1, <2>2, KeyColumnIs
<1>4. [i \in DOMAIN e.col_list |->
         IF Schema(e, i).is_primary_key
           THEN Field(values[i], Schema(e, i).dtype_size) ELSE <<>>]
        = KeyParts(cols, values)
  BY <1>1, <1>2 DEF KeyParts
<1>5. [i \in DOMAIN e.col_list |->
         IF e.col_list[i] \in KeyColumns(e) THEN Row(e, r)[e.col_list[i]] ELSE <<>>]
        = KeyParts(cols, values)
  BY <1>1, <1>3 DEF KeyParts
<1> QED BY <1>4, <1>5 DEF FillKey

Sizes(mdata) == [i \in DOMAIN mdata |-> mdata[i].size]

LEMMA SizesAre ==
  ASSUME NEW mdata \in Seq(Mdatum)
  PROVE  /\ Sizes(mdata) \in Seq(Nat)
         /\ Len(Sizes(mdata)) = Len(mdata)
         /\ \A i \in 1..Len(mdata) : Sizes(mdata)[i] = mdata[i].size
<1>1. PICK n \in Nat : n = Len(mdata) /\ DOMAIN mdata = 1..n
  OBVIOUS
<1>2. \A i \in 1..n : mdata[i] \in Mdatum
  BY <1>1
<1>3. \A i \in 1..n : mdata[i].size \in Nat
  BY <1>2 DEF Mdatum
<1>4. Sizes(mdata) = [i \in 1..n |-> mdata[i].size]
  BY <1>1 DEF Sizes
<1> QED BY <1>1, <1>3, <1>4

LEMMA SizesAppend ==
  ASSUME NEW mdata \in Seq(Mdatum), NEW x \in Mdatum
  PROVE  Total(Sizes(Append(mdata, x))) = Total(Sizes(mdata)) + x.size
<1>1. PICK n \in Nat : n = Len(mdata)
  OBVIOUS
<1>2. PICK a \in Seq(Mdatum) : a = Append(mdata, x)
  BY AppendProperties
<1>3. Len(a) = n + 1 /\ a[n + 1] = x /\ \A i \in 1..n : a[i] = mdata[i]
  BY <1>1, <1>2, AppendProperties
<1>4. PICK s \in Seq(Nat) : s = Sizes(mdata)
  BY SizesAre
<1>5. PICK t \in Seq(Nat) : t = Sizes(a)
  BY SizesAre
<1>6. Len(s) = n /\ \A i \in 1..n : s[i] = mdata[i].size
  BY <1>1, <1>4, SizesAre
<1>7. Len(t) = n + 1 /\ \A i \in 1..n + 1 : t[i] = a[i].size
  BY <1>3, <1>5, SizesAre
<1>8. \A i \in 1..Len(s) : s[i] = t[i]
  <2>1. ASSUME NEW i \in 1..n PROVE s[i] = t[i]
    <3>1. i \in 1..n + 1
      OBVIOUS
    <3> QED BY <1>3, <1>6, <1>7, <3>1
  <2> QED BY <1>6, <2>1
<1>9. Total(t) = Total(s) + t[Len(t)]
  BY <1>6, <1>7, <1>8, TotalStep
<1>10. t[Len(t)] = x.size
  BY <1>3, <1>7
<1> QED BY <1>2, <1>4, <1>5, <1>9, <1>10

(* A key is as long as its columns are together. *)
LEMMA KeyLength ==
  ASSUME NEW cols \in Columns, NEW values, Filling(cols, values)
  PROVE  Len(FlattenSeq(KeyParts(cols, values))) = Total(Sizes(KeyMdata(cols)))
<1>1. PICK n \in Nat : n = Len(cols)
  BY DEF Columns
<1>2. PICK s \in Seq(Seq(Nat)) : s = KeyParts(cols, values) /\ Len(s) = n
  BY <1>1, KeyPartsAre
<1>3. PICK f : Flattens(f, s, n)
  BY <1>1, <1>2, FlattenRuns
<1>4. PICK g : Notes(g, cols, n)
  BY <1>1, MdataNotes
<1> DEFINE S == {i \in 0..n : Len(f[i]) = Total(Sizes(g[i]))}
<1>5. 0 \in S
  <2>1. f[0] = <<>> /\ g[0] = <<>>
    BY <1>3, <1>4 DEF Flattens, Notes
  <2>2. PICK t : t = Sizes(<<>>)
    OBVIOUS
  <2>3. t \in Seq(Nat) /\ Len(t) = 0
    BY <2>2 DEF Sizes
  <2> QED BY <2>1, <2>2, <2>3, TotalOfNone
<1>6. ASSUME NEW d \in 0..n - 1, d \in S
      PROVE  d + 1 \in S
  <2>1. PICK i \in 1..n : i = d + 1 /\ i - 1 = d
    OBVIOUS
  <2>2. f[i] = f[d] \o s[i]
    BY <1>3, <2>1 DEF Flattens
  <2>3. g[i] = IF cols[i].pk THEN Append(g[d], MdatumOf(cols[i])) ELSE g[d]
    BY <1>4, <2>1 DEF Notes
  <2>4. PICK v \in Seq(Nat) : v = f[d]
    BY <1>3 DEF Flattens
  <2>5. PICK w \in Seq(Mdatum) : w = g[d]
    BY <1>4 DEF Notes
  <2>6. Len(v) = Total(Sizes(w))
    BY <1>6, <2>4, <2>5
  <2>7. CASE cols[i].pk
    <3>1. PICK z \in Nat : z = cols[i].len
      BY <1>1, <2>1, ColumnFacts
    <3>2. PICK b \in Seq(Nat) : b = s[i] /\ Len(b) = z
      BY <1>1, <1>2, <2>1, <2>7, <3>1, KeyPartsAre
    <3>3. Len(v \o b) = Len(v) + z
      BY <3>2, ConcatProperties
    <3>4. PICK x \in Mdatum : x = MdatumOf(cols[i]) /\ x.size = z
      BY <1>1, <3>1, MdatumIs
    <3>5. Total(Sizes(Append(w, x))) = Total(Sizes(w)) + x.size
      BY SizesAppend
    <3>6. f[i] = v \o b /\ g[i] = Append(w, x)
      BY <2>2, <2>3, <2>4, <2>5, <2>7, <3>2, <3>4
    <3>7. Len(f[i]) = Total(Sizes(g[i]))
      BY <2>6, <3>3, <3>4, <3>5, <3>6
    <3> QED BY <2>1, <3>7
  <2>8. CASE ~cols[i].pk
    <3>1. s[i] = <<>>
      BY <1>1, <1>2, <2>1, <2>8, KeyPartsAre
    <3>2. v \o <<>> = v
      BY ConcatEmptySeq
    <3>3. f[i] = v /\ g[i] = w
      BY <2>2, <2>3, <2>4, <2>5, <2>8, <3>1, <3>2
    <3>4. Len(f[i]) = Total(Sizes(g[i]))
      BY <2>6, <3>3
    <3> QED BY <2>1, <3>4
  <2> QED BY <2>7, <2>8
<1> HIDE DEF S
<1>7. n \in 0..n /\ \A i \in 0..n : i \in S
  BY <1>5, <1>6, UpTo
<1>8. Len(f[n]) = Total(Sizes(g[n]))
  BY <1>7 DEF S
<1> QED BY <1>2, <1>3, <1>4, <1>8 DEF Flattens, Notes


-----------------------------------------------------------------------------
(* How many columns there are. *)

NamesUpTo(cols, m) == {cols[i].name : i \in 1..m}

KeyNamesUpTo(cols, m) == {cols[i].name : i \in {j \in 1..m : cols[j].pk}}

LEMMA OneMoreName ==
  ASSUME NEW cols \in Columns, NEW i \in 1..Len(cols), NEW d, d = i - 1
  PROVE  /\ NamesUpTo(cols, i) = NamesUpTo(cols, d) \cup {cols[i].name}
         /\ cols[i].name \notin NamesUpTo(cols, d)
         /\ cols[i].name \notin KeyNamesUpTo(cols, d)
         /\ KeyNamesUpTo(cols, i) = IF cols[i].pk THEN KeyNamesUpTo(cols, d) \cup {cols[i].name}
                                    ELSE KeyNamesUpTo(cols, d)
<1>1. PICK n \in Nat : n = Len(cols) /\ i \in 1..n
  BY DEF Columns
<1>2. 1..i = (1..d) \cup {i} /\ i \notin 1..d /\ \A j \in 1..d : j \in 1..n /\ j # i
  BY <1>1
<1>3. ASSUME NEW j \in 1..d PROVE cols[j].name # cols[i].name
  <2>1. j \in 1..Len(cols) /\ j # i
    BY <1>1, <1>2
  <2> QED BY <2>1, ColumnFacts
<1> QED BY <1>2, <1>3 DEF NamesUpTo, KeyNamesUpTo

LEMMA Counted ==
  ASSUME NEW cols \in Columns, NEW n, n = Len(cols)
  PROVE  /\ IsFiniteSet(NamesUpTo(cols, n)) /\ Cardinality(NamesUpTo(cols, n)) = n
         /\ IsFiniteSet(KeyNamesUpTo(cols, n))
         /\ Cardinality(KeyNamesUpTo(cols, n)) = Len(KeyMdata(cols))
<1>1. n \in Nat
  BY DEF Columns
<1>2. PICK g : Notes(g, cols, n)
  BY MdataNotes
<1> DEFINE S == {i \in 0..n :
                   /\ IsFiniteSet(NamesUpTo(cols, i)) /\ Cardinality(NamesUpTo(cols, i)) = i
                   /\ IsFiniteSet(KeyNamesUpTo(cols, i))
                   /\ Cardinality(KeyNamesUpTo(cols, i)) = Len(g[i])}
<1>3. 0 \in S
  <2>1. NamesUpTo(cols, 0) = {} /\ KeyNamesUpTo(cols, 0) = {}
    BY DEF NamesUpTo, KeyNamesUpTo
  <2>2. g[0] = <<>> /\ 0 \in 0..n
    BY <1>1, <1>2 DEF Notes
  <2> QED BY <2>1, <2>2, FS_EmptySet
<1>4. ASSUME NEW d \in 0..n - 1, d \in S
      PROVE  d + 1 \in S
  <2>1. PICK i \in 1..n : i = d + 1 /\ d = i - 1
    BY <1>1
  <2>2. g[i] = IF cols[i].pk THEN Append(g[d], MdatumOf(cols[i])) ELSE g[d]
    BY <1>2, <2>1 DEF Notes
  <2>3. PICK w \in Seq(Mdatum) : w = g[d]
    BY <1>1, <1>2 DEF Notes
  <2>4. Len(Append(w, MdatumOf(cols[i]))) = Len(w) + 1
    <3>1. PICK x \in Mdatum : x = MdatumOf(cols[i])
      BY MdatumIs
    <3>2. Len(Append(w, x)) = Len(w) + 1
      BY AppendProperties
    <3> QED BY <3>1, <3>2
  <2>5. PICK N : N = NamesUpTo(cols, d) /\ IsFiniteSet(N) /\ Cardinality(N) = d
    BY <1>4
  <2>6. PICK K : K = KeyNamesUpTo(cols, d) /\ IsFiniteSet(K) /\ Cardinality(K) = Len(w)
    BY <1>4, <2>3
  <2>7. PICK c : c = cols[i].name
    OBVIOUS
  <2>8. /\ NamesUpTo(cols, i) = N \cup {c} /\ c \notin N
        /\ KeyNamesUpTo(cols, i) = (IF cols[i].pk THEN K \cup {c} ELSE K) /\ c \notin K
    <3>1. i \in 1..Len(cols) /\ d = i - 1
      BY <2>1
    <3>2. /\ NamesUpTo(cols, i) = NamesUpTo(cols, d) \cup {cols[i].name}
          /\ cols[i].name \notin NamesUpTo(cols, d)
          /\ cols[i].name \notin KeyNamesUpTo(cols, d)
          /\ KeyNamesUpTo(cols, i) =
               IF cols[i].pk THEN KeyNamesUpTo(cols, d) \cup {cols[i].name}
               ELSE KeyNamesUpTo(cols, d)
      BY <3>1, OneMoreName
    <3> QED BY <2>5, <2>6, <2>7, <3>2
  <2>9. IsFiniteSet(N \cup {c}) /\ Cardinality(N \cup {c}) = d + 1
    BY <2>5, <2>8, FS_AddElement
  <2>10. IsFiniteSet(K \cup {c}) /\ Cardinality(K \cup {c}) = Len(w) + 1
    BY <2>6, <2>8, FS_AddElement
  <2>11. IsFiniteSet(NamesUpTo(cols, i)) /\ Cardinality(NamesUpTo(cols, i)) = i
    BY <2>1, <2>8, <2>9
  <2>12. /\ IsFiniteSet(KeyNamesUpTo(cols, i))
         /\ Cardinality(KeyNamesUpTo(cols, i)) = Len(g[i])
    <3>1. CASE cols[i].pk
      BY <2>2, <2>3, <2>4, <2>8, <2>10, <3>1
    <3>2. CASE ~cols[i].pk
      BY <2>2, <2>3, <2>6, <2>8, <3>2
    <3> QED BY <3>1, <3>2
  <2>13. i \in 0..n
    BY <1>1, <2>1
  <2> QED BY <2>1, <2>11, <2>12, <2>13
<1> HIDE DEF S
<1>5. n \in 0..n /\ \A i \in 0..n : i \in S
  BY <1>1, <1>3, <1>4, UpTo, SMTT(40)
<1> QED BY <1>2, <1>5 DEF S, Notes

LEMMA SchemaCounts ==
  ASSUME NEW cols \in Columns, NEW e, Describes(e, cols)
  PROVE  /\ Cardinality(DOMAIN e.schema_table) = Len(e.col_list)
         /\ Len(e.key_mdata) = Cardinality(KeyColumns(e))
         /\ KeyColumns(e) = KeyNamesUpTo(cols, Len(cols))
<1>1. DOMAIN e.schema_table = NamesUpTo(cols, Len(cols)) /\ Len(e.col_list) = Len(cols)
  BY SchemaNames DEF NamesUpTo
<1>2. KeyColumns(e) = KeyNamesUpTo(cols, Len(cols))
  <2>1. ASSUME NEW i \in 1..Len(cols)
        PROVE  cols[i].name \in KeyColumns(e) <=> cols[i].pk
    BY KeyColumnIs
  <2>2. KeyColumns(e) \subseteq NamesUpTo(cols, Len(cols))
    BY <1>1 DEF KeyColumns
  <2> QED BY <2>1, <2>2 DEF NamesUpTo, KeyNamesUpTo
<1>3. e.key_mdata = KeyMdata(cols)
  BY DEF Describes
<1> QED BY <1>1, <1>2, <1>3, Counted

LEMMA KeyIsSome ==
  ASSUME NEW cols \in Columns, NEW e, Describes(e, cols), HasPrimaryKey(cols)
  PROVE  KeyColumns(e) # {}
<1>1. PICK i \in 1..Len(cols) : cols[i].pk
  BY DEF HasPrimaryKey, Columns
<1>2. cols[i].name \in KeyColumns(e)
  BY <1>1, KeyColumnIs
<1> QED BY <1>2

-----------------------------------------------------------------------------
(* Comparing keys. *)

LEMMA SameKeyOfItself ==
  ASSUME NEW key, NEW mdata
  PROVE  SameKey(key, key, mdata)
  BY DEF SameKey, SameValue

LEMMA SameKeyTurned ==
  ASSUME NEW a, NEW b, NEW mdata, SameKey(a, b, mdata)
  PROVE  SameKey(b, a, mdata)
<1>1. ASSUME NEW dtype, NEW size, NEW o,
             SameValue(dtype, Chunk(a, o, size), Chunk(b, o, size))
      PROVE  SameValue(dtype, Chunk(b, o, size), Chunk(a, o, size))
  <2>1. DOMAIN Chunk(a, o, size) = 1..size /\ DOMAIN Chunk(b, o, size) = 1..size
    BY DEF Chunk
  <2> QED BY <1>1, <2>1 DEF SameValue
<1> QED BY <1>1 DEF SameKey


-----------------------------------------------------------------------------
(* The invariant.  A record is made from values: they are in its key one   *)
(* after the other and in the record at their places.  The records of a    *)
(* table differ in their keys, compared as the code compares them.         *)

GoodRecord(cols, r) ==
  \E values \in Inserts :
    /\ Len(cols) <= Len(values) /\ Filling(cols, values)
    /\ r.key = FlattenSeq(KeyParts(cols, values))
    /\ Len(r.rec) = Offset(cols, Len(cols) + 1)
    /\ \A i \in 1..Len(cols) :
         Chunk(r.rec, Offset(cols, i), cols[i].len) = Field(values[i], cols[i].len)

GoodTable(e, cols) ==
  /\ DistinctColumns(cols) /\ HasPrimaryKey(cols)
  /\ Describes(e, cols)
  /\ \A r \in e.rdbms_table : GoodRecord(cols, r)
  /\ \A r, s \in e.rdbms_table : SameKey(r.key, s.key, e.key_mdata) => r = s

IsEntry(e) ==
  e = [table_name |-> e.table_name, col_list |-> e.col_list, schema_table |-> e.schema_table,
       key_mdata |-> e.key_mdata, rdbms_table |-> e.rdbms_table]

GoodEntry(k, e) ==
  /\ IsEntry(e) /\ e.table_name \in Names /\ CatalogKey(e.table_name) = k
  /\ \/ e.schema_table = NULL /\ e.rdbms_table = {}
     \/ \E cols \in Creates : GoodTable(e, cols)

IInv ==
  /\ proc \in {"running", "aborted"}
  /\ catalog = [k \in DOMAIN catalog |-> catalog[k]]
  /\ \A k \in DOMAIN catalog : GoodEntry(k, catalog[k])

LEMMA MadeOf ==
  ASSUME NEW cols \in Creates, NEW e, GoodTable(e, cols)
  PROVE  cols \in Columns /\ Describes(e, cols) /\ e.schema_table # NULL
<1>1. cols \in Columns /\ Describes(e, cols)
  BY CatalogAssumption DEF GoodTable, Columns
<1> QED BY <1>1, SchemaNames

LEMMA RowIs ==
  ASSUME NEW cols \in Columns, NEW e, Describes(e, cols), NEW r, NEW i \in 1..Len(cols)
  PROVE  Row(e, r)[cols[i].name] = Chunk(r.rec, Offset(cols, i), cols[i].len)
<1>1. cols[i].name \in DOMAIN e.schema_table
  BY SchemaNames
<1> QED BY <1>1, SchemaIs DEF Row

LEMMA RecordMade ==
  ASSUME NEW cols \in Columns, NEW e, Describes(e, cols), NEW values \in Inserts,
         Fits(e, values), NEW row,
         row.key = FillKey(e, values), row.rec = FillRecord(e, values)
  PROVE  Filling(cols, values) /\ GoodRecord(cols, row)
<1>1. values \in Seq([dtype : STRING, bytes : Seq(Nat)])
  BY CatalogAssumption
<1>2. PICK n \in Nat : n = Len(cols) /\ n \in 1..n
  BY DEF Columns
<1>3. \A i \in 1..n : i <= Len(values)
  BY <1>2, SchemaNames DEF Fits
<1>4. n <= Len(values)
  BY <1>2, <1>3
<1>5. \A i \in 1..n : values[i] \in [dtype : STRING, bytes : Seq(Nat)]
  <2>1. PICK T : T = [dtype : STRING, bytes : Seq(Nat)]
    OBVIOUS
  <2>2. values \in Seq(T) /\ Len(values) \in Nat
    BY <1>1, <2>1
  <2>3. ASSUME NEW i \in 1..n PROVE values[i] \in T
    <3>1. i \in 1..Len(values)
      BY <1>2, <1>4, <2>2
    <3> QED BY <2>2, <3>1
  <2> QED BY <2>1, <2>3
<1>6. Filling(cols, values)
  BY <1>2, <1>5 DEF Filling
<1>7. row.key = FlattenSeq(KeyParts(cols, values))
  BY <1>6, KeyReads
<1>8. Len(row.rec) = Offset(cols, Len(cols) + 1)
  BY <1>6, RecordLength, RecSizeIs
<1>9. ASSUME NEW i \in 1..Len(cols)
      PROVE  Chunk(row.rec, Offset(cols, i), cols[i].len) = Field(values[i], cols[i].len)
  BY <1>6, RowReads, RowIs
<1> QED BY <1>2, <1>4, <1>6, <1>7, <1>8, <1>9 DEF GoodRecord

LEMMA TableMade ==
  ASSUME NEW n \in Names, NEW cols \in Creates, DistinctColumns(cols), HasPrimaryKey(cols),
         NEW e, e = Entry(n, cols, SchemaTable(cols), KeyMdata(cols))
  PROVE  /\ GoodEntry(CatalogKey(n), e)
         /\ GoodTable(e, cols) /\ e.rdbms_table = {} /\ e.table_name = n
<1>1. IsEntry(e) /\ e.table_name = n /\ e.rdbms_table = {}
  BY DEF IsEntry, Entry
<1>2. Describes(e, cols)
  BY DEF Describes, Entry
<1>3. GoodTable(e, cols)
  BY <1>1, <1>2 DEF GoodTable
<1> QED BY <1>1, <1>3 DEF GoodEntry

LEMMA StubMade ==
  ASSUME NEW n \in Names, NEW cols, NEW e, e = Entry(n, cols, NULL, <<>>)
  PROVE  GoodEntry(CatalogKey(n), e) /\ e.schema_table = NULL /\ e.rdbms_table = {}
<1>1. IsEntry(e) /\ e.table_name = n /\ e.schema_table = NULL /\ e.rdbms_table = {}
  BY DEF IsEntry, Entry
<1> QED BY <1>1 DEF GoodEntry

WithRow(e, row) ==
  [table_name |-> e.table_name, col_list |-> e.col_list, schema_table |-> e.schema_table,
   key_mdata |-> e.key_mdata, rdbms_table |-> e.rdbms_table \cup {row}]

LEMMA RowAdded ==
  ASSUME NEW cols, NEW e, GoodTable(e, cols), NEW row, GoodRecord(cols, row),
         \A r \in e.rdbms_table : ~SameKey(r.key, row.key, e.key_mdata),
         NEW d, d = WithRow(e, row)
  PROVE  GoodTable(d, cols) /\ IsEntry(d)
<1>1. /\ IsEntry(d) /\ d.rdbms_table = e.rdbms_table \cup {row}
      /\ d.col_list = e.col_list /\ d.schema_table = e.schema_table /\ d.key_mdata = e.key_mdata
  BY DEF IsEntry, WithRow
<1>2. Describes(d, cols)
  BY <1>1 DEF Describes, GoodTable
<1>3. \A r \in d.rdbms_table : GoodRecord(cols, r)
  BY <1>1 DEF GoodTable
<1>4. ASSUME NEW r \in d.rdbms_table, NEW s \in d.rdbms_table,
             SameKey(r.key, s.key, d.key_mdata)
      PROVE  r = s
  <2>1. CASE r \in e.rdbms_table /\ s \in e.rdbms_table
    BY <1>1, <1>4, <2>1 DEF GoodTable
  <2>2. CASE r \in e.rdbms_table /\ s = row
    BY <1>1, <1>4, <2>2
  <2>3. CASE r = row /\ s \in e.rdbms_table
    BY <1>1, <1>4, <2>3, SameKeyTurned
  <2> QED BY <1>1, <2>1, <2>2, <2>3
<1> QED BY <1>1, <1>2, <1>3, <1>4 DEF GoodTable

(* What an insert into n of values does: the entry e under k gets the row. *)
Adds(n, values, k, e, cols, row) ==
  /\ k = CatalogKey(n) /\ k \in DOMAIN catalog /\ e = catalog[k]
  /\ GoodTable(e, cols) /\ Fits(e, values)
  /\ row = [key |-> FillKey(e, values), rec |-> FillRecord(e, values)]
  /\ \A r \in e.rdbms_table : ~SameKey(r.key, row.key, e.key_mdata)
  /\ catalog' = [l \in DOMAIN catalog |-> IF l = k THEN WithRow(e, row) ELSE catalog[l]]

LEMMA InsertAdds ==
  ASSUME IInv, NEW n \in Names, NEW values \in Inserts, InsertRow(n, values)
  PROVE  \E k, e, row : \E cols \in Creates : Adds(n, values, k, e, cols, row)
<1>1. PICK k : k = CatalogKey(n)
  OBVIOUS
<1>2. k \in DOMAIN catalog
  BY <1>1 DEF InsertRow, Found
<1>3. PICK e : e = catalog[k] /\ e = Into(n)
  BY <1>1 DEF Into
<1>4. IsEntry(e) /\ GoodEntry(k, e)
  BY <1>2, <1>3 DEF IInv, GoodEntry
<1>5. PICK cols \in Creates : GoodTable(e, cols)
  BY <1>3, <1>4 DEF InsertRow, GoodEntry
<1>6. PICK row : row = [key |-> FillKey(e, values), rec |-> FillRecord(e, values)]
  OBVIOUS
<1>7. \A r \in e.rdbms_table : ~SameKey(r.key, row.key, e.key_mdata)
  BY <1>3, <1>6 DEF InsertRow, Stored
<1>8. catalog' = [catalog EXCEPT ![k].rdbms_table = e.rdbms_table \cup {row}]
  BY <1>1, <1>3, <1>6 DEF InsertRow
<1>9. [e EXCEPT !.rdbms_table = e.rdbms_table \cup {row}] = WithRow(e, row)
  BY <1>4 DEF IsEntry, WithRow
<1>10. catalog' = [l \in DOMAIN catalog |-> IF l = k THEN WithRow(e, row) ELSE catalog[l]]
  BY <1>2, <1>3, <1>8, <1>9
<1>11. Fits(e, values)
  BY <1>3 DEF InsertRow
<1>12. Adds(n, values, k, e, cols, row)
  BY <1>1, <1>2, <1>3, <1>5, <1>6, <1>7, <1>10, <1>11 DEF Adds
<1> QED BY <1>12


-----------------------------------------------------------------------------
(* Each statement keeps the invariant. *)

LEMMA EntryAdded ==
  ASSUME IInv, NEW n \in Names, NEW e, GoodEntry(CatalogKey(n), e), AddEntry(n, e),
         proc' \in {"running", "aborted"}
  PROVE  IInv'
<1>1. PICK k : k = CatalogKey(n)
  OBVIOUS
<1>2. catalog' = [l \in DOMAIN catalog \cup {k} |-> IF l = k THEN e ELSE catalog[l]]
  BY <1>1 DEF AddEntry
<1>3. \A l \in DOMAIN catalog : GoodEntry(l, catalog[l])
  BY DEF IInv
<1>4. \A l \in DOMAIN catalog' : GoodEntry(l, catalog'[l])
  BY <1>1, <1>2, <1>3
<1>5. catalog' = [l \in DOMAIN catalog' |-> catalog'[l]]
  BY <1>2
<1> QED BY <1>4, <1>5 DEF IInv

LEMMA NothingLeft ==
  ASSUME Abort
  PROVE  IInv' /\ catalog' = NoEntries
<1>1. catalog' = NoEntries /\ proc' = "aborted"
  BY DEF Abort
<1>2. DOMAIN catalog' = {} /\ catalog' = [l \in DOMAIN catalog' |-> catalog'[l]]
  BY <1>1 DEF NoEntries
<1> QED BY <1>1, <1>2 DEF IInv

LEMMA SameCatalog ==
  ASSUME IInv, catalog' = catalog, proc' \in {"running", "aborted"}
  PROVE  IInv'
  BY DEF IInv

\* The table of k has got the row, and nothing else has happened.
Added(k, e, d, cols, row) ==
  /\ k \in DOMAIN catalog /\ k \in DOMAIN catalog' /\ e = catalog[k] /\ d = catalog'[k]
  /\ GoodTable(e, cols) /\ GoodTable(d, cols) /\ d = WithRow(e, row) /\ GoodRecord(cols, row)
  /\ \A r \in e.rdbms_table : ~SameKey(r.key, row.key, e.key_mdata)
  /\ catalog' = [l \in DOMAIN catalog |-> IF l = k THEN d ELSE catalog[l]]

LEMMA InsertAdded ==
  ASSUME IInv, NEW n \in Names, NEW values \in Inserts, InsertRow(n, values)
  PROVE  \E k, e, d, row : \E cols \in Creates :
           /\ Added(k, e, d, cols, row) /\ k = CatalogKey(n)
           /\ Filling(cols, values) /\ row.rec = FillRecord(e, values)
<1>1. PICK k, e, row : \E cols \in Creates : Adds(n, values, k, e, cols, row)
  BY InsertAdds
<1>2. PICK cols \in Creates : Adds(n, values, k, e, cols, row)
  BY <1>1
<1>3. /\ GoodTable(e, cols) /\ Fits(e, values) /\ k \in DOMAIN catalog /\ e = catalog[k]
      /\ k = CatalogKey(n)
  BY <1>2 DEF Adds
<1>4. cols \in Columns /\ Describes(e, cols)
  BY <1>3, MadeOf
<1>5. row.key = FillKey(e, values) /\ row.rec = FillRecord(e, values)
  BY <1>2 DEF Adds
<1>6. GoodRecord(cols, row) /\ Filling(cols, values)
  BY <1>3, <1>4, <1>5, RecordMade
<1>7. PICK d : d = WithRow(e, row)
  OBVIOUS
<1>8. \A r \in e.rdbms_table : ~SameKey(r.key, row.key, e.key_mdata)
  BY <1>2 DEF Adds
<1>9. GoodTable(d, cols)
  BY <1>3, <1>6, <1>7, <1>8, RowAdded
<1>10. catalog' = [l \in DOMAIN catalog |-> IF l = k THEN d ELSE catalog[l]]
  BY <1>2, <1>7 DEF Adds
<1>11. k \in DOMAIN catalog' /\ d = catalog'[k]
  BY <1>3, <1>10
<1>12. Added(k, e, d, cols, row)
  BY <1>3, <1>6, <1>7, <1>8, <1>9, <1>10, <1>11 DEF Added
<1> QED BY <1>3, <1>5, <1>6, <1>12

LEMMA RowKept ==
  ASSUME IInv, NEW n \in Names, NEW values \in Inserts, InsertRow(n, values)
  PROVE  IInv'
<1>1. PICK k, e, d, row : \E cols \in Creates :
        /\ Added(k, e, d, cols, row) /\ k = CatalogKey(n)
        /\ Filling(cols, values) /\ row.rec = FillRecord(e, values)
  BY InsertAdded
<1>2. PICK cols \in Creates : Added(k, e, d, cols, row)
  BY <1>1
<1>3. /\ GoodTable(d, cols) /\ k \in DOMAIN catalog /\ e = catalog[k] /\ d = WithRow(e, row)
      /\ catalog' = [l \in DOMAIN catalog |-> IF l = k THEN d ELSE catalog[l]]
  BY <1>2 DEF Added
<1>4. e.table_name \in Names /\ CatalogKey(e.table_name) = k
  BY <1>3 DEF IInv, GoodEntry
<1>5. d.table_name = e.table_name /\ IsEntry(d)
  BY <1>3 DEF WithRow, IsEntry
<1>6. GoodEntry(k, d)
  BY <1>3, <1>4, <1>5 DEF GoodEntry
<1>7. \A l \in DOMAIN catalog : GoodEntry(l, catalog[l])
  BY DEF IInv
<1>8. \A l \in DOMAIN catalog' : GoodEntry(l, catalog'[l])
  BY <1>3, <1>6, <1>7
<1>9. catalog' = [l \in DOMAIN catalog' |-> catalog'[l]]
  BY <1>3
<1>10. proc' = proc /\ proc \in {"running", "aborted"}
  BY DEF InsertRow, Reply, IInv
<1> QED BY <1>8, <1>9, <1>10 DEF IInv

LEMMA InitGood == Init => IInv
<1> SUFFICES ASSUME Init PROVE IInv
  OBVIOUS
<1>1. catalog = NoEntries /\ proc = "running"
  BY DEF Init
<1>2. DOMAIN catalog = {} /\ catalog = [l \in DOMAIN catalog |-> catalog[l]]
  BY <1>1 DEF NoEntries
<1> QED BY <1>1, <1>2 DEF IInv

LEMMA NextGood == IInv /\ [Next]_vars => IInv'
<1> SUFFICES ASSUME IInv, [Next]_vars PROVE IInv'
  OBVIOUS
<1>0. proc \in {"running", "aborted"}
  BY DEF IInv
<1>1. ASSUME NEW n \in Names, NEW cols \in Creates, CreateTable(n, cols)
      PROVE  IInv'
  <2>1. PICK e : e = Entry(n, cols, SchemaTable(cols), KeyMdata(cols))
    OBVIOUS
  <2>2. GoodEntry(CatalogKey(n), e)
    BY <1>1, <2>1, TableMade DEF CreateTable
  <2>3. AddEntry(n, e) /\ proc' = proc
    BY <1>1, <2>1 DEF CreateTable, Reply
  <2> QED BY <1>0, <2>2, <2>3, EntryAdded
<1>2. ASSUME NEW n \in Names, NEW cols \in Creates, CreateWithoutKey(n, cols)
      PROVE  IInv'
  <2>1. PICK e : e = Entry(n, cols, NULL, <<>>)
    OBVIOUS
  <2>2. GoodEntry(CatalogKey(n), e)
    BY <2>1, StubMade
  <2>3. AddEntry(n, e) /\ proc' = proc
    BY <1>2, <2>1 DEF CreateWithoutKey, Reply
  <2> QED BY <1>0, <2>2, <2>3, EntryAdded
<1>3. ASSUME NEW n \in Names, NEW cols \in Creates, CreateAborts(n, cols)
      PROVE  IInv'
  BY <1>3, NothingLeft DEF CreateAborts
<1>4. ASSUME NEW n \in Names, CreateExists(n)
      PROVE  IInv'
  BY <1>0, <1>4, SameCatalog DEF CreateExists, Reply
<1>5. ASSUME NEW n \in Names, NEW values \in Inserts, InsertMisMatch(n, values)
      PROVE  IInv'
  BY <1>0, <1>5, SameCatalog DEF InsertMisMatch, Reply
<1>6. ASSUME NEW n \in Names, NEW values \in Inserts, InsertDuplicate(n, values)
      PROVE  IInv'
  BY <1>0, <1>6, SameCatalog DEF InsertDuplicate, Reply
<1>7. ASSUME NEW n \in Names, NEW values \in Inserts, InsertRow(n, values)
      PROVE  IInv'
  BY <1>7, RowKept
<1>8. ASSUME NEW n \in Names, InsertNotFound(n)
      PROVE  IInv'
  BY <1>0, <1>8, SameCatalog DEF InsertNotFound, Reply
<1>9. ASSUME NEW n \in Names, InsertAborts(n)
      PROVE  IInv'
  BY <1>9, NothingLeft DEF InsertAborts
<1>10. ASSUME NEW n \in Names, SelectAborts(n)
       PROVE  IInv'
  BY <1>10, NothingLeft DEF SelectAborts
<1>11. CASE ShowTables
  BY <1>0, <1>11, SameCatalog DEF ShowTables, Reply
<1>12. CASE ShowAborts
  BY <1>12, NothingLeft DEF ShowAborts
<1>13. CASE Start
  BY <1>13, SameCatalog DEF Start
<1>14. CASE UNCHANGED vars
  BY <1>0, <1>14, SameCatalog DEF vars
<1> QED BY <1>1, <1>2, <1>3, <1>4, <1>5, <1>6, <1>7, <1>8, <1>9, <1>10, <1>11, <1>12, <1>13,
           <1>14 DEF Next

(* IInv is an invariant, whatever columns the tables have and whatever is  *)
(* inserted into them.                                                     *)
THEOREM Inductive == Spec => []IInv
<1>1. Init => IInv
  BY InitGood
<1>2. IInv /\ [Next]_vars => IInv'
  BY NextGood
<1> QED BY <1>1, <1>2, PTL DEF Spec


-----------------------------------------------------------------------------
(* What the invariant is for. *)

(* What is known of a record of a table that has its trees. *)
LEMMA RecordFacts ==
  ASSUME NEW cols \in Columns, NEW e, Describes(e, cols), NEW r, GoodRecord(cols, r)
  PROVE  /\ Len(r.rec) = RecSize(e)
         /\ Len(r.key) = Total(Sizes(e.key_mdata))
         /\ r.key = FlattenSeq([i \in DOMAIN e.col_list |->
                                  IF e.col_list[i] \in KeyColumns(e)
                                    THEN Row(e, r)[e.col_list[i]] ELSE <<>>])
<1>1. PICK values \in Inserts :
        /\ Filling(cols, values)
        /\ r.key = FlattenSeq(KeyParts(cols, values))
        /\ Len(r.rec) = Offset(cols, Len(cols) + 1)
        /\ \A i \in 1..Len(cols) :
             Chunk(r.rec, Offset(cols, i), cols[i].len) = Field(values[i], cols[i].len)
  BY DEF GoodRecord
<1>2. Len(r.rec) = RecSize(e)
  BY <1>1, RecSizeIs
<1>3. Len(r.key) = Total(Sizes(e.key_mdata))
  <2>1. e.key_mdata = KeyMdata(cols)
    BY DEF Describes
  <2> QED BY <1>1, <2>1, KeyLength
<1>4. DOMAIN e.col_list = 1..Len(cols)
  BY SchemaNames
<1>5. ASSUME NEW i \in 1..Len(cols)
      PROVE  (IF e.col_list[i] \in KeyColumns(e) THEN Row(e, r)[e.col_list[i]] ELSE <<>>)
               = IF cols[i].pk THEN Field(values[i], cols[i].len) ELSE <<>>
  <2>1. e.col_list[i] = cols[i].name
    BY SchemaIs
  <2>2. Row(e, r)[cols[i].name] = Field(values[i], cols[i].len)
    BY <1>1, RowIs
  <2> QED BY <2>1, <2>2, KeyColumnIs
<1>6. [i \in DOMAIN e.col_list |->
         IF e.col_list[i] \in KeyColumns(e) THEN Row(e, r)[e.col_list[i]] ELSE <<>>]
        = KeyParts(cols, values)
  BY <1>4, <1>5 DEF KeyParts
<1> QED BY <1>1, <1>2, <1>3, <1>6

(* Where the columns of the primary key are the same, the keys are. *)
LEMMA SameColumnsSameKey ==
  ASSUME NEW cols \in Columns, NEW e, Describes(e, cols),
         NEW r, GoodRecord(cols, r), NEW s, GoodRecord(cols, s),
         \A c \in KeyColumns(e) : Row(e, r)[c] = Row(e, s)[c]
  PROVE  r.key = s.key
<1>1. [i \in DOMAIN e.col_list |->
         IF e.col_list[i] \in KeyColumns(e) THEN Row(e, r)[e.col_list[i]] ELSE <<>>]
        = [i \in DOMAIN e.col_list |->
             IF e.col_list[i] \in KeyColumns(e) THEN Row(e, s)[e.col_list[i]] ELSE <<>>]
  OBVIOUS
<1>2. r.key = FlattenSeq([i \in DOMAIN e.col_list |->
                            IF e.col_list[i] \in KeyColumns(e)
                              THEN Row(e, r)[e.col_list[i]] ELSE <<>>])
  BY RecordFacts
<1>3. s.key = FlattenSeq([i \in DOMAIN e.col_list |->
                            IF e.col_list[i] \in KeyColumns(e)
                              THEN Row(e, s)[e.col_list[i]] ELSE <<>>])
  BY RecordFacts
<1> QED BY <1>1, <1>2, <1>3

LEMMA MadeEntry ==
  ASSUME IInv, NEW k \in Made, NEW e, e = catalog[k]
  PROVE  \E cols \in Creates : GoodTable(e, cols)
  BY DEF IInv, GoodEntry, Made

LEMMA TypesGood == IInv => TypeOK
<1> SUFFICES ASSUME IInv PROVE TypeOK
  OBVIOUS
<1>1. proc \in {"running", "aborted"}
  BY DEF IInv
<1>2. \A k \in DOMAIN catalog : CatalogKey(catalog[k].table_name) = k
  BY DEF IInv, GoodEntry
<1>3. ASSUME NEW k \in Made, NEW e, e = catalog[k]
      PROVE  /\ Len(e.key_mdata) = Cardinality(KeyColumns(e))
             /\ Cardinality(DOMAIN e.schema_table) = Len(e.col_list)
             /\ \A r \in e.rdbms_table :
                  /\ Len(r.rec) = RecSize(e)
                  /\ Len(r.key) = Total([i \in DOMAIN e.key_mdata |-> e.key_mdata[i].size])
  <2>1. PICK cols \in Creates : GoodTable(e, cols)
    BY <1>3, MadeEntry
  <2>2. cols \in Columns /\ Describes(e, cols)
    BY <2>1, MadeOf
  <2>3. ASSUME NEW r \in e.rdbms_table
        PROVE  /\ Len(r.rec) = RecSize(e)
               /\ Len(r.key) = Total([i \in DOMAIN e.key_mdata |-> e.key_mdata[i].size])
    <3>1. GoodRecord(cols, r)
      BY <2>1 DEF GoodTable
    <3>2. Len(r.rec) = RecSize(e) /\ Len(r.key) = Total(Sizes(e.key_mdata))
      BY <2>2, <3>1, RecordFacts
    <3> QED BY <3>2 DEF Sizes
  <2> QED BY <2>2, <2>3, SchemaCounts
<1> QED BY <1>1, <1>2, <1>3 DEF TypeOK

LEMMA KeysMatch == IInv => KeysMatchRecords
<1> SUFFICES ASSUME IInv PROVE KeysMatchRecords
  OBVIOUS
<1>1. ASSUME NEW k \in Made, NEW e, e = catalog[k], NEW r \in e.rdbms_table
      PROVE  r.key = FlattenSeq([i \in DOMAIN e.col_list |->
                                   IF e.col_list[i] \in KeyColumns(e)
                                     THEN Row(e, r)[e.col_list[i]] ELSE <<>>])
  <2>1. PICK cols \in Creates : GoodTable(e, cols)
    BY <1>1, MadeEntry
  <2>2. cols \in Columns /\ Describes(e, cols) /\ GoodRecord(cols, r)
    BY <1>1, <2>1, MadeOf DEF GoodTable
  <2> QED BY <2>2, RecordFacts
<1> QED BY <1>1, TypesGood DEF KeysMatchRecords

LEMMA KeysApart ==
  ASSUME NEW cols \in Creates, NEW e, GoodTable(e, cols),
         NEW r \in e.rdbms_table, NEW s \in e.rdbms_table,
         \A c \in KeyColumns(e) : Row(e, r)[c] = Row(e, s)[c]
  PROVE  r = s
<1>1. cols \in Columns /\ Describes(e, cols) /\ GoodRecord(cols, r) /\ GoodRecord(cols, s)
  BY MadeOf DEF GoodTable
<1>2. r.key = s.key
  BY <1>1, SameColumnsSameKey
<1>3. SameKey(r.key, s.key, e.key_mdata)
  BY <1>2, SameKeyOfItself
<1> QED BY <1>3 DEF GoodTable

LEMMA KeysUnique == IInv => PrimaryKeysUnique
<1> SUFFICES ASSUME IInv, NEW k \in Made, NEW e, e = catalog[k],
                    NEW r \in e.rdbms_table, NEW s \in e.rdbms_table,
                    \A c \in KeyColumns(e) : Row(e, r)[c] = Row(e, s)[c]
             PROVE  r = s
  BY DEF PrimaryKeysUnique
<1>1. PICK cols \in Creates : GoodTable(e, cols)
  BY MadeEntry
<1> QED BY <1>1, KeysApart

(* A record is stored under the key that its own columns make, of whatever *)
(* types and sizes they are, and both are as long as the schema says.      *)
THEOREM KeysMatchTheirRecords == Spec => []KeysMatchRecords
  BY Inductive, KeysMatch, PTL

(* No two rows of a table have the same primary key. *)
THEOREM PrimaryKeysStayUnique == Spec => []PrimaryKeysUnique
  BY Inductive, KeysUnique, PTL


-----------------------------------------------------------------------------
(* After an insert. *)

LEMMA ReadsBack ==
  ASSUME IInv, NEW n \in Names, NEW values \in Inserts, InsertRow(n, values),
         NEW d, d = catalog'[CatalogKey(n)]
  PROVE  \E row \in Rows(d) : \A i \in DOMAIN d.col_list :
           row[d.col_list[i]] = Field(values[i], Schema(d, i).dtype_size)
<1>1. PICK k, e, x, row : \E cols \in Creates :
        /\ Added(k, e, x, cols, row) /\ k = CatalogKey(n)
        /\ Filling(cols, values) /\ row.rec = FillRecord(e, values)
  BY InsertAdded
<1>2. PICK cols \in Creates :
        /\ Added(k, e, x, cols, row) /\ k = CatalogKey(n)
        /\ Filling(cols, values) /\ row.rec = FillRecord(e, values)
  BY <1>1
<1>3. x = d /\ GoodTable(e, cols) /\ GoodTable(d, cols) /\ d = WithRow(e, row)
  BY <1>2 DEF Added
<1>4. cols \in Columns /\ Describes(e, cols) /\ Describes(d, cols)
  BY <1>3, MadeOf
<1>5. row \in d.rdbms_table
  BY <1>3 DEF WithRow
<1>6. PICK z : z = Row(d, row)
  OBVIOUS
<1>7. z \in Rows(d)
  BY <1>5, <1>6 DEF Rows
<1>8. DOMAIN d.col_list = 1..Len(cols)
  BY <1>4, SchemaNames
<1>9. ASSUME NEW i \in 1..Len(cols)
      PROVE  z[d.col_list[i]] = Field(values[i], Schema(d, i).dtype_size)
  <2>1. d.col_list[i] = cols[i].name /\ Schema(d, i).dtype_size = cols[i].len
    BY <1>4, SchemaIs
  <2>2. Row(e, row)[cols[i].name] = Field(values[i], cols[i].len)
    BY <1>2, <1>4, RowReads
  <2>3. Row(e, row)[cols[i].name] = Chunk(row.rec, Offset(cols, i), cols[i].len)
    BY <1>4, RowIs
  <2>4. Row(d, row)[cols[i].name] = Chunk(row.rec, Offset(cols, i), cols[i].len)
    BY <1>4, RowIs
  <2> QED BY <1>6, <2>1, <2>2, <2>3, <2>4
<1> QED BY <1>7, <1>8, <1>9

(* After INSERT 0 1 a query reads the values that were inserted. *)
THEOREM InsertsReadBack == Spec => InsertReadsBack
<1>1. IInv /\ [Next]_vars =>
        [ reply' = "INSERT 0 1" =>
            \A n \in Names, values \in Inserts :
            InsertRow(n, values) =>
              LET e == Into(n)'
              IN  \E row \in Rows(e) :
                    \A i \in DOMAIN e.col_list :
                      row[e.col_list[i]] = Field(values[i], Schema(e, i).dtype_size) ]_vars
  <2> SUFFICES ASSUME IInv, NEW n \in Names, NEW values \in Inserts, InsertRow(n, values)
               PROVE  \E row \in Rows(Into(n)') :
                        \A i \in DOMAIN Into(n)'.col_list :
                          row[Into(n)'.col_list[i]]
                            = Field(values[i], Schema(Into(n)', i).dtype_size)
    OBVIOUS
  <2>1. PICK d : d = Into(n)'
    OBVIOUS
  <2>2. d = catalog'[CatalogKey(n)]
    BY <2>1 DEF Into, CatalogKey
  <2>3. \E row \in Rows(d) : \A i \in DOMAIN d.col_list :
          row[d.col_list[i]] = Field(values[i], Schema(d, i).dtype_size)
    BY <2>2, ReadsBack
  <2> QED BY <2>1, <2>3
<1> QED BY <1>1, Inductive, PTL DEF Spec, InsertReadsBack


-----------------------------------------------------------------------------
(* The relations that a catalog stands for. *)

TableOf(e) == [key |-> KeyColumns(e), rows |-> Rows(e)]

TablesOf(c) == [k \in DOMAIN c |-> TableOf(c[k])]

LEMMA TablesAre ==
  Tables = TablesOf(catalog) /\ Tables' = TablesOf(catalog')
  BY DEF Tables, TablesOf, TableOf

LEMMA KnownIs ==
  ASSUME NEW n \in Names
  PROVE  Relational!Known(n) <=> CatalogKey(n) \in DOMAIN catalog
  BY TablesAre DEF Relational!Known, TablesOf, CatalogKey

\* One relation more, under k.
OneMore(t, u, k, x) ==
  /\ k \notin DOMAIN t /\ DOMAIN u = DOMAIN t \cup {k} /\ u[k] = x
  /\ \A l \in DOMAIN t : u[l] = t[l]

LEMMA RelationNew ==
  ASSUME NEW c, NEW k, k \notin DOMAIN c, NEW e,
         NEW d, d = [l \in DOMAIN c \cup {k} |-> IF l = k THEN e ELSE c[l]]
  PROVE  OneMore(TablesOf(c), TablesOf(d), k, TableOf(e))
<1>1. DOMAIN d = DOMAIN c \cup {k} /\ d[k] = e /\ \A l \in DOMAIN c : d[l] = c[l]
  OBVIOUS
<1>2. DOMAIN TablesOf(c) = DOMAIN c /\ DOMAIN TablesOf(d) = DOMAIN d
  BY DEF TablesOf
<1>3. TablesOf(d)[k] = TableOf(e)
  BY <1>1 DEF TablesOf
<1>4. ASSUME NEW l \in DOMAIN c
      PROVE  TablesOf(d)[l] = TablesOf(c)[l]
  BY <1>1 DEF TablesOf
<1> QED BY <1>1, <1>2, <1>3, <1>4 DEF OneMore

(* A statement that adds an entry adds a relation under the name it names. *)
LEMMA EntryIsTable ==
  ASSUME NEW n \in Names, CatalogKey(n) \notin DOMAIN catalog, NEW e, AddEntry(n, e)
  PROVE  Relational!NewTable(n) /\ Tables'[Prefix[n]] = TableOf(e)
<1>1. PICK c, d, k : c = catalog /\ d = catalog' /\ k = Prefix[n]
  OBVIOUS
<1>2. k \notin DOMAIN c /\ d = [l \in DOMAIN c \cup {k} |-> IF l = k THEN e ELSE c[l]]
  BY <1>1 DEF AddEntry, CatalogKey
<1>3. OneMore(TablesOf(c), TablesOf(d), k, TableOf(e))
  BY <1>2, RelationNew
<1>4. OneMore(Tables, Tables', k, TableOf(e))
  BY <1>1, <1>3, TablesAre
<1> QED BY <1>1, <1>4 DEF OneMore, Relational!NewTable, Relational!Known

LEMMA CreateIsRelational ==
  ASSUME NEW n \in Names, NEW cols \in Creates, CreateTable(n, cols)
  PROVE  Relational!CreateRelation(n)
<1>1. PICK e : e = Entry(n, cols, SchemaTable(cols), KeyMdata(cols))
  OBVIOUS
<1>2. GoodTable(e, cols) /\ e.rdbms_table = {}
  BY <1>1, TableMade DEF CreateTable
<1>3. cols \in Columns /\ Describes(e, cols)
  BY <1>2, MadeOf
<1>4. KeyColumns(e) # {} /\ Rows(e) = {}
  BY <1>2, <1>3, KeyIsSome DEF GoodTable, Rows
<1>5. Relational!NewTable(n) /\ Tables'[Prefix[n]] = TableOf(e)
  BY <1>1, EntryIsTable DEF CreateTable
<1>6. Tables'[Prefix[n]].rows = {} /\ Tables'[Prefix[n]].key # {}
  BY <1>4, <1>5 DEF TableOf
<1>7. proc = "running" /\ proc' = proc /\ reply' = "CREATE TABLE"
  BY DEF CreateTable, Running, Reply
<1> QED BY <1>5, <1>6, <1>7 DEF Relational!CreateRelation, Relational!Answers

LEMMA StubRows ==
  ASSUME NEW e, e.schema_table = NULL, e.rdbms_table = {}
  PROVE  TableOf(e) = Relational!HalfMade
<1>1. DOMAIN e.schema_table = {}
  BY DEF NULL
<1> QED BY <1>1 DEF TableOf, KeyColumns, Rows, Relational!HalfMade

LEMMA StubIsRelational ==
  ASSUME NEW n \in Names, NEW cols \in Creates, CreateWithoutKey(n, cols)
  PROVE  Relational!TakeName(n)
<1>1. PICK e : e = Entry(n, cols, NULL, <<>>) /\ e.schema_table = NULL /\ e.rdbms_table = {}
  BY StubMade
<1>2. Relational!NewTable(n) /\ Tables'[Prefix[n]] = TableOf(e)
  BY <1>1, EntryIsTable DEF CreateWithoutKey
<1>3. /\ proc = "running" /\ proc' = proc
      /\ reply' = "Table Must have atleast one primary key"
  BY DEF CreateWithoutKey, Running, Reply
<1> QED BY <1>1, <1>2, <1>3, StubRows DEF Relational!TakeName, Relational!Answers

LEMMA RowsOfAdded ==
  ASSUME NEW e, NEW row, NEW d, d = WithRow(e, row)
  PROVE  /\ Rows(d) = Rows(e) \cup {Row(e, row)}
         /\ TableOf(d) = [TableOf(e) EXCEPT !.rows = @ \cup {Row(e, row)}]
<1>1. d.schema_table = e.schema_table /\ d.rdbms_table = e.rdbms_table \cup {row}
  BY DEF WithRow
<1>2. KeyColumns(d) = KeyColumns(e)
  BY <1>1 DEF KeyColumns
<1>3. ASSUME NEW r PROVE Row(d, r) = Row(e, r)
  BY <1>1 DEF Row
<1>4. Rows(d) = Rows(e) \cup {Row(e, row)}
  BY <1>1, <1>3 DEF Rows
<1> QED BY <1>1, <1>2, <1>4 DEF TableOf

\* One relation has got one row.
Grows(t, u, k, z) ==
  /\ k \in DOMAIN t /\ k \in DOMAIN u /\ z \in u[k].rows
  /\ u = [t EXCEPT ![k].rows = @ \cup {z}]

LEMMA RelationGrown ==
  ASSUME NEW c, NEW k \in DOMAIN c, NEW e, e = c[k], NEW row, NEW x, x = WithRow(e, row),
         NEW d, d = [l \in DOMAIN c |-> IF l = k THEN x ELSE c[l]]
  PROVE  Grows(TablesOf(c), TablesOf(d), k, Row(e, row))
<1>1. PICK t, u, z : t = TablesOf(c) /\ u = TablesOf(d) /\ z = Row(e, row)
  OBVIOUS
<1>2. t = [l \in DOMAIN c |-> TableOf(c[l])] /\ u = [l \in DOMAIN c |-> TableOf(d[l])]
  BY <1>1 DEF TablesOf
<1>3. t[k] = TableOf(e) /\ u[k] = TableOf(x) /\ \A l \in DOMAIN c : l # k => u[l] = t[l]
  BY <1>2
<1>4. TableOf(x) = [TableOf(e) EXCEPT !.rows = @ \cup {z}] /\ z \in TableOf(x).rows
  BY <1>1, RowsOfAdded DEF TableOf
<1>5. u[k] = [t[k] EXCEPT !.rows = @ \cup {z}]
  BY <1>3, <1>4
<1>6. DOMAIN t = DOMAIN c /\ DOMAIN u = DOMAIN c
      /\ t = [l \in DOMAIN t |-> t[l]] /\ u = [l \in DOMAIN u |-> u[l]]
  BY <1>2
<1>7. u = [t EXCEPT ![k].rows = @ \cup {z}]
  BY <1>3, <1>5, <1>6
<1> QED BY <1>1, <1>3, <1>4, <1>6, <1>7 DEF Grows

LEMMA InsertIsRelational ==
  ASSUME IInv, NEW n \in Names, NEW values \in Inserts, InsertRow(n, values)
  PROVE  Relational!AddRow(n)
<1>1. PICK k, e, x, row : \E cols \in Creates :
        /\ Added(k, e, x, cols, row) /\ k = CatalogKey(n)
        /\ Filling(cols, values) /\ row.rec = FillRecord(e, values)
  BY InsertAdded
<1>2. PICK cols \in Creates : Added(k, e, x, cols, row)
  BY <1>1
<1>3. /\ k \in DOMAIN catalog /\ e = catalog[k] /\ x = WithRow(e, row)
      /\ GoodTable(e, cols) /\ GoodRecord(cols, row)
      /\ \A r \in e.rdbms_table : ~SameKey(r.key, row.key, e.key_mdata)
      /\ catalog' = [l \in DOMAIN catalog |-> IF l = k THEN x ELSE catalog[l]]
  BY <1>2 DEF Added
<1>4. cols \in Columns /\ Describes(e, cols)
  BY <1>3, MadeOf
<1>5. PICK z : z = Row(e, row)
  OBVIOUS
<1>6. PICK c, d : c = catalog /\ d = catalog'
  OBVIOUS
<1>7. PICK t, u : t = Tables /\ u = Tables'
  OBVIOUS
<1>8. Grows(t, u, k, z) /\ t[k] = TableOf(e)
  <2>1. Grows(TablesOf(c), TablesOf(d), k, Row(e, row))
    BY <1>3, <1>6, RelationGrown
  <2>2. TablesOf(c)[k] = TableOf(e)
    BY <1>3, <1>6 DEF TablesOf
  <2> QED BY <1>5, <1>6, <1>7, <2>1, <2>2, TablesAre
<1>9. ASSUME NEW y \in t[k].rows
      PROVE  \E col \in t[k].key : y[col] # z[col]
  <2>1. PICK r \in e.rdbms_table : y = Row(e, r)
    BY <1>8, <1>9 DEF TableOf, Rows
  <2>2. GoodRecord(cols, r)
    BY <1>3, <2>1 DEF GoodTable
  <2>3. ~SameKey(r.key, row.key, e.key_mdata)
    BY <1>3, <2>1
  <2>4. r.key # row.key
    BY <2>3, SameKeyOfItself
  <2>5. ~ \A col \in KeyColumns(e) : Row(e, r)[col] = Row(e, row)[col]
    BY <1>3, <1>4, <2>2, <2>4, SameColumnsSameKey
  <2>6. t[k].key = KeyColumns(e)
    BY <1>8 DEF TableOf
  <2> QED BY <1>5, <2>1, <2>5, <2>6
<1>10. t[k].key # {}
  BY <1>3, <1>4, <1>8, KeyIsSome DEF GoodTable, TableOf
<1>11. k = Prefix[n] /\ proc = "running" /\ proc' = proc /\ reply' = "INSERT 0 1"
  BY <1>1 DEF CatalogKey, InsertRow, Found, Running, Reply
<1>12. PICK y \in u[k].rows :
         /\ \A r \in t[k].rows : \E col \in t[k].key : r[col] # y[col]
         /\ u = [t EXCEPT ![k].rows = @ \cup {y}]
  BY <1>8, <1>9 DEF Grows
<1>13. k \in DOMAIN t
  BY <1>8 DEF Grows
<1> QED BY <1>7, <1>10, <1>11, <1>12, <1>13
        DEF Relational!AddRow, Relational!Answers, Relational!Known

LEMMA AllLost ==
  ASSUME Abort, proc = "running"
  PROVE  Relational!LoseAll
<1>1. catalog' = NoEntries /\ proc' = "aborted"
  BY DEF Abort
<1>2. DOMAIN catalog' = {}
  BY <1>1 DEF NoEntries
<1>3. Tables' = [i \in {} |-> 0]
  BY <1>2, TablesAre DEF TablesOf
<1> QED BY <1>1, <1>3 DEF Relational!LoseAll, Relational!NoTables

LEMMA Refused ==
  ASSUME NEW r, proc = "running", Reply(r), catalog' = catalog
  PROVE  Relational!Refuses(r)
  BY TablesAre DEF Reply, Relational!Refuses, Relational!Answers

(* What a statement finds half made a failed create has left. *)
LEMMA StubIsHalfMade ==
  ASSUME IInv, NEW n \in Names, Found(n), Into(n).schema_table = NULL
  PROVE  Relational!Known(n) /\ Tables[Prefix[n]] = Relational!HalfMade
<1>1. PICK k, e : k = Prefix[n] /\ e = catalog[k] /\ e = Into(n) /\ k \in DOMAIN catalog
  BY DEF Found, Into, CatalogKey
<1>2. GoodEntry(k, e)
  BY <1>1 DEF IInv
<1>3. e.rdbms_table = {}
  BY <1>1, <1>2, MadeOf DEF GoodEntry
<1>4. TableOf(e) = Relational!HalfMade
  BY <1>1, <1>3, StubRows
<1>5. Tables[k] = TableOf(e)
  BY <1>1, TablesAre DEF TablesOf
<1> QED BY <1>1, <1>4, <1>5, KnownIs DEF CatalogKey

LEMMA DuplicateIsRelational ==
  ASSUME NEW n \in Names, NEW values \in Inserts, InsertDuplicate(n, values)
  PROVE  Relational!Insert(n)
<1>1. PICK k, e : k = Prefix[n] /\ e = catalog[k] /\ e = Into(n) /\ k \in DOMAIN catalog
  BY DEF InsertDuplicate, Found, Into, CatalogKey
<1>2. e.rdbms_table # {}
  BY <1>1 DEF InsertDuplicate, Stored
<1>3. Rows(e) # {}
  BY <1>2 DEF Rows
<1>4. Tables[k].rows # {}
  BY <1>1, <1>3, TablesAre DEF TablesOf, TableOf
<1>5. Relational!Refuses("duplicate key value violates unique constraint")
  BY Refused DEF InsertDuplicate, Found, Running
<1> QED BY <1>1, <1>4, <1>5, KnownIs DEF Relational!Insert, CatalogKey

LEMMA ListIsRelational ==
  ASSUME IInv, ShowTables \/ ShowAborts
  PROVE  Relational!List
<1>1. statement'.verb = "list" /\ proc = "running"
  <2>1. Asked("list", "none") /\ Running
    BY DEF ShowTables, ShowAborts
  <2>2. PICK st : st = statement' /\ st = [verb |-> "list", table |-> "none"]
    BY <2>1 DEF Asked
  <2>3. st.verb = "list"
    BY <2>2
  <2> QED BY <2>1, <2>2, <2>3 DEF Running
<1>2. DOMAIN catalog = {} <=> Tables = [i \in {} |-> 0]
  <2>1. PICK c, t : c = catalog /\ t = Tables /\ t = [k \in DOMAIN c |-> TableOf(c[k])]
    BY TablesAre DEF TablesOf
  <2>2. DOMAIN t = DOMAIN c
    BY <2>1
  <2>3. DOMAIN c = {} => t = [i \in {} |-> 0]
    BY <2>1
  <2>4. t = [i \in {} |-> 0] => DOMAIN t = {}
    OBVIOUS
  <2> QED BY <2>1, <2>2, <2>3, <2>4
<1>3. CASE ShowTables
  <2>1. catalog = NoEntries
    <3>1. catalog # NoEntries => CatalogKeySize <= SQL_TABLE_NAME_MAX_SIZE
      BY <1>3 DEF ShowTables
    <3>2. ~ CatalogKeySize <= SQL_TABLE_NAME_MAX_SIZE
      BY DEF CatalogKeySize, SQL_TABLE_NAME_MAX_SIZE
    <3> QED BY <3>1, <3>2
  <2>2. DOMAIN catalog = {}
    BY <2>1 DEF NoEntries
  <2>3. Relational!Refuses("List of relations")
    BY <1>1, <1>3, Refused DEF ShowTables
  <2> QED BY <1>1, <1>2, <2>2, <2>3 DEF Relational!List, Relational!NoTables
<1>4. CASE ShowAborts
  <2>1. catalog # NoEntries /\ Abort
    BY <1>4 DEF ShowAborts
  <2>2. Relational!LoseAll
    BY <1>1, <2>1, AllLost
  <2>3. DOMAIN catalog # {}
    <3>1. PICK c : c = catalog /\ c # [i \in {} |-> 0] /\ c = [k \in DOMAIN c |-> c[k]]
      BY <2>1 DEF NoEntries, IInv
    <3> QED BY <3>1
  <2> QED BY <1>1, <1>2, <2>2, <2>3 DEF Relational!List, Relational!NoTables
<1> QED BY <1>3, <1>4

LEMMA CreateSteps ==
  ASSUME NEW n \in Names,
         \/ \E cols \in Creates : \/ CreateTable(n, cols) \/ CreateWithoutKey(n, cols)
                                  \/ CreateAborts(n, cols)
         \/ CreateExists(n)
  PROVE  Relational!Asks("create", n) /\ Relational!Create(n)
<1>1. Relational!Asks("create", n)
  BY DEF CreateTable, CreateWithoutKey, CreateAborts, CreateExists, Asked, Relational!Asks
<1>2. ASSUME NEW cols \in Creates, CreateTable(n, cols)
      PROVE  Relational!Create(n)
  BY <1>2, CreateIsRelational DEF Relational!Create
<1>3. ASSUME NEW cols \in Creates, CreateWithoutKey(n, cols)
      PROVE  Relational!Create(n)
  BY <1>3, StubIsRelational DEF Relational!Create
<1>4. ASSUME NEW cols \in Creates, CreateAborts(n, cols)
      PROVE  Relational!Create(n)
  BY <1>4, AllLost, KnownIs DEF CreateAborts, Running, Relational!Create
<1>5. ASSUME CreateExists(n)
      PROVE  Relational!Create(n)
  BY <1>5, Refused, KnownIs DEF CreateExists, Running, Relational!Create
<1> QED BY <1>1, <1>2, <1>3, <1>4, <1>5

LEMMA InsertSteps ==
  ASSUME IInv, NEW n \in Names,
         \/ \E values \in Inserts : \/ InsertMisMatch(n, values) \/ InsertDuplicate(n, values)
                                    \/ InsertRow(n, values)
         \/ InsertNotFound(n) \/ InsertAborts(n)
  PROVE  Relational!Asks("insert", n) /\ Relational!Insert(n)
<1>1. Relational!Asks("insert", n)
  BY DEF InsertMisMatch, InsertDuplicate, InsertRow, InsertNotFound, InsertAborts, Asked,
         Relational!Asks
<1>2. ASSUME NEW values \in Inserts, InsertMisMatch(n, values)
      PROVE  Relational!Insert(n)
  BY <1>2, Refused, KnownIs DEF InsertMisMatch, Found, Running, Relational!Insert
<1>3. ASSUME NEW values \in Inserts, InsertDuplicate(n, values)
      PROVE  Relational!Insert(n)
  BY <1>3, DuplicateIsRelational
<1>4. ASSUME NEW values \in Inserts, InsertRow(n, values)
      PROVE  Relational!Insert(n)
  BY <1>4, InsertIsRelational DEF Relational!Insert
<1>5. ASSUME InsertNotFound(n)
      PROVE  Relational!Insert(n)
  BY <1>5, Refused, KnownIs DEF InsertNotFound, Running, Relational!Insert
<1>6. ASSUME InsertAborts(n)
      PROVE  Relational!Insert(n)
  <2>1. Found(n) /\ Into(n).schema_table = NULL /\ Abort /\ proc = "running"
    BY <1>6 DEF InsertAborts, Found, Running
  <2> QED BY <2>1, AllLost, StubIsHalfMade DEF Relational!Insert
<1> QED BY <1>1, <1>2, <1>3, <1>4, <1>5, <1>6

LEMMA SelectSteps ==
  ASSUME IInv, NEW n \in Names, SelectAborts(n)
  PROVE  Relational!Asks("select", n) /\ Relational!Select(n)
<1>1. /\ Relational!Asks("select", n)
      /\ Found(n) /\ Into(n).schema_table = NULL /\ Abort /\ proc = "running"
  BY DEF SelectAborts, Found, Running, Asked, Relational!Asks
<1> QED BY <1>1, AllLost, StubIsHalfMade DEF Relational!Select

(* Every statement is a step of the relation it names, and of no other:    *)
(* rows go where the statement said, the answer is what was done, and the  *)
(* program ends only where Relations says it may.                          *)
THEOREM CatalogIsRelations == Spec => ImplementsRelations
<1>1. Init => Relational!RelInit
  <2> SUFFICES ASSUME Init PROVE Relational!RelInit
    OBVIOUS
  <2>1. DOMAIN catalog = {} /\ proc = "running"
    BY DEF Init, NoEntries
  <2>2. Tables = [i \in {} |-> 0]
    BY <2>1, TablesAre DEF TablesOf
  <2> QED BY <2>1, <2>2 DEF Relational!RelInit, Relational!NoTables
<1>2. IInv /\ [Next]_vars => [Relational!RelNext]_(Relational!relVars)
  <2> SUFFICES ASSUME IInv, [Next]_vars
               PROVE  Relational!RelNext \/ UNCHANGED Relational!relVars
    OBVIOUS
  <2>1. CASE \E n \in Names :
               \/ \E cols \in Creates : \/ CreateTable(n, cols) \/ CreateWithoutKey(n, cols)
                                        \/ CreateAborts(n, cols)
               \/ CreateExists(n)
    BY <2>1, CreateSteps DEF Relational!RelNext
  <2>2. CASE \E n \in Names :
               \/ \E values \in Inserts :
                    \/ InsertMisMatch(n, values) \/ InsertDuplicate(n, values)
                    \/ InsertRow(n, values)
               \/ InsertNotFound(n) \/ InsertAborts(n)
    BY <2>2, InsertSteps DEF Relational!RelNext
  <2>3. CASE \E n \in Names : SelectAborts(n)
    BY <2>3, SelectSteps DEF Relational!RelNext
  <2>4. CASE ShowTables \/ ShowAborts
    BY <2>4, ListIsRelational DEF Relational!RelNext
  <2>5. CASE Start
    <3>1. /\ proc = "aborted" /\ proc' = "running"
          /\ UNCHANGED <<statement, reply>> /\ Tables' = Tables
      BY <2>5, TablesAre DEF Start
    <3> QED BY <3>1 DEF Relational!RelNext, Relational!Restart
  <2>6. CASE UNCHANGED vars
    BY <2>6, TablesAre DEF vars, Relational!relVars
  <2> QED BY <2>1, <2>2, <2>3, <2>4, <2>5, <2>6 DEF Next
<1> QED BY <1>1, <1>2, Inductive, PTL DEF Spec, ImplementsRelations, Relational!RelSpec

=============================================================================
