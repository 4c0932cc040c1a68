------------------------------ MODULE Catalog -------------------------------
(***************************************************************************)
(* create table, insert into and the list of tables (core/Catalog.c,       *)
(* sql_insert_into.c, sql_utils.c).  The catalog, the schema table and the *)
(* record table of each table are B+ trees; they appear here as the maps   *)
(* that BPlusTree is shown to be, with the code's own comparison of keys   *)
(* deciding which keys are the same.  What a statement brings along is     *)
(* what its parser has put in cdata or idata.                              *)
(*                                                                         *)
(* Keys and records are sequences of bytes, as in the code; how many bytes *)
(* a type has and which values a byte takes is up to the instance.         *)
(***************************************************************************)
EXTENDS Integers, Sequences, SequencesExt, FiniteSets

CONSTANTS
  Names,       \* table names
  Prefix,      \* Prefix[n]: the first twelve characters of n
  Creates,     \* the column lists of create statements
  Inserts,     \* the value lists of insert statements
  MaxRecords   \* bound on the records of all tables together

Column == [name : STRING, dtype : {"int", "double", "string"}, len : Nat, pk : BOOLEAN]

ASSUME CatalogAssumption ==
  /\ Names \subseteq DOMAIN Prefix
  /\ Creates \subseteq Seq(Column) \ {<<>>}
  /\ Inserts \subseteq Seq([dtype : STRING, bytes : Seq(Nat)])
  /\ MaxRecords \in Nat

VARIABLES
  catalog,   \* TableCatalogDef: from the keys of its entries to their ctable_val_t
  proc,      \* "running", or "aborted" after a failed assert or a NULL pointer
  statement, \* the last statement: its verb and the table it named
  reply      \* what it printed

vars == <<catalog, proc, statement, reply>>

NULL == <<>>
NoEntries == [k \in {} |-> 0]

NoStatement == [verb |-> "none", table |-> "none"]

Init ==
  catalog = NoEntries /\ proc = "running" /\ statement = NoStatement /\ reply = "none"

Running == proc = "running"
Asked(verb, n) == statement' = [verb |-> verb, table |-> n]
Reply(r) == reply' = r /\ UNCHANGED proc
Abort == proc' = "aborted" /\ reply' = "none" /\ catalog' = NoEntries

-----------------------------------------------------------------------------
(* rdbms_key_comp_fn.  key_mdata is never advanced in its loop, so each of *)
(* the columns of a key is compared as if it were another one of the first *)
(* column's type and size.  Behind a key's last byte there are zeros, as   *)
(* long as the key is no longer than what calloc rounds it up to.          *)

Chunk(key, offset, size) ==
  [j \in 1..size |-> IF offset + j <= Len(key) THEN key[offset + j] ELSE 0]

\* Numbers are the same when their bytes are, strings when their bytes up to a zero are.
SameValue(dtype, f, g) ==
  \A j \in DOMAIN f :
    \/ f[j] = g[j]
    \/ dtype = "string" /\ \E m \in 1..j - 1 : f[m] = 0 /\ g[m] = 0

SameKey(key1, key2, key_mdata) ==
  LET dtype == key_mdata[1].dtype
      size  == key_mdata[1].size
  IN  \A i \in 1..Len(key_mdata) :
        SameValue(dtype, Chunk(key1, (i - 1) * size, size), Chunk(key2, (i - 1) * size, size))

(* Wrong CatalogKey: of the name nothing is looked at. *)
ScopeOnly(n) == "PUBLIC"

(* The key of a catalog entry is scope, name, type and owner, but for the  *)
(* same reason only its first four integers are looked at: the scope and   *)
(* twelve characters of the name.                                          *)
CatalogKey(n) == Prefix[n]

-----------------------------------------------------------------------------
(* create table *)

DistinctColumns(cols) == \A i, j \in DOMAIN cols : cols[i].name = cols[j].name => i = j

HasPrimaryKey(cols) == \E i \in DOMAIN cols : cols[i].pk

Total(sizes) ==
  LET sum[i \in 0..Len(sizes)] == IF i = 0 THEN 0 ELSE sum[i - 1] + sizes[i]
  IN  sum[Len(sizes)]

(* Wrong Offset: the offset is advanced before it is noted. *)
OffsetBehind(cols, i) == Total([j \in 1..i |-> cols[j].len])

\* The bytes of the columns before the i-th.
Offset(cols, i) == Total([j \in 1..i - 1 |-> cols[j].len])

(* Catalog_create_schema_table_records: by column name. *)
SchemaTable(cols) ==
  [c \in {cols[i].name : i \in DOMAIN cols} |->
     LET i == CHOOSE i \in DOMAIN cols : cols[i].name = c
     IN  [dtype |-> cols[i].dtype, dtype_size |-> cols[i].len,
          is_primary_key |-> cols[i].pk, offset |-> Offset(cols, i)]]

(* sql_construct_table_key_mdata *)
KeyMdata(cols) ==
  LET mdata[i \in 0..Len(cols)] ==
        IF i = 0 THEN <<>>
        ELSE IF cols[i].pk
          THEN Append(mdata[i - 1], [dtype |-> cols[i].dtype, size |-> cols[i].len])
        ELSE mdata[i - 1]
  IN  mdata[Len(cols)]

Entry(n, cols, schema, mdata) ==
  [table_name |-> n, col_list |-> [i \in DOMAIN cols |-> cols[i].name],
   schema_table |-> schema, key_mdata |-> mdata, rdbms_table |-> {}]

AddEntry(n, e) ==
  catalog' = [k \in DOMAIN catalog \cup {CatalogKey(n)} |->
                IF k = CatalogKey(n) THEN e ELSE catalog[k]]

CreateTable(n, cols) ==
  /\ Asked("create", n)
  /\ Running
  /\ CatalogKey(n) \notin DOMAIN catalog
  /\ DistinctColumns(cols) /\ HasPrimaryKey(cols)
  /\ AddEntry(n, Entry(n, cols, SchemaTable(cols), KeyMdata(cols)))
  /\ Reply("CREATE TABLE")

CreateExists(n) ==
  /\ Asked("create", n)
  /\ Running
  /\ CatalogKey(n) \in DOMAIN catalog
  /\ Reply("Table Already Exist")
  /\ UNCHANGED catalog

(* The entry is in the catalog already when the primary key is missed; its *)
(* two trees stay NULL.                                                    *)
CreateWithoutKey(n, cols) ==
  /\ Asked("create", n)
  /\ Running
  /\ CatalogKey(n) \notin DOMAIN catalog
  /\ DistinctColumns(cols) /\ ~HasPrimaryKey(cols)
  /\ AddEntry(n, Entry(n, cols, NULL, <<>>))
  /\ Reply("Table Must have atleast one primary key")

(* assert (BPlusTree_Insert (schema_table, ...)) *)
CreateAborts(n, cols) ==
  /\ Asked("create", n)
  /\ Running
  /\ CatalogKey(n) \notin DOMAIN catalog
  /\ ~DistinctColumns(cols)
  /\ Abort

-----------------------------------------------------------------------------
(* insert into *)

\* A value in a field of a key or record: strncpy cuts a string off or fills up with zeros.
Field(value, size) == Chunk(value.bytes, 0, size)

Schema(e, i) == e.schema_table[e.col_list[i]]

\* A value that is missing has no type; values too many are not looked at.
Fits(e, values) ==
  \A i \in DOMAIN e.col_list :
    i <= Len(values) /\ values[i].dtype = Schema(e, i).dtype

(* Wrong FillKey: every column goes into the key. *)
KeyOfAll(e, values) ==
  FlattenSeq([i \in DOMAIN e.col_list |-> Field(values[i], Schema(e, i).dtype_size)])

(* The primary key's columns side by side, in the order of create table. *)
FillKey(e, values) ==
  FlattenSeq([i \in DOMAIN e.col_list |->
                IF Schema(e, i).is_primary_key THEN Field(values[i], Schema(e, i).dtype_size)
                ELSE <<>>])

Overlay(buffer, offset, bytes) ==
  [p \in DOMAIN buffer |->
     IF p - offset \in DOMAIN bytes THEN bytes[p - offset] ELSE buffer[p]]

RecSize(e) == Total([i \in DOMAIN e.col_list |-> Schema(e, i).dtype_size])

(* Wrong FillRecord: fields are placed as if all had the same size. *)
FillByIndex(e, values) ==
  LET rec[i \in 0..Len(e.col_list)] ==
        IF i = 0 THEN [p \in 1..RecSize(e) |-> 0]
        ELSE Overlay(rec[i - 1], (i - 1) * Schema(e, i).dtype_size,
                     Field(values[i], Schema(e, i).dtype_size))
  IN  rec[Len(e.col_list)]

FillRecord(e, values) ==
  LET rec[i \in 0..Len(e.col_list)] ==
        IF i = 0 THEN [p \in 1..RecSize(e) |-> 0]
        ELSE Overlay(rec[i - 1], Schema(e, i).offset,
                     Field(values[i], Schema(e, i).dtype_size))
  IN  rec[Len(e.col_list)]

Stored(e, key) == \E r \in e.rdbms_table : SameKey(r.key, key, e.key_mdata)

Into(n) == catalog[CatalogKey(n)]

Records == Cardinality(UNION {{<<k, r>> : r \in catalog[k].rdbms_table} : k \in DOMAIN catalog})

Found(n) == Running /\ CatalogKey(n) \in DOMAIN catalog

InsertNotFound(n) ==
  /\ Asked("insert", n)
  /\ Running
  /\ CatalogKey(n) \notin DOMAIN catalog
  /\ Reply("Table not found")
  /\ UNCHANGED catalog

\* The iteration over the schema table follows a NULL pointer.
InsertAborts(n) ==
  Asked("insert", n) /\ Found(n) /\ Into(n).schema_table = NULL /\ Abort

InsertMisMatch(n, values) ==
  /\ Asked("insert", n)
  /\ Found(n) /\ Into(n).schema_table # NULL
  /\ ~Fits(Into(n), values)
  /\ Reply("Data Type Mis-Match")
  /\ UNCHANGED catalog

InsertDuplicate(n, values) ==
  /\ Asked("insert", n)
  /\ Found(n) /\ Into(n).schema_table # NULL
  /\ Fits(Into(n), values)
  /\ Stored(Into(n), FillKey(Into(n), values))
  /\ Reply("duplicate key value violates unique constraint")
  /\ UNCHANGED catalog

InsertRow(n, values) ==
  /\ Asked("insert", n)
  /\ Found(n) /\ Into(n).schema_table # NULL
  /\ Records < MaxRecords
  /\ Fits(Into(n), values)
  /\ ~Stored(Into(n), FillKey(Into(n), values))
  /\ catalog' = [catalog EXCEPT ![CatalogKey(n)].rdbms_table =
                   @ \cup {[key |-> FillKey(Into(n), values),
                            rec |-> FillRecord(Into(n), values)]}]
  /\ Reply("INSERT 0 1")

-----------------------------------------------------------------------------
(* A select from a table without a schema table follows the NULL pointer   *)
(* as soon as it resolves a column; any other select changes nothing.      *)
SelectAborts(n) ==
  Asked("select", n) /\ Found(n) /\ Into(n).schema_table = NULL /\ Abort

(* sql_show_table_catalog formats every entry's key in a buffer that is    *)
(* made for a name: BPlusTree_key_format_fn_default's assert fails.        *)
CatalogKeySize == 4 + 64 + 4 + 32
SQL_TABLE_NAME_MAX_SIZE == 64

ShowTables ==
  /\ Asked("list", "none")
  /\ Running
  /\ catalog # NoEntries => CatalogKeySize <= SQL_TABLE_NAME_MAX_SIZE
  /\ Reply("List of relations")
  /\ UNCHANGED catalog

ShowAborts ==
  /\ Asked("list", "none")
  /\ Running
  /\ catalog # NoEntries /\ CatalogKeySize > SQL_TABLE_NAME_MAX_SIZE
  /\ Abort

\* The program is started again; it has kept nothing.
Start == proc = "aborted" /\ proc' = "running" /\ UNCHANGED <<catalog, statement, reply>>

Next ==
  \/ \E n \in Names :
       \/ \E cols \in Creates : \/ CreateTable(n, cols)
                                \/ CreateWithoutKey(n, cols)
                                \/ CreateAborts(n, cols)
       \/ CreateExists(n)
       \/ \E values \in Inserts : \/ InsertMisMatch(n, values)
                                  \/ InsertDuplicate(n, values)
                                  \/ InsertRow(n, values)
       \/ InsertNotFound(n)
       \/ InsertAborts(n)
       \/ SelectAborts(n)
  \/ ShowTables
  \/ ShowAborts
  \/ Start

Spec == Init /\ [][Next]_vars

-----------------------------------------------------------------------------
Made == {k \in DOMAIN catalog : catalog[k].schema_table # NULL}

\* What a query reads of a record: each column at its offset.
Row(e, r) ==
  [c \in DOMAIN e.schema_table |->
     Chunk(r.rec, e.schema_table[c].offset, e.schema_table[c].dtype_size)]

Rows(e) == {Row(e, r) : r \in e.rdbms_table}

KeyColumns(e) == {c \in DOMAIN e.schema_table : e.schema_table[c].is_primary_key}

(* Entries are under their own key; keys and records have the sizes that   *)
(* their table's schema gives them.                                        *)
TypeOK ==
  /\ proc \in {"running", "aborted"}
  /\ \A k \in DOMAIN catalog : CatalogKey(catalog[k].table_name) = k
  /\ \A k \in Made :
       LET e == catalog[k]
       IN  /\ Len(e.key_mdata) = Cardinality(KeyColumns(e))
           /\ Cardinality(DOMAIN e.schema_table) = Len(e.col_list)
           /\ \A r \in e.rdbms_table :
                /\ Len(r.rec) = RecSize(e)
                /\ Len(r.key) = Total([i \in DOMAIN e.key_mdata |-> e.key_mdata[i].size])

(* The key a record is stored under is made of the bytes that are in the   *)
(* record in the columns of its primary key.  The two are filled by        *)
(* different ways of counting: the key's offset runs along, the record's   *)
(* offsets are those that create table has computed.                       *)
KeysMatchRecords ==
  /\ TypeOK
  /\ \A k \in Made :
       LET e == catalog[k]
       IN  \A r \in e.rdbms_table :
             r.key = FlattenSeq([i \in DOMAIN e.col_list |->
                                   IF e.col_list[i] \in KeyColumns(e)
                                     THEN Row(e, r)[e.col_list[i]] ELSE <<>>])

(* No two rows of a table have the same primary key, however its columns   *)
(* are laid out and although they are not compared with their own types.   *)
PrimaryKeysUnique ==
  \A k \in Made :
    LET e == catalog[k]
    IN  \A r, s \in e.rdbms_table :
          (\A c \in KeyColumns(e) : Row(e, r)[c] = Row(e, s)[c]) => r = s

(* After INSERT 0 1 a query reads the values that were inserted.           *)
InsertReadsBack ==
  [][ reply' = "INSERT 0 1" =>
        \A n \in Names, values \in Inserts :
        InsertRow(n, values) =>
          LET e == Into(n)'
          IN  \E row \in Rows(e) :
                \A i \in DOMAIN e.col_list :
                  row[e.col_list[i]] = Field(values[i], Schema(e, i).dtype_size) ]_vars

Tables == [k \in DOMAIN catalog |-> [key |-> KeyColumns(catalog[k]), rows |-> Rows(catalog[k])]]

Relational == INSTANCE Relations WITH tables <- Tables, Named <- Names, Id <- Prefix

(* Every statement is a step of the relation it names, where names are the *)
(* same when their first twelve characters are: it adds to no other table, *)
(* it answers what it did, and it ends the program only where a create     *)
(* cannot go on, at a table that a failed create has left half made, or in *)
(* the list of tables.  Columns packed into bytes do not show.             *)
ImplementsRelations == Relational!RelSpec

-----------------------------------------------------------------------------
(* What messages and comments in the code say, and the code does not do. *)

(* "duplicate key value violates unique constraint": there is a row with   *)
(* the same primary key.                                                   *)
RefusedForSameKey ==
  [][ \A n \in Names, values \in Inserts :
        InsertDuplicate(n, values) =>
          \E r \in Into(n).rdbms_table : r.key = FillKey(Into(n), values) ]_vars

=============================================================================
