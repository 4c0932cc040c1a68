----------------------------- MODULE QueryPlan ------------------------------
(***************************************************************************)
(* From a parsed select to one that can be executed (core/qep.c,           *)
(* core/sql_mexpr_intf.c): the asterisk is expanded, aliases are replaced  *)
(* in the where clause, and every operand is bound to a column of a table, *)
(* once in the where clause as a whole and once in a clone of it for each  *)
(* joined table, from which the operands of other tables are removed.      *)
(*                                                                         *)
(* Expression trees belong to an external library.  Of a tree only the     *)
(* operands are kept, in the library's order; an operand's name is a pair  *)
(* of a table's name, or none, and a column's.  The group by, having and   *)
(* order by parts of a plan are always empty: no parser fills them.        *)
(***************************************************************************)
EXTENDS Integers, Sequences, SequencesExt, FiniteSets, Relation

CONSTANTS
  Names,         \* what operands may be called
  Schemas,       \* Schemas[t]: the columns of table t of the catalog, in order
  Prefix,        \* Prefix[n]: the first twelve characters of a table's name n
  TableLists,    \* what may stand after "from"
  SelectLists,   \* what may stand after "select"; <<>> is the asterisk
  WhereClauses,  \* the operands of where clauses, and NULL
  NULL

None == ""
NoAlias == <<None, None>>

ColumnNames == UNION {Range(Schemas[n]) : n \in DOMAIN Schemas}

(* sql_catalog_table_lookup_by_table_name: the catalog has no two tables   *)
(* whose names have the same first twelve characters, and finds a table by *)
(* any name that begins like its own.                                      *)
SameName(t, n) == Prefix[t] = Prefix[n]
InCatalog(n) == \E t \in DOMAIN Schemas : SameName(t, n)
CatalogTable(n) == CHOOSE t \in DOMAIN Schemas : SameName(t, n)

ASSUME PlanAssumption ==
  /\ \A n \in DOMAIN Schemas : /\ Schemas[n] \in Seq(ColumnNames) \ {<<>>}
                               /\ IsInjective(Schemas[n])
  /\ \A t, u \in DOMAIN Schemas : SameName(t, u) => t = u
  /\ None \notin DOMAIN Schemas
  /\ ({None} \cup DOMAIN Schemas) \X ColumnNames \subseteq Names
  /\ TableLists \subseteq Seq({n \in DOMAIN Prefix : InCatalog(n)}) \ {<<>>}
  /\ SelectLists \subseteq Seq([tree : Seq(Names), lone : BOOLEAN, alias : Names \cup {NoAlias}])
  /\ \A list \in SelectLists : \A k \in DOMAIN list : list[k].lone => Len(list[k].tree) = 1
  /\ WhereClauses \ {NULL} \subseteq Seq(Names)

VARIABLES
  tables,      \* qep->join.tables: which tables of the catalog
  cols,        \* qep->select.sel_colmns
  where,       \* the operands of qep->where.gexptree
  per_table,   \* of those in qep->where.exptree_per_table, as far as they exist
  pc,          \* what sql_query_init_execution_plan does next
  resolved     \* how many columns of the select list are

vars == <<tables, cols, where, per_table, pc, resolved>>

Operand(name) == [name |-> name, src |-> NULL]
Tree(names) == [k \in DOMAIN names |-> Operand(names[k])]

\* qp_col_t, as COL leaves it.  An operand is lone if it is the whole tree.
ParsedColumn(c) ==
  [tree |-> Tree(c.tree), lone |-> c.lone,
   alias_name |-> c.alias, alias_provided_by_user |-> c.alias # NoAlias]

Init ==
  /\ \E list \in TableLists : tables = [i \in DOMAIN list |-> CatalogTable(list[i])]
  /\ \E list \in SelectLists : cols = [k \in DOMAIN list |-> ParsedColumn(list[k])]
  /\ \E clause \in WhereClauses : where = IF clause = NULL THEN NULL ELSE Tree(clause)
  /\ per_table = <<>>
  /\ pc = "asterisk"
  /\ resolved = 0

HasWhere == where # NULL

-----------------------------------------------------------------------------
(* qep_resolve_select_asterisk.  In a join the names are qualified.        *)

ColumnName(t, c) == IF Len(tables) > 1 THEN <<t, c>> ELSE <<None, c>>

ColumnsOf(t) ==
  [k \in DOMAIN Schemas[t] |->
     LET name == ColumnName(t, Schemas[t][k])
     IN  [tree |-> Tree(<<name>>), lone |-> TRUE,
          alias_name |-> name, alias_provided_by_user |-> FALSE]]

ResolveAsterisk ==
  /\ pc = "asterisk"
  /\ cols' = IF cols # <<>> THEN cols
             ELSE FlattenSeq([i \in DOMAIN tables |-> ColumnsOf(tables[i])])
  /\ pc' = IF HasWhere THEN "alias" ELSE "select"
  /\ UNCHANGED <<tables, where, per_table, resolved>>

-----------------------------------------------------------------------------
(* The first part of sql_query_initialize_where_clause: while there is an  *)
(* operand that is the alias of a column, the column's operands take the   *)
(* first such operand's place.  They are looked at in the next turn, too.  *)

(* Wrong IsAliasOf: given by the user or not. *)
IsAnyAlias(opnd, col) == opnd.name = col.alias_name

IsAliasOf(opnd, col) == col.alias_provided_by_user /\ opnd.name = col.alias_name

Aliases(opnd) == {j \in DOMAIN cols : IsAliasOf(opnd, cols[j])}
Least(S) == CHOOSE x \in S : \A y \in S : x <= y

Aliased == {k \in DOMAIN where : Aliases(where[k]) # {}}

ReplaceAlias ==
  /\ pc = "alias" /\ Aliased # {}
  /\ LET k == Least(Aliased)
         j == Least(Aliases(where[k]))
     IN  where' = SubSeq(where, 1, k - 1) \o cols[j].tree \o SubSeq(where, k + 1, Len(where))
  /\ UNCHANGED <<tables, cols, per_table, pc, resolved>>

(* mexpt_concatenate_mexpt_trees, of the external library, may refuse. *)
ReplaceAliasFails ==
  /\ pc = "alias" /\ Aliased # {}
  /\ pc' = "failed"
  /\ UNCHANGED <<tables, cols, where, per_table, resolved>>

AliasesReplaced ==
  /\ pc = "alias" /\ Aliased = {}
  /\ pc' = "per_table"
  /\ UNCHANGED <<tables, cols, where, per_table, resolved>>

-----------------------------------------------------------------------------
Source(i, t, c) == [table_index |-> i, table |-> t, column |-> c]

HasColumn(t, c) == c \in Range(Schemas[t])

(* Wrong Concerns: a name without a table concerns every table. *)
ConcernsAny(opnd, i) == opnd.name[1] \in {None, tables[i]} /\ HasColumn(tables[i], opnd.name[2])

\* Here names are compared in full, with the one that the table was created by.
NamesInFull(opnd, i) == IF opnd.name[1] = None THEN i = 1 ELSE opnd.name[1] = tables[i]

(* sql_resolve_exptree_against_table.  An operand that does not concern    *)
(* the table, or that it has no column for, stays unresolved and is removed.*)
Concerns(opnd, i) == NamesInFull(opnd, i) /\ HasColumn(tables[i], opnd.name[2])

ResolveAgainstTable(tree, i) ==
  LET left[k \in 0 .. Len(tree)] ==
        IF k = 0 THEN <<>>
        ELSE IF Concerns(tree[k], i)
          THEN Append(left[k - 1],
                      [tree[k] EXCEPT !.src = Source(i, tables[i], tree[k].name[2])])
        ELSE left[k - 1]
  IN  left[Len(tree)]

ResolvePerTable ==
  /\ pc = "per_table"
  /\ per_table' = Append(per_table, ResolveAgainstTable(where, Len(per_table) + 1))
  /\ pc' = IF Len(per_table') = Len(tables) THEN "global" ELSE pc
  /\ UNCHANGED <<tables, cols, where, resolved>>

(* The clone itself may fail. *)
ResolvePerTableFails ==
  /\ pc = "per_table"
  /\ pc' = "failed"
  /\ UNCHANGED <<tables, cols, where, per_table, resolved>>

-----------------------------------------------------------------------------
(* sql_resolve_exptree goes through the operands with three variables that *)
(* outlive a turn of its loop: tindex, schema_rec (here with the table     *)
(* whose column it is) and whether an error has ended it, after which the  *)
(* operands stay as they are.  The table is the one that the catalog finds *)
(* by the name; if it is not among the joined ones, tindex and schema_rec  *)
(* stay as they were.                                                      *)

Joined(t) == t = None \/ (InCatalog(t) /\ CatalogTable(t) \in Range(tables))

Place(t) == IF t = None THEN 1 ELSE Least({i \in DOMAIN tables : tables[i] = CatalogTable(t)})

(* Wrong Lookup: the record of the operand before is not overwritten. *)
LookupKeeps(st, t, c) ==
  IF Joined(t) /\ st.schema_rec = NULL
    THEN LET i == Place(t)
         IN  [st EXCEPT !.tindex = i,
                        !.schema_rec = IF HasColumn(tables[i], c) THEN <<tables[i], c>> ELSE NULL]
    ELSE st

Lookup(st, t, c) ==
  IF Joined(t)
    THEN LET i == Place(t)
         IN  [st EXCEPT !.tindex = i,
                        !.schema_rec = IF HasColumn(tables[i], c) THEN <<tables[i], c>> ELSE NULL]
    ELSE st

ResolveOperand(st, opnd) ==
  LET t  == opnd.name[1]
      lk == Lookup(st, t, opnd.name[2])
  IN  IF st.failed \/ (t # None /\ ~InCatalog(t)) \/ lk.schema_rec = NULL
        THEN [st EXCEPT !.failed = TRUE, !.tree = Append(@, opnd)]
      ELSE [lk EXCEPT !.tree = Append(@, [opnd EXCEPT !.src =
                                 Source(lk.tindex, lk.schema_rec[1], lk.schema_rec[2])])]

ResolveExptree(tree) ==
  LET st[k \in 0 .. Len(tree)] ==
        IF k = 0 THEN [tindex |-> 1, schema_rec |-> NULL, failed |-> FALSE, tree |-> <<>>]
        ELSE ResolveOperand(st[k - 1], tree[k])
  IN  st[Len(tree)]

ResolveWhere ==
  /\ pc = "global"
  /\ LET r == ResolveExptree(where)
     IN  /\ where' = r.tree
         /\ pc' = IF r.failed THEN "failed" ELSE "select"
  /\ UNCHANGED <<tables, cols, per_table, resolved>>

(* sql_query_initialize_select_clause: a column that is one operand and    *)
(* has no alias gets its name, then the columns are resolved one by one.   *)
AliasFixed(col) ==
  IF col.lone /\ col.alias_name = NoAlias
    THEN [col EXCEPT !.alias_name = col.tree[1].name] ELSE col

ResolveColumn ==
  /\ pc = "select" /\ resolved < Len(cols)
  /\ LET named == IF resolved = 0 THEN [j \in DOMAIN cols |-> AliasFixed(cols[j])] ELSE cols
         r == ResolveExptree(named[resolved + 1].tree)
     IN  /\ cols' = [named EXCEPT ![resolved + 1].tree = r.tree]
         /\ IF r.failed THEN pc' = "failed" /\ UNCHANGED resolved
            ELSE resolved' = resolved + 1 /\ UNCHANGED pc
  /\ UNCHANGED <<tables, where, per_table>>

(* table_iterators_init and the row template; the join can start. *)
PlanInitialised ==
  /\ pc = "select" /\ resolved = Len(cols)
  /\ pc' = "ready"
  /\ UNCHANGED <<tables, cols, where, per_table, resolved>>

(* qep_deinit, after the execution and after an error, destroys the trees. *)
(* The clones for the tables are not among them; parsing the next select   *)
(* clears the whole plan and so forgets them.                              *)
Deinit ==
  /\ pc \in {"ready", "failed"}
  /\ pc' = "done"
  /\ cols' = <<>> /\ where' = NULL /\ resolved' = 0
  /\ UNCHANGED <<tables, per_table>>

Steps ==
  \/ ResolveAsterisk \/ ReplaceAlias \/ AliasesReplaced \/ ResolvePerTable
  \/ ResolveWhere \/ ResolveColumn \/ PlanInitialised \/ Deinit

Next == Steps \/ ReplaceAliasFails \/ ResolvePerTableFails

(* One thread that never waits.  The library need not fail. *)
Spec == Init /\ [][Next]_vars /\ WF_vars(Steps)

-----------------------------------------------------------------------------
Ready == pc = "ready"

Operands(tree) == Range(tree)
AllOperands == (IF HasWhere THEN Operands(where) ELSE {})
                 \cup UNION {Operands(cols[j].tree) : j \in DOMAIN cols}

(* Trees consist of operands; what has been resolved is bound, and a bound *)
(* operand is bound to a column of the table at its index.                 *)
TypeOK ==
  /\ pc \in {"asterisk", "alias", "per_table", "global", "select", "ready", "failed", "done"}
  /\ resolved \in 0 .. Len(cols) /\ Len(per_table) <= Len(tables)
  /\ \A opnd \in AllOperands \cup UNION {Operands(per_table[i]) : i \in DOMAIN per_table} :
       opnd.src # NULL =>
         /\ opnd.src.table_index \in DOMAIN tables
         /\ opnd.src.table = tables[opnd.src.table_index]
         /\ HasColumn(opnd.src.table, opnd.src.column)

\* What a name stands for in this query, if its table is joined.
Meaning(name) == Source(Place(name[1]), tables[Place(name[1])], name[2])

Latest(S) == CHOOSE x \in S : \A y \in S : y <= x

\* The operand that sets what operand k of a tree is bound to.
SetBy(tree, k) == Latest({j \in 1 .. k : Joined(tree[j].name[1])})

ResolvedTrees == (IF HasWhere THEN {where} ELSE {}) \cup {cols[j].tree : j \in DOMAIN cols}

(* When rows are evaluated, an operand whose table is joined is bound to   *)
(* the column it names there, whatever came before it.  The name of any    *)
(* other table of the catalog has no say: such an operand shows the column *)
(* of the last operand before it whose table is joined, and a tree that    *)
(* begins with one, or names a table that is not there, is refused.        *)
BoundAsNamed ==
  /\ TypeOK
  /\ Ready => \A tree \in ResolvedTrees : \A k \in DOMAIN tree :
       /\ tree[k].name[1] = None \/ InCatalog(tree[k].name[1])
       /\ \E j \in 1 .. k : Joined(tree[j].name[1])
       /\ tree[k].src = Meaning(tree[SetBy(tree, k)].name)

\* An operand of the clause, held against the rows of the table at i.
HeldAgainst(opnd, i) == [opnd EXCEPT !.src.table_index = i]

\* The operands of the clause that the clone for the table at i should have.
Expected(tree, i) ==
  LET mine[k \in 0 .. Len(tree)] ==
        IF k = 0 THEN <<>>
        ELSE IF NamesInFull(tree[k], i) THEN Append(mine[k - 1], HeldAgainst(tree[k], i))
        ELSE mine[k - 1]
  IN  mine[Len(tree)]

(* The clones are resolved by another function, before the clause is.      *)
(* Still the clone for a table has just the operands of the clause that    *)
(* name this table in full, or no table if it is the first, each bound to  *)
(* the column of the table that it is bound to in the clause.  So no row   *)
(* is held against a column that the clause does not look at, but the two  *)
(* differ in two ways: an operand that the clause finds by the first       *)
(* twelve characters only is in no clone, and the operands of a table that *)
(* is joined twice are held against both of its rows, while the clause     *)
(* looks at the first.                                                     *)
PerTableAgrees ==
  Ready /\ HasWhere => \A i \in DOMAIN tables : per_table[i] = Expected(where, i)

AliasNames == {cols[j].alias_name : j \in DOMAIN cols}

\* An alias, and one that the column with that alias is made of.
Leads ==
  {p \in AliasNames \X AliasNames :
     \E j \in DOMAIN cols :
       /\ Aliases(Operand(p[1])) # {} /\ j = Least(Aliases(Operand(p[1])))
       /\ \E opnd \in Operands(cols[j].tree) : opnd.name = p[2] /\ Aliases(opnd) # {}}

NoAliasLoop ==
  LET names == AliasNames
      reach == TransitiveClosure([p \in names \X names |-> p \in Leads], names)
  IN  \A x \in names :
        ~(reach[x, x] /\ HasWhere /\ \E opnd \in Operands(where) :
            Aliases(opnd) # {} /\ (opnd.name = x \/ reach[opnd.name, x]))

(* Unless aliases are defined in terms of each other, every plan is        *)
(* finished or refused, and taken down.                                    *)
PlanEnds == NoAliasLoop => <>(pc = "done")

=============================================================================
