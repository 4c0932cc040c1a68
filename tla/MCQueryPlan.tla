----------------------------- MODULE MCQueryPlan ----------------------------
(***************************************************************************)
(* Bounds for TLC.  Three tables, at most two of them joined, with one     *)
(* column name (b) in two of them; a table that is found by two names; a   *)
(* table that is not joined and one that does not exist; an alias that is  *)
(* also the name of a column; aliases that lead to each other, to          *)
(* themselves and to names of columns.                                     *)
(***************************************************************************)
EXTENDS QueryPlan

MCSchemas == [customers_2023 |-> <<"a", "b">>, T2 |-> <<"b">>, T3 |-> <<"c">>]

MCTableNames == {"customers_2023", "customers_2024", "T2", "T3", "T9"}

MCPrefix ==
  [n \in MCTableNames |-> IF n \in {"customers_2023", "customers_2024"} THEN "customers_20" ELSE n]

MCTableLists ==
  {<<"customers_2023">>, <<"customers_2024">>, <<"customers_2023", "T2">>,
   <<"T2", "customers_2024">>, <<"customers_2023", "customers_2024">>}

Name(t, c) == <<t, c>>

MCNames == ({None} \cup MCTableNames) \X {None, "a", "b", "c", "x"}

MCWhereNames ==
  {Name(None, "a"), Name(None, "b"), Name(None, "x"), Name("customers_2023", "a"),
   Name("customers_2024", "a"), Name("T2", "b"), Name("T3", "c"), Name("T9", "a")}

\* Three operands, of tables that are joined and of one that is not.
MCLongNames == {Name("customers_2023", "a"), Name("T2", "b"), Name("T3", "c")}

MCWhereClauses ==
  {NULL} \cup UNION {[1 .. n -> MCWhereNames] : n \in 1 .. 2} 
    \cup {<<Name("customers_2023", "a")>> \o s : s \in [1 .. 2 -> MCLongNames]}

\* One operand, lone or in an expression, with or without an alias.
MCShortColumns ==
  {[tree |-> <<n>>, lone |-> l, alias |-> a] :
     n \in {Name(None, "a"), Name(None, "x"), Name("T2", "b")},
     l \in BOOLEAN,
     a \in {NoAlias, Name(None, "a"), Name(None, "x")}}

\* An expression over two columns.
MCSum == [tree |-> <<Name("customers_2024", "a"), Name(None, "b")>>, lone |-> FALSE, alias |-> Name(None, "x")]

MCLone == {c \in MCShortColumns : c.lone}

MCSelectLists ==
  {<<>>, <<MCSum>>} \cup {<<c>> : c \in MCShortColumns}
    \cup {<<c, d>> : c \in MCLone, d \in {e \in MCLone : e.alias = Name(None, "x")}}
    \cup {<<[MCSum EXCEPT !.alias = NoAlias], c>> : c \in MCLone}

=============================================================================
