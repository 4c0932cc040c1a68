----------------------------- MODULE Statements -----------------------------
(***************************************************************************)
(* The statements: the grammars in the comments of SqlCreateParserCFG.c,   *)
(* SqlInsertIntoParserCFG.c and SqlSelectParserCFG.c, as far as the        *)
(* parsers are written, as sets of sequences of lexemes, and what each     *)
(* statement says.  Nothing is read or taken back here: it is the          *)
(* reference the parsers are compared with.                                *)
(***************************************************************************)
EXTENDS Integers, Sequences, SequencesExt, FiniteSets

TypeCodes == {"SQL_INT", "SQL_DOUBLE", "SQL_IPV4_ADDR"}
ValueCodes == {"SQL_INTEGER_VALUE", "SQL_DOUBLE_VALUE", "SQL_IPV4_ADDR_VALUE", "SQL_STRING_VALUE"}
OperandCodes == {"SQL_IDENTIFIER", "SQL_IDENTIFIER_IDENTIFIER", "SQL_INTEGER_VALUE",
                 "SQL_DOUBLE_VALUE", "SQL_STRING_VALUE"}
ComparisonCodes == {"SQL_EQ", "SQL_LESS_THAN", "SQL_GREATER_THAN", "SQL_NOT_EQ"}
AggregateCodes == {"SQL_SUM", "SQL_MIN", "SQL_MAX", "SQL_COUNT", "SQL_AVG"}
VarcharCodes == <<"SQL_STRING", "SQL_BRACKET_START", "SQL_INTEGER_VALUE", "SQL_BRACKET_END">>

Codes(s) == [k \in DOMAIN s |-> s[k].code]

\* Positions from `from' to `to' of s, and whether s starts or ends with some codes.
Part(s, from, to) == SubSeq(s, from, to)
StartsWith(s, codes) == IsPrefix(codes, Codes(s))
EndsWith(s, codes) == IsSuffix(codes, Codes(s))

(* What stands between commas.  Of s, Cut(s, i) is the i-th comma.         *)
Commas(s) == {k \in DOMAIN s : s[k].code = "SQL_COMMA"}
Cut(s, i) ==
  IF i = 0 THEN 0
  ELSE IF i > Cardinality(Commas(s)) THEN Len(s) + 1
  ELSE CHOOSE k \in Commas(s) : Cardinality({j \in Commas(s) : j <= k}) = i
Items(s) == [i \in 1 .. Cardinality(Commas(s)) + 1 |-> Part(s, Cut(s, i - 1) + 1, Cut(s, i) - 1)]

IsList(s, Item(_)) == \A i \in DOMAIN Items(s) : Item(Items(s)[i])

-----------------------------------------------------------------------------
(* create table IDENTIFIER ( COLSLIST )                                    *)

DTypeCodes == {VarcharCodes} \cup {<<c>> : c \in TypeCodes}

IsColumn(s) ==
  \E d \in DTypeCodes, p \in {<<>>, <<"SQL_PRIMARY_KEY">>} :
    Codes(s) = <<"SQL_IDENTIFIER">> \o d \o p

ColumnSaid(s) ==
  [col_name |-> s[1].val, dtype |-> s[2].code,
   dtype_len |-> IF s[2].code = "SQL_STRING" THEN s[4].val ELSE "size",
   is_primary_key |-> s[Len(s)].code = "SQL_PRIMARY_KEY"]

CreateHead == <<"SQL_CREATE_Q", "SQL_IDENTIFIER", "SQL_IDENTIFIER", "SQL_BRACKET_START">>
ListEnd == <<"SQL_BRACKET_END", "PARSER_EOL">>
InBrackets(s, head) == Part(s, Len(head) + 1, Len(s) - Len(ListEnd))

IsCreate(s) ==
  /\ StartsWith(s, CreateHead) /\ s[2].val = "table" /\ EndsWith(s, ListEnd)
  /\ IsList(InBrackets(s, CreateHead), IsColumn)

Columns(s) == LET items == Items(InBrackets(s, CreateHead))
              IN  [i \in DOMAIN items |-> ColumnSaid(items[i])]

-----------------------------------------------------------------------------
(* insert into IDENTIFIER values ( VALUES )                                *)

IsValue(s) == \E c \in ValueCodes : Codes(s) = <<c>>

InsertHead == <<"SQL_INSERT_Q", "SQL_IDENTIFIER", "SQL_IDENTIFIER", "SQL_BRACKET_START">>

IsInsert(s) ==
  /\ StartsWith(s, InsertHead) /\ s[3].val = "values" /\ EndsWith(s, ListEnd)
  /\ IsList(InBrackets(s, InsertHead), IsValue)

Values(s) == LET items == Items(InBrackets(s, InsertHead))
             IN  [i \in DOMAIN items |-> [dtype |-> items[i][1].code, u |-> items[i][1].val]]

-----------------------------------------------------------------------------
(* select COLLIST from TABS WHERE                                          *)

Named == {<<>>, <<"SQL_AS", "SQL_IDENTIFIER">>}

IsPlainColumn(s) == \E c \in OperandCodes, n \in Named : Codes(s) = <<c>> \o n

IsAggregate(s) ==
  \E f \in AggregateCodes, c \in OperandCodes, n \in Named :
    Codes(s) = <<f, "SQL_BRACKET_START", c, "SQL_BRACKET_END">> \o n

IsAsterisk(s) == Codes(s) = <<"SQL_MATH_MUL">>

\* Only the last item of the list may be the asterisk.
IsColumnList(s) ==
  \A i \in DOMAIN Items(s) :
    LET item == Items(s)[i]
    IN  \/ IsPlainColumn(item) \/ IsAggregate(item)
        \/ i = Len(Items(s)) /\ IsAsterisk(item)

IsWhere(s) ==
  \/ s = <<>>
  \/ \E l, r \in OperandCodes, c \in ComparisonCodes : Codes(s) = <<"SQL_WHERE", l, c, r>>

\* Where the parts of a select end.
FromAt(s) == CHOOSE k \in DOMAIN s : s[k].code = "SQL_FROM"
WhereAt(s) == IF \E k \in DOMAIN s : s[k].code = "SQL_WHERE"
                THEN CHOOSE k \in DOMAIN s : s[k].code = "SQL_WHERE" ELSE Len(s)

Has(s, code) == Cardinality({k \in DOMAIN s : s[k].code = code})

ColumnList(s) == Part(s, 2, FromAt(s) - 1)
TableList(s) == Part(s, FromAt(s) + 1, WhereAt(s) - 1)

IsSelect(s, tables) ==
  /\ StartsWith(s, <<"SQL_SELECT_Q">>) /\ EndsWith(s, <<"PARSER_EOL">>)
  /\ Has(s, "SQL_FROM") = 1 /\ Has(s, "SQL_WHERE") <= 1 /\ FromAt(s) < WhereAt(s)
  /\ IsColumnList(ColumnList(s))
  /\ IsList(TableList(s), LAMBDA t : (\E n \in Named : Codes(t) = <<"SQL_IDENTIFIER">> \o n)
                                     /\ t[1].val \in tables)
  /\ IsWhere(Part(s, WhereAt(s), Len(s) - 1))

AliasSaid(item) == IF EndsWith(item, <<"SQL_AS", "SQL_IDENTIFIER">>) THEN item[Len(item)].val ELSE ""

NoAggregate == "SQL_AGG_FN_NONE"
IsPlain(column) == column.agg_fn = NoAggregate

ColumnSaidBy(item) ==
  IF IsPlainColumn(item)
    THEN [agg_fn |-> NoAggregate, sql_tree |-> item[1].val, alias_name |-> AliasSaid(item)]
    ELSE [agg_fn |-> item[1].code, sql_tree |-> item[3].val, alias_name |-> AliasSaid(item)]

EndsWithAsterisk(s) == LET items == Items(ColumnList(s)) IN IsAsterisk(items[Len(items)])

\* Every column that is written out.
ColumnsSaid(s) ==
  LET items == Items(ColumnList(s))
      n == IF EndsWithAsterisk(s) THEN Len(items) - 1 ELSE Len(items)
  IN  [i \in 1 .. n |-> ColumnSaidBy(items[i])]

TablesSaid(s) == LET items == Items(TableList(s)) IN [i \in DOMAIN items |-> items[i][1].val]
AliasesSaid(s) == LET items == Items(TableList(s)) IN [i \in DOMAIN items |-> AliasSaid(items[i])]

WhereSaid(s) ==
  LET w == Part(s, WhereAt(s), Len(s) - 1)
  IN  IF w = <<>> THEN <<>> ELSE <<w[2].val, w[3].code, w[4].val>>

=============================================================================
