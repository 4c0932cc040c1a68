------------------------------ MODULE Parsers -------------------------------
(***************************************************************************)
(* The command loop (SqlParserMain.c) and the three recursive-descent      *)
(* parsers (Sql*ParserCFG.c).  Each nonterminal is an operator with its    *)
(* function's name, from the parser's state to the parser's state; rc says *)
(* how it has ended, and `wild' that it has written behind an array.       *)
(*                                                                         *)
(* Expressions are read by an external library: here an arithmetic one is  *)
(* one operand, and a logical one compares two.  Each statement's parser   *)
(* clears the structure it fills before it starts, and nobody looks at     *)
(* what an earlier statement has left, so one field, data, is enough for   *)
(* the three.                                                              *)
(***************************************************************************)
EXTENDS RecursiveDescent, Statements

CONSTANTS
  Lines,       \* what may be typed: sequences of lexemes that end with an EOL
  Tables,      \* the names in the catalog
  MaxTables,   \* SQL_MAX_TABLES_IN_JOIN_LIST
  MaxColumns,  \* SQL_MAX_COLUMNS_SUPPORTED_PER_TABLE
  MaxSelected, \* SQL_MAX_COLS_IN_SELECT_LIST
  MaxString    \* SQL_OPERAND_MAX_VALUE

ASSUME ParserAssumption ==
  /\ \A line \in Lines : line # <<>> /\ line[Len(line)].code \in {"PARSER_EOL", "SHOW_DB_TABLES"}
  /\ {MaxTables, MaxColumns, MaxSelected, MaxString} \subseteq Nat \ {0}

VARIABLES
  st,       \* the state of the scanner and of the parser
  outcome   \* of the statement: "none" at the prompt, "read" before it is parsed

vars == <<lex_buffer, st, outcome>>

NoToken == Lexeme("none", "", 0)
NoData == [kind |-> "none"]
Start == ScannerAtStart @@ [tok |-> NoToken, rc |-> "PARSE_SUCCESS", wild |-> FALSE,
                            got |-> <<>>, data |-> NoData]

Init ==
  /\ lex_buffer = <<>>
  /\ st = Start
  /\ outcome = "none"

-----------------------------------------------------------------------------
\* A write to element n, counted from 0, of an array of max.
Written(s, n, max) == [s EXCEPT !.wild = @ \/ n >= max]

-----------------------------------------------------------------------------
(* SqlCreateParserCFG.c *)

WithType(s, dtype, len) ==
  [s EXCEPT !.data.column.dtype = dtype, !.data.column.dtype_len = len]

\* yyrewind counts the tokens, the stack has an entry for every blank, too.
OtherType(v) ==
  Then(Token(yyrewind(v, Len(v.got) + 1), TypeCodes), LAMBDA t : WithType(t, t.tok.code, "size"))

VarcharOrOther(v) == IF Failed(v) THEN OtherType(v) ELSE WithType(v, "SQL_STRING", v.got[3].val)

DTYPE(s) == Ended(VarcharOrOther(Expect(s, VarcharCodes)), Checkpoint(s))

NoColumn == [col_name |-> "", dtype |-> "", dtype_len |-> "", is_primary_key |-> FALSE]

(* Wrong PrimaryKey: the token that is no "primary key" stays read. *)
PrimaryKeyKeepsToken(k) == [k EXCEPT !.data.column.is_primary_key = Is(k, "SQL_PRIMARY_KEY")]

PrimaryKey(k) ==
  IF Is(k, "SQL_PRIMARY_KEY") THEN [k EXCEPT !.data.column.is_primary_key = TRUE] ELSE yyrewind(k, 1)

\* Of the columns of cdata, cols are those before n_cols, and column is the one at n_cols.
ColumnType(t) ==
  DTYPE(Written([t EXCEPT !.data.column.col_name = t.tok.val], Len(t.data.cols), MaxColumns))

CreateCOL(s) ==
  LET d == Then(Token(s, {"SQL_IDENTIFIER"}), ColumnType)
      k == Then(d, LAMBDA t : PrimaryKey(cyylex(t)))
  IN  Ended(k, Checkpoint(s))

EnterColumn(c) == [c EXCEPT !.data.cols = Append(@, c.data.column), !.data.column = NoColumn]

RECURSIVE COLSLIST(_)
COLSLIST(s) ==
  Ended(Then(CreateCOL(s), LAMBDA c : More(cyylex(EnterColumn(c)), "SQL_COMMA", COLSLIST)), Checkpoint(s))

create_query_parser(s) ==
  LET cdata == [kind |-> "create", table_name |-> "", cols |-> <<>>, column |-> NoColumn]
      k == cyylex(Expect([s EXCEPT !.data = cdata], <<"SQL_CREATE_Q">>))
      i == Then(Demand(k, k.tok.val = "table"),
                LAMBDA t : Expect(t, <<"SQL_IDENTIFIER", "SQL_BRACKET_START">>))
      c == Then(i, LAMBDA t : COLSLIST([t EXCEPT !.data.table_name = t.got[1].val]))
      e == Then(c, LAMBDA t : Expect(t, ListEnd))
  IN  Ended(e, Checkpoint(s))

-----------------------------------------------------------------------------
(* SqlInsertIntoParserCFG.c *)

\* Without its quotes, a string has to be shorter than its array.
TooLong(x) == x.code = "SQL_STRING_VALUE" /\ x.len - 2 >= MaxString

\* The type is entered first.
EnterValue(t) ==
  LET v == Written([t EXCEPT !.data.sql_values = Append(@, [dtype |-> t.tok.code, u |-> t.tok.val])],
                   Len(t.data.sql_values), MaxColumns)
  IN  Demand(v, ~TooLong(t.tok))

VALUE(s) == Ended(Then(Token(s, ValueCodes), EnterValue), Checkpoint(s))

RECURSIVE VALUES(_)
VALUES(s) == Ended(Then(VALUE(s), LAMBDA v : More(cyylex(v), "SQL_COMMA", VALUES)), Checkpoint(s))

insert_into_query_parser(s) ==
  LET n == Expect([s EXCEPT !.data = [kind |-> "insert", table_name |-> "", sql_values |-> <<>>]],
                  <<"SQL_INSERT_Q", "SQL_IDENTIFIER", "SQL_IDENTIFIER">>)
      b == Then(n, LAMBDA t : Demand([t EXCEPT !.data.table_name = t.got[2].val],
                                     t.tok.val = "values"))
      v == Then(Then(b, LAMBDA t : Token(t, {"SQL_BRACKET_START"})), VALUES)
      e == Then(v, LAMBDA t : Expect(t, ListEnd))
  IN  Ended(e, Checkpoint(s))

-----------------------------------------------------------------------------
(* SqlSelectParserCFG.c, and what it takes from the expression library:    *)
(* an expression that cannot be read is put back.                          *)

sql_create_exp_tree_compute(s) ==
  Ended(Then(Token(s, OperandCodes), LAMBDA t : [t EXCEPT !.data.sql_tree = t.tok.val]), Checkpoint(s))

sql_create_exp_tree_conditional(s) ==
  LET l == sql_create_exp_tree_compute(s)
      c == Then(l, LAMBDA t : Token(t, ComparisonCodes))
      r == Then(c, sql_create_exp_tree_compute)
      tree == <<l.data.sql_tree, c.tok.code, r.data.sql_tree>>
  IN  Ended(Then(r, LAMBDA t : [t EXCEPT !.data.sql_tree = tree]), Checkpoint(s))

WhereClause(t) ==
  IF Is(t, "SQL_WHERE")
    THEN Then(sql_create_exp_tree_conditional(t),
              LAMBDA e : [e EXCEPT !.data.where = e.data.sql_tree])
    ELSE yyrewind(t, 1)

WHERE(s) == Ended(WhereClause(cyylex(s)), Checkpoint(s))

WithAlias(s, name) == [s EXCEPT !.data.alias_name = name]

(* Wrong AliasName: after an "as" without a name, what was read stays read. *)
AliasNameKeepsAs(i) == WithAlias(i, IF Is(i, "SQL_IDENTIFIER") THEN i.tok.val ELSE "")

(* Two tokens are more than two entries if a blank is between them.        *)
AliasName(i) ==
  IF Is(i, "SQL_IDENTIFIER") THEN WithAlias(i, i.tok.val) ELSE WithAlias(yyrewind(i, 2), "")

Alias(t) == IF Is(t, "SQL_AS") THEN AliasName(cyylex(t)) ELSE WithAlias(yyrewind(t, 1), "")

L(s) == Alias(cyylex(s))

(* qep_struct_record_table has counted the table when its alias is stored: *)
(* the alias of table n is in element n + 1.  Behind the last element, the *)
(* end of an empty name falls into a pointer that is NULL, without effect. *)
Table(t) == L(Written([t EXCEPT !.data.tables = Append(@, t.tok.val)], Len(t.data.tables), MaxTables))
StoreAlias(l) ==
  LET n == Len(l.data.tables)
      name == l.data.alias_name
  IN  Written([l EXCEPT !.data.aliases = [k \in DOMAIN @ |-> IF k = n + 1 THEN name ELSE @[k]]],
              IF name = "" THEN 0 ELSE n, MaxTables)

RECURSIVE TABS(_)
TABS(s) ==
  LET t == Then(Token(s, {"SQL_IDENTIFIER"}), LAMBDA u : Demand(u, u.tok.val \in Tables))
      l == Then(t, Table)
  IN  Ended(Then(l, LAMBDA u : More(cyylex(StoreAlias(u)), "SQL_COMMA", TABS)), Checkpoint(s))

(* built has all columns, as COL leaves them: qp_col.  That of an aggregate *)
(* is not entered in sel_colmns.                                           *)
Column(l, agg_fn) ==
  [agg_fn |-> agg_fn, sql_tree |-> l.data.sql_tree, alias_name |-> l.data.alias_name]

Build(l, agg_fn) == [l EXCEPT !.data.built = Append(@, Column(l, agg_fn))]

AggregateCOL(s) ==
  LET f == Token(s, AggregateCodes)
      b == Then(f, LAMBDA t : Token(t, {"SQL_BRACKET_START"}))
      m == Then(b, sql_create_exp_tree_compute)
      e == Then(m, LAMBDA t : Token(t, {"SQL_BRACKET_END"}))
  IN  Ended(Then(e, LAMBDA t : Build(L(t), f.tok.code)), Checkpoint(s))

SelectColumn(l) ==
  Written([Build(l, NoAggregate) EXCEPT !.data.sel_colmns = Append(@, Column(l, NoAggregate))],
          Len(l.data.sel_colmns), MaxSelected)

ColumnOrAggregate(m) == IF Failed(m) THEN AggregateCOL(m) ELSE SelectColumn(L(m))

SelectCOL(s) == ColumnOrAggregate(sql_create_exp_tree_compute(s))

RECURSIVE COLLIST(_)
COLLIST(s) ==
  LET m == cyylex(s)
      c == Then(SelectCOL(yyrewind(m, 1)), LAMBDA u : More(cyylex(u), "SQL_COMMA", COLLIST))
  IN  IF Is(m, "SQL_MATH_MUL") THEN Success([m EXCEPT !.data.sel_colmns = <<>>])
      ELSE Ended(c, Checkpoint(s))

NoPlan == [kind |-> "select", built |-> <<>>, sel_colmns |-> <<>>, tables |-> <<>>,
           aliases |-> [k \in 1 .. MaxTables |-> ""], where |-> <<>>,
           sql_tree |-> "", alias_name |-> ""]

select_query_parser(s) ==
  LET c == COLLIST(Expect([s EXCEPT !.data = NoPlan], <<"SQL_SELECT_Q">>))
      f == Then(c, LAMBDA t : Token(t, {"SQL_FROM"}))
      w == Then(Then(f, TABS), WHERE)
      e == Then(w, LAMBDA t : Token(t, {"PARSER_EOL"}))
  IN  Ended(e, Checkpoint(s))

-----------------------------------------------------------------------------
(* main.  The parsers assert that they find the keyword main has found.    *)

ReadLine ==
  /\ outcome = "none"
  /\ \E line \in Lines :
       /\ lex_buffer' = Buffer(line)
       /\ outcome' = IF line[1].code = "PARSER_EOL" THEN "empty" ELSE "read"
  /\ UNCHANGED st

First == cyylex(st)
Statement == yyrewind(First, 1)
KeywordLost == cyylex(Statement).tok.code # First.tok.code

OutcomeOf(s) ==
  IF s.wild THEN "wild" ELSE IF Failed(s) THEN "refused" ELSE "accepted"

Parse(keyword, parser(_)) ==
  /\ outcome = "read" /\ Is(First, keyword)
  /\ IF KeywordLost THEN st' = Statement /\ outcome' = "aborted"
     ELSE st' = parser(Statement) /\ outcome' = OutcomeOf(st')
  /\ UNCHANGED lex_buffer

ParseSelect == Parse("SQL_SELECT_Q", select_query_parser)
ParseCreate == Parse("SQL_CREATE_Q", create_query_parser)
ParseInsert == Parse("SQL_INSERT_Q", insert_into_query_parser)

(* Listing the tables needs no parser; everything else is an error, even   *)
(* the command to quit.                                                    *)
NoStatement ==
  /\ outcome = "read"
  /\ First.tok.code \notin {"SQL_SELECT_Q", "SQL_CREATE_Q", "SQL_INSERT_Q"}
  /\ st' = First
  /\ outcome' = IF Is(First, "SHOW_DB_TABLES") THEN "show" ELSE "unrecognized"
  /\ UNCHANGED lex_buffer

(* What was accepted is executed, and the scanner is set back; flex gets   *)
(* the next line from its start.                                           *)
NextPrompt ==
  /\ outcome \in {"accepted", "refused", "show", "unrecognized"}
  /\ st' = [Parser_stack_reset(st) EXCEPT !.pos = 0, !.tok = NoToken, !.data = NoData,
              !.got = <<>>, !.rc = "PARSE_SUCCESS"]
  /\ lex_buffer' = <<>>
  /\ outcome' = "none"

\* A line with nothing in it is not even scanned.
EmptyLine ==
  /\ outcome = "empty"
  /\ lex_buffer' = <<>> /\ outcome' = "none"
  /\ UNCHANGED st

\* After an assert or a write behind an array nothing is said of the program.
Next == ReadLine \/ ParseSelect \/ ParseCreate \/ ParseInsert \/ NoStatement \/ NextPrompt \/ EmptyLine

Spec == Init /\ [][Next]_vars

-----------------------------------------------------------------------------
Tokens(line) == SelectSeq(line, LAMBDA x : x.code \notin {"PARSER_WHITE_SPACE", "none"})

\* Tabs are counted as four characters, others that begin no token as none.
Tabbed == \E k \in DOMAIN Typed : Typed[k].val = "\t"
HasOther == \E k \in DOMAIN Typed : Typed[k].code = "none"

\* The blanks before the first token.
Leading == {k \in DOMAIN Typed : \A j \in 1 .. k : Typed[j].code = "PARSER_WHITE_SPACE"}

(* While a line without such characters is parsed, flex, curr_ptr and the  *)
(* undo stack do not drift apart, whatever was taken back on the way, and  *)
(* a statement that is refused is put back to its first character.         *)
ScannerInStep ==
  /\ st.ptr = Length(st.stack)
  /\ ~Tabbed /\ ~HasOther => st.pos = st.ptr /\ st.pos <= Len(lex_buffer)
  /\ outcome = "accepted" /\ ~Tabbed /\ ~HasOther => st.pos = Len(lex_buffer)
  /\ outcome = "refused" /\ ~Tabbed /\ ~HasOther => st.pos = Cardinality(Leading)
  /\ outcome = "none" => st = Start

\* How many values are read: a string that is too long is the last one.
ValuesRead(s) ==
  LET items == Items(InBrackets(s, InsertHead))
      long  == {i \in DOMAIN items : TooLong(items[i][1])}
  IN  IF long = {} THEN Len(items) ELSE CHOOSE i \in long : \A j \in long : i <= j

HasLongString(s) == IsInsert(s) /\ \E k \in DOMAIN s : TooLong(s[k])

\* The sizes of the arrays suffice.
Fits(s) ==
  /\ IsCreate(s) => Len(Columns(s)) <= MaxColumns
  /\ IsInsert(s) => ValuesRead(s) <= MaxColumns
  /\ IsSelect(s, Tables) =>
       LET n == Len(TablesSaid(s))
       IN  /\ n <= MaxTables
           /\ AliasesSaid(s)[n] # "" => n < MaxTables
           /\ Len(SelectSeq(ColumnsSaid(s), IsPlain)) <= MaxSelected

IsStatement(s) == IsCreate(s) \/ IsInsert(s) \/ IsSelect(s, Tables)

(* Two parts of a select do not get where the grammar's comments have them.*)
(* An aggregate is read and then left out of the select list: a list of    *)
(* nothing else is the same as the asterisk.  The alias of a table is      *)
(* entered with the table behind it.                                       *)
SelectListOf(s) == IF EndsWithAsterisk(s) THEN <<>> ELSE SelectSeq(ColumnsSaid(s), IsPlain)
AliasesOf(s) ==
  [k \in 1 .. MaxTables |-> IF k - 1 \in DOMAIN AliasesSaid(s) THEN AliasesSaid(s)[k - 1] ELSE ""]

(* The data are what the statement says.  Every column of a select has     *)
(* been read as it is meant, aggregates too.                               *)
DataOf(s) ==
  CASE IsCreate(s) ->
         st.data = [kind |-> "create", table_name |-> s[3].val, cols |-> Columns(s),
                    column |-> NoColumn]
    [] IsInsert(s) ->
         /\ st.data.kind = "insert" /\ st.data.table_name = s[2].val
         /\ st.data.sql_values = Values(s)
    [] OTHER ->
         /\ st.data.kind = "select" /\ st.data.built = ColumnsSaid(s)
         /\ st.data.tables = TablesSaid(s) /\ st.data.where = WhereSaid(s)
         /\ st.data.sel_colmns = SelectListOf(s) /\ st.data.aliases = AliasesOf(s)

Parsed == outcome \in {"accepted", "refused", "aborted", "wild"} /\ ~Tabbed /\ ~HasOther

(* Every statement of the grammars is accepted, however it is spaced, and  *)
(* read as it is meant, but for the two parts of a select that are entered *)
(* elsewhere: whatever the parsers try first and take back leaves no trace.*)
(* An insert with a string that is too long is refused.  A statement with  *)
(* more than the arrays have elements for is written behind them, where    *)
(* nothing stops it.                                                       *)
StatementsAccepted ==
  Parsed /\ IsStatement(Tokens(Typed)) =>
    CASE ~Fits(Tokens(Typed)) -> outcome = "wild"
      [] Fits(Tokens(Typed)) /\ HasLongString(Tokens(Typed)) -> outcome = "refused"
      [] OTHER -> outcome = "accepted" /\ DataOf(Tokens(Typed))

(* Two things the parsers fail to put back when blanks are between their   *)
(* tokens: an "as" before something that is no name, and the beginning of  *)
(* a varchar, j tokens long, j blanks before another type.                 *)
Forgiven(line) ==
  LET at == SelectSeq([k \in DOMAIN line |-> k], LAMBDA k : line[k].code # "PARSER_WHITE_SPACE")
      t == [i \in DOMAIN at |-> line[at[i]]]
      blanks == [i \in DOMAIN at |-> IF i = 1 THEN at[1] - 1 ELSE at[i] - at[i - 1] - 1]
      asAlone(i) == i < Len(t) /\ t[i].code = "SQL_AS" /\ t[i + 1].code # "SQL_IDENTIFIER"
                      /\ blanks[i + 1] >= 1
      begun(i, j) == i + j <= Len(t) /\ Codes(Part(t, i, i + j - 1)) = Part(VarcharCodes, 1, j)
                      /\ t[i + j].code \in TypeCodes /\ blanks[i + j] >= j
      inBegun(i) == \E k \in 1 .. i, j \in 1 .. 3 : i < k + j /\ begun(k, j)
      kept == SelectSeq([i \in DOMAIN t |-> i], LAMBDA i : ~asAlone(i) /\ ~inBegun(i))
  IN  [i \in DOMAIN kept |-> t[kept[i]]]

(* Nothing else is accepted.                                               *)
OnlyStatementsAccepted ==
  Parsed /\ outcome = "accepted" =>
    IsStatement(Forgiven(Typed)) /\ ~HasLongString(Forgiven(Typed))

=============================================================================
