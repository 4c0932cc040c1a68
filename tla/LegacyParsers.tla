--------------------------- MODULE LegacyParsers ----------------------------
(***************************************************************************)
(* The parsers of src/Parsers: expressions (ExpressionParser.c), select    *)
(* (SQLSelectParserCFG.c), create table (SQLCreateParserCFG.c) and insert  *)
(* into (SQLInsertIntoParser.c), with the command loop they share, and the *)
(* program that evaluates an expression (SQLSelectParser.l).  Which of the *)
(* two mains is built, and whether select is parsed by the grammar's       *)
(* functions, the preprocessor decides.                                    *)
(*                                                                         *)
(* The scanner is the one of Scanner, but for a character that begins no   *)
(* token: there the program ends, so that no line has one.  A number may   *)
(* have a sign here, which is not an operator then.                        *)
(***************************************************************************)
EXTENDS RecursiveDescent, LegacyGrammar

CONSTANTS Lines  \* what each main may read: as typed, with every minus by itself

LineLength(line) == FoldLeft(LAMBDA n, x : n + x.len, 0, line)

Symbols == {"BRACK_START", "BRACK_END", "COMMA", "SQL_MATH_PLUS", "SQL_MATH_MINUS", "SQL_MATH_MUL",
            "SQL_MATH_DIV", "SQL_LESS_THAN", "SQL_GREATER_THAN", "SQL_EQ", "SQL_NOT_EQ", "SEMI_COLON",
            "QUOTATION_MARK", "QUIT", "PARSER_WHITE_SPACE", "EOL"}

(* lex_buffer has two characters for every slot of a stack, and its end is *)
(* one of them.  Between two words there is a blank.                       *)
ASSUME LineAssumption ==
  \A line \in Lines["commands"] \cup Lines["expression"] :
    /\ line # <<>> /\ line[Len(line)].code = "EOL"
    /\ \A k \in DOMAIN line : line[k].code # "none"
    /\ \A k \in 2 .. Len(line) : {line[k - 1].code, line[k].code} \cap Symbols # {}
    /\ LineLength(line) < 2 * MAX_STACK_SIZE

VARIABLES
  main,     \* "commands" or "expression"
  st,       \* the state of the scanner and of the parser
  outcome   \* of the line

vars == <<lex_buffer, main, st, outcome>>

(* Of the two rules that match at a minus, the longer one is taken: with a *)
(* number right behind it, the number's, unless this is the integer zero.  *)
TakesSign(x) == x.code = "SQL_DOUBLE_VALUE" \/ (x.code = "SQL_INTEGER_VALUE" /\ x.val # "0")
Signed(x) == [x EXCEPT !.val = "-" \o @, !.len = @ + 1]

Joined(read, x) ==
  IF read # <<>> /\ Last(read).code = "SQL_MATH_MINUS" /\ TakesSign(x)
    THEN Append(Front(read), Signed(x)) ELSE Append(read, x)

Scanned(line) == FoldLeft(Joined, <<>>, line)

NoToken == Lexeme("none", "", 0)
NoData == [kind |-> "none"]
NoColumn == [name |-> "", dtype |-> "", len |-> 0, primary |-> FALSE]

\* eax is what a function returns that ends without a return.
Start == ScannerAtStart @@ [tok |-> NoToken, rc |-> "PARSE_SUCCESS", eax |-> "PARSE_ERR",
                            wild |-> FALSE, got |-> <<>>, data |-> NoData]

Init ==
  /\ main \in {"commands", "expression"}
  /\ lex_buffer = <<>>
  /\ st = Start
  /\ outcome = "none"

-----------------------------------------------------------------------------
(* ExpressionParser.c *)

ComparisonCodes == {"SQL_LESS_THAN", "SQL_GREATER_THAN", "SQL_EQ", "SQL_NOT_EQ"}
BinaryFunctions == {"SQL_MATH_MAX", "SQL_MATH_MIN", "SQL_MATH_POW"}
OperandCodes == Numbers \cup Variables

Ineq(s) == Ended(Token(s, ComparisonCodes), Checkpoint(s))
G(s) == Ended(Token(s, BinaryFunctions), Checkpoint(s))
P(s) == Ended(Token(s, UnaryOperators), Checkpoint(s))

RECURSIVE E(_), F(_), T_dash(_), E_dash(_), Q(_)

ThenToken(s, code) == Then(s, LAMBDA t : Token(t, {code}))

Closed(t) == ThenToken(E(t), "BRACK_END")
TwoArguments(g) == Then(ThenToken(Then(ThenToken(g, "BRACK_START"), E), "COMMA"), Closed)

(* After a function of one argument, something that is no bracket stays    *)
(* read, and F ends without a return.                                      *)
OneArgument(t) == IF Is(t, "BRACK_START") THEN Closed(t) ELSE [t EXCEPT !.rc = t.eax]

FunctionCall(p) == IF Failed(p) THEN TwoArguments(G(p)) ELSE OneArgument(cyylex(p))

Factor(t) ==
  IF Is(t, "BRACK_START") THEN Closed(t)
  ELSE IF t.tok.code \in OperandCodes THEN Success(t)
  ELSE FunctionCall(P(yyrewind(t, 1)))

F(s) == Ended(Factor(cyylex(s)), Checkpoint(s))

\* An operator and what follows it, or something else that is given back.
Operation(t, codes, operand(_), rest(_)) ==
  IF t.tok.code \in codes THEN Then(operand(t), rest) ELSE Success(yyrewind(t, 1))

T_dash(s) == Ended(Operation(cyylex(s), {"SQL_MATH_MUL", "SQL_MATH_DIV"}, F, T_dash), Checkpoint(s))

T(s) == Ended(Then(F(s), T_dash), Checkpoint(s))

E_dash(s) == Ended(Operation(cyylex(s), {"SQL_MATH_PLUS", "SQL_MATH_MINUS"}, T, E_dash), Checkpoint(s))

E(s) == Ended(Then(T(s), E_dash), Checkpoint(s))

\* CHECKPOINT and RESTORE_CHKP: a second attempt from where the first one started.
OrElse(first, s, second(_)) ==
  IF Failed(first) THEN second(yyrewind(first, Len(first.stack) - Checkpoint(s))) ELSE first

InBrackets(t) == IF Is(t, "BRACK_START") THEN ThenToken(Q(t), "BRACK_END") ELSE Fail(t)
Inequality(s) == Then(Then(E(s), Ineq), E)

(* Wrong: what begins with a bracket is not tried as an expression.        *)
OnlyInBrackets(t, s) ==
  IF Is(t, "BRACK_START") THEN InBrackets(t) ELSE OrElse(InBrackets(t), s, Inequality)

QuestionOf(t, s) == OrElse(InBrackets(t), s, Inequality)

Q(s) == Ended(QuestionOf(cyylex(s), s), Checkpoint(s))

-----------------------------------------------------------------------------
(* SQLSelectParserCFG.c *)

\* A clause that begins with a keyword, or nothing.
Clause(t, keyword, rest(_)) == IF Is(t, keyword) THEN rest(t) ELSE Success(yyrewind(t, 1))

LMT(s) == Ended(Clause(cyylex(s), "SQL_LIMIT", LAMBDA t : Token(t, {"SQL_INT"})), Checkpoint(s))

Direction(t) == IF t.tok.code \in {"SQL_ORDERBY_ASC", "SQL_ORDERBY_DSC"} THEN t ELSE yyrewind(t, 1)
Ordering(t) == Then(E(t), LAMBDA u : Direction(cyylex(u)))

ORDER_BY(s) == Ended(Clause(cyylex(s), "SQL_ORDER_BY", Ordering), Checkpoint(s))

L(s) == Ended(Clause(cyylex(s), "SQL_AS", LAMBDA t : Token(t, {"SQL_IDENTIFIER"})), Checkpoint(s))

RECURSIVE A(_), TABS(_), COLS(_)

B(s) == Ended(Q(s), Checkpoint(s))

Connected(t) == IF t.tok.code \in {"SQL_AND", "SQL_OR"} THEN A(t) ELSE Fail(t)
Conjunction(s) == Then(B(s), LAMBDA b : Connected(cyylex(b)))

A(s) == Ended(OrElse(Conjunction(s), s, Q), Checkpoint(s))

HAVING(s) == Ended(Clause(cyylex(s), "SQL_HAVING", A), Checkpoint(s))
WHERE(s) == Ended(Clause(cyylex(s), "SQL_WHERE", A), Checkpoint(s))

NextItem(s, list(_)) == Then(s, LAMBDA t : More(cyylex(t), "COMMA", list))

TABS(s) == Ended(NextItem(Then(Token(s, {"SQL_IDENTIFIER"}), L), TABS), Checkpoint(s))
COLS(s) == Ended(NextItem(Then(E(s), L), COLS), Checkpoint(s))

Grouping(t) == Then(COLS(t), HAVING)

GROUPBY(s) == Ended(Clause(cyylex(s), "SQL_GROUP_BY", Grouping), Checkpoint(s))

SEL_Q(s) ==
  LET cols == Then(Token(s, {"SQL_SELECT_Q"}), COLS)
      tabs == Then(ThenToken(cols, "SQL_FROM"), TABS)
      rest == Then(Then(Then(Then(tabs, WHERE), GROUPBY), ORDER_BY), LMT)
  IN  Ended(ThenToken(rest, "SEMI_COLON"), Checkpoint(s))

\* yy_scan_string (lex_buffer): flex starts again, and curr_ptr is where it was.
Rescanned(s) == [s EXCEPT !.pos = 0]

parse_select_query_cfg(s) == SEL_Q(Rescanned([s EXCEPT !.data = [kind |-> "select"]]))

-----------------------------------------------------------------------------
(* SQLCreateParserCFG.c.  A column is entered in the tree as soon as it is *)
(* named, and its type and attribute as they are read.                     *)

DataTypes == {"SQL_STRING", "SQL_INT", "SQL_DOUBLE", "SQL_IPV4_ADDR"}
MaxVarchar == 255

EnterColumn(t) == [t EXCEPT !.data.cols = Append(@, [NoColumn EXCEPT !.name = t.tok.val])]
LastColumn(t) == Len(t.data.cols)

EnterType(t) == [t EXCEPT !.data.cols[LastColumn(t)].dtype = t.tok.code]
EnterLength(t) == [t EXCEPT !.data.cols[LastColumn(t)].len = atoi(t.tok.val)]

VarcharLength(t) == Then(Demand(t, atoi(t.tok.val) <= MaxVarchar), EnterLength)
Varchar(t) ==
  ThenToken(Then(ThenToken(Token(t, {"BRACK_START"}), "SQL_INTEGER_VALUE"), VarcharLength), "BRACK_END")

DataType(t) == IF Is(t, "SQL_STRING") THEN Varchar(EnterType(t)) ELSE EnterType(t)

RECURSIVE CE(_), CD_dash(_)

Nested(t) == ThenToken(CE(t), "BRACK_END")

(* The node of "not null" is filled through the pointer of "primary key",  *)
(* which was never set.                                                    *)
Attribute(t) ==
  CASE Is(t, "SQL_PRIMARY_KEY") -> [t EXCEPT !.data.cols[LastColumn(t)].primary = TRUE]
    [] Is(t, "SQL_NOT_NULL")    -> [t EXCEPT !.wild = TRUE]
    [] Is(t, "BRACK_START")     -> Nested(t)
    [] OTHER                    -> yyrewind(t, 1)

Column(t) ==
  LET d == Then(Token(EnterColumn(t), DataTypes), DataType)
  IN  Then(d, LAMBDA u : Attribute(cyylex(u)))

Element(t) ==
  IF Is(t, "SQL_IDENTIFIER") THEN Column(t) ELSE IF Is(t, "BRACK_START") THEN Nested(t) ELSE Fail(t)

CE(s) == Ended(Element(cyylex(s)), Checkpoint(s))

\* A comma before something that is no column is given back, and the list has ended.
MoreColumns(c) == IF Failed(c) THEN Success(yyrewind(c, 1)) ELSE CD_dash(c)

CD_dash(s) ==
  LET t == cyylex(s) IN IF Is(t, "COMMA") THEN MoreColumns(CE(t)) ELSE Success(yyrewind(t, 1))

CD(s) == Ended(Then(CE(s), CD_dash), Checkpoint(s))
CC(s) == Ended(ThenToken(Then(Token(s, {"BRACK_START"}), CD), "BRACK_END"), Checkpoint(s))
CM(s) == Then(Ended(Token(s, {"SQL_IDENTIFIER"}), Checkpoint(s)),
              LAMBDA t : [t EXCEPT !.data.table = t.tok.val])
CQ(s) == Ended(Then(CM(s), CC), Checkpoint(s))

parse_create_query_cfg(s) ==
  LET create_kw == [kind |-> "create", table |-> "", cols |-> <<>>]
  IN  Ended(CQ(cyylex(Rescanned([s EXCEPT !.data = create_kw]))), Checkpoint(s))

-----------------------------------------------------------------------------
(* SQLInsertIntoParser.c reads with yylex alone and takes nothing back.    *)

Raw(s, codes) == LET t == yylex(s) IN Demand(t, t.tok.code \in codes)
ThenRaw(s, codes) == Then(s, LAMBDA t : Raw(t, codes))

EnterValue(t, dtype) ==
  [t EXCEPT !.data.values = Append(@, [dtype |-> dtype, u |-> t.tok.val])]

QuotedCodes == {"SQL_STRING_VALUE", "SQL_IDENTIFIER", "SQL_IPV4_ADDR_VALUE"}
QuotedType(t) == IF Is(t, "SQL_IPV4_ADDR_VALUE") THEN "SQL_IPV4_ADDR_VALUE" ELSE "SQL_STRING_VALUE"
Quoted(t) == ThenRaw(Then(Raw(t, QuotedCodes), LAMBDA u : EnterValue(u, QuotedType(u))), {"QUOTATION_MARK"})

\* A double ends the program.
Exited(t) == [Fail(t) EXCEPT !.data.kind = "exit"]

InsertValue(t) ==
  CASE Is(t, "SQL_INTEGER_VALUE") -> EnterValue(t, "SQL_INTEGER_VALUE")
    [] Is(t, "QUOTATION_MARK")    -> Quoted(t)
    [] Is(t, "SQL_DOUBLE_VALUE")  -> Exited(t)
    [] OTHER                      -> Fail(t)

insert_q_parse_value(s) == Then(InsertValue(yylex(s)), yylex)

RECURSIVE insert_q_parse_value_list(_)
insert_q_parse_value_list(s) ==
  Then(insert_q_parse_value(s), LAMBDA t : IF Is(t, "COMMA") THEN insert_q_parse_value_list(t) ELSE t)

insert_q_parse_table_name(s) ==
  Then(Raw(s, {"SQL_IDENTIFIER"}), LAMBDA t : yylex([t EXCEPT !.data.table = t.tok.val]))

parse_insert_query(s) ==
  LET name == insert_q_parse_table_name([s EXCEPT !.data = [kind |-> "insert", table |-> "", values |-> <<>>]])
      open == ThenRaw(Then(name, LAMBDA t : Demand(t, t.tok.val = "values")), {"BRACK_START"})
      list == Then(open, insert_q_parse_value_list)
  IN  ThenRaw(Then(list, LAMBDA t : Demand(t, Is(t, "BRACK_END"))), {"EOL"})

-----------------------------------------------------------------------------
(* The program that evaluates an expression does not look at what E        *)
(* returns.  It asserts that the line has ended, and evaluates what is on  *)
(* the undo stack.                                                         *)

EvaluatedTree(postfix, nodes) ==
  IF postfix.stack.wild \/ nodes.wild THEN [rc |-> "wild", ovalue |-> 0]
  ELSE IF ~mexpr_create_mexpt_node_asserts(postfix.out) \/ ~OneNodeLeft(nodes) THEN Asserted
  ELSE mexpt_evaluate(StackGetTopElem(nodes))

EvaluatedPostfix(postfix) == EvaluatedTree(postfix, NodesBuilt(postfix.out))
Evaluated(s) == EvaluatedPostfix(mexpr_convert_infix_to_postfix(s.stack))

\* What cyylexlh finds behind the expression, and gives back.
ExpressionRead(t) ==
  [yyrewind(t, 1) EXCEPT !.data = IF Is(t, "EOL") THEN Evaluated(yyrewind(t, 1)) ELSE Asserted]

EvaluateExpression ==
  /\ main = "expression" /\ outcome = "read"
  /\ st' = ExpressionRead(cyylex(E(st)))
  /\ outcome' = IF st'.data.rc = "assert" THEN "aborted" ELSE "evaluated"
  /\ UNCHANGED <<main, lex_buffer>>

-----------------------------------------------------------------------------
(* The command loop: parse_sql_query and the main around it.               *)

\* A line with nothing in it is not scanned.
ReadLine ==
  /\ outcome = "none"
  /\ \E line \in Lines[main], eax \in {"PARSE_ERR", "PARSE_SUCCESS"} :
       /\ lex_buffer' = Buffer(Scanned(line))
       /\ st' = [st EXCEPT !.eax = eax]
       /\ outcome' = IF main = "commands" /\ Is([tok |-> line[1]], "EOL") THEN "empty" ELSE "read"
  /\ UNCHANGED main

First == yylex(st)

Command(keyword) == main = "commands" /\ outcome = "read" /\ Is(First, keyword)

ParseSelect ==
  /\ Command("SQL_SELECT_Q")
  /\ st' = parse_select_query_cfg(First)
  /\ outcome' = IF Failed(st') THEN "refused" ELSE "accepted"
  /\ UNCHANGED <<main, lex_buffer>>

(* The table is created before the end of the line is looked for, which    *)
(* is asserted then.                                                       *)
CreateOutcome(c, end) ==
  IF c.wild THEN "undefined"
  ELSE IF Failed(c) THEN "refused" ELSE IF Is(end, "EOL") THEN "accepted" ELSE "aborted"

CreateEnd(c) == IF Failed(c) THEN Ended(c, 0) ELSE cyylex(c)

ParseCreate ==
  /\ Command("SQL_CREATE_Q")
  /\ LET c == parse_create_query_cfg(First)
     IN  st' = CreateEnd(c) /\ outcome' = CreateOutcome(c, CreateEnd(c))
  /\ UNCHANGED <<main, lex_buffer>>

(* Whether an insert has parsed is not looked at: the values read so far   *)
(* are inserted.                                                           *)
InsertOutcome(s) ==
  IF s.data.kind = "exit" THEN "exited" ELSE IF Failed(s) THEN "misread" ELSE "accepted"

ParseInsert ==
  /\ Command("SQL_INSERT_Q")
  /\ st' = parse_insert_query(First)
  /\ outcome' = InsertOutcome(st')
  /\ UNCHANGED <<main, lex_buffer>>

NoStatement ==
  /\ main = "commands" /\ outcome = "read"
  /\ First.tok.code \notin {"SQL_SELECT_Q", "SQL_CREATE_Q", "SQL_INSERT_Q", "SQL_DELETE_Q", "SQL_UPDATE_Q"}
  /\ st' = First
  /\ outcome' = IF Is(First, "QUIT") THEN "exited" ELSE "unsupported"
  /\ UNCHANGED <<main, lex_buffer>>

NextPrompt ==
  /\ main = "commands" /\ outcome \in {"empty", "accepted", "refused", "misread", "unsupported"}
  /\ st' = Start
  /\ lex_buffer' = <<>>
  /\ outcome' = "none"
  /\ UNCHANGED main

\* After an assert or a write through a wild pointer nothing is said of the program.
Next ==
  \/ ReadLine \/ ParseSelect \/ ParseCreate \/ ParseInsert \/ NoStatement \/ NextPrompt
  \/ EvaluateExpression

Spec == Init /\ [][Next]_vars

-----------------------------------------------------------------------------
Tokens == SelectSeq(Typed, LAMBDA x : x.code # "PARSER_WHITE_SPACE")
Body == Before(Tokens, Len(Tokens))
Indented == Typed # <<>> /\ Typed[1].code = "PARSER_WHITE_SPACE"
Tabbed == \E k \in DOMAIN Typed : Typed[k].val = "\t"

(* What a line means is what its tokens mean, and a minus right before a   *)
(* number belongs to the number: "2*-3" is an expression, and "5-2" is     *)
(* none, although the grammar has one, and aborts.  The program asserts    *)
(* the end of the line exactly behind an expression, and the value that    *)
(* comes out of the postfix form and the tree is the one arithmetic gives: *)
(* products before sums, equal operators from the left, arguments in their *)
(* order, no value where a name is or something is divided by zero.  The   *)
(* stacks are large enough for every line.                                 *)
ExpressionsMean ==
  outcome \in {"evaluated", "aborted"} /\ main = "expression" /\ ~Tabbed /\ ~FallsOff(Body) =>
    IF Body = <<>> THEN st.data = NoValue
    ELSE st.data = IF IsExpression(Body) THEN Meaning(Body) ELSE Asserted

\* The create statement that a line begins with, if any: to its last bracket.
Statement ==
  LET ends == {k \in DOMAIN Tokens : IsCreate(SubSeq(Tokens, 1, k))}
  IN  IF ends = {} THEN <<>> ELSE SubSeq(Tokens, 1, Max(ends))

NotNull == Positions(Tokens, {"SQL_NOT_NULL"}) # {}

Ascending == Lexeme("SQL_ORDERBY_ASC", "asc", 3)
Read(s) == SelectSeq(s.stack, LAMBDA x : x.code # "0")

\* Reworded, it is one of the grammar, and is read to its semicolon.
SelectsMean ==
  st.data.kind = "select" /\ ~FallsOff(Tokens) =>
    IF IsSelect(Reworded(Tokens, Ascending))
      THEN outcome = "accepted" /\ Read(st) = ToSemicolon(Tokens) ELSE outcome = "refused"

CarriedOut ==
  \/ st.data.kind = "create" /\ outcome \in {"accepted", "aborted"}
  \/ st.data.kind = "insert" /\ outcome \in {"accepted", "misread"}

(* The table that the beginning of the line says is made, also when the    *)
(* line goes on behind it and is no statement: then the program aborts.    *)
CreatesMean ==
  st.data.kind = "create" =>
    IF Statement = <<>> THEN ~CarriedOut /\ (outcome = "refused" \/ NotNull)
    ELSE IF Positions(Statement, {"SQL_NOT_NULL"}) # {} THEN outcome = "undefined"
    ELSE /\ CarriedOut /\ st.data = CreateSaid(Statement)
         /\ outcome = "accepted" <=> After(Tokens, Len(Statement)) = <<Last(Tokens)>>

(* What is no insert inserts the values that it begins with: up to the     *)
(* first that is none, or to the end of a list with more behind it.        *)
InsertsMean ==
  st.data.kind = "insert" =>
    /\ CarriedOut /\ st.data = InsertBegun(Tokens)
    /\ IF IsInsert(Tokens) THEN outcome = "accepted" /\ st.data = InsertSaid(Tokens)
       ELSE outcome = "misread"

(* Of the statements that are not indented, those of the grammars are      *)
(* accepted and no others, but for the two clauses of a select that the    *)
(* code words differently; and what is carried out is what was typed, also *)
(* where the code carries out a line that is no statement: a create with   *)
(* something behind it, before the program aborts, and any insert.  "not   *)
(* null" is written through a pointer that was never set.                  *)
StatementsMean ==
  main = "commands" /\ ~Indented /\ ~Tabbed /\ Tokens # <<>> =>
    SelectsMean /\ CreatesMean /\ InsertsMean

(* Whatever was tried and taken back, flex and curr_ptr are together at    *)
(* the end of a statement that is not indented, and a statement that is    *)
(* refused is put back to its first token.  Of an expression, what stays    *)
(* read is an expression, or nothing.                                      *)
NothingLeftRead ==
  /\ st.ptr = Length(st.stack)
  /\ outcome = "accepted" /\ st.data.kind # "insert" /\ ~Indented /\ ~Tabbed => st.pos = st.ptr
  /\ outcome = "refused" /\ ~Indented /\ ~Tabbed => st.pos = 0 /\ st.stack = <<>>
  /\ outcome \in {"evaluated", "aborted"} /\ main = "expression" /\ ~Tabbed =>
       /\ st.pos = st.ptr /\ IsPrefix(Read(st), Tokens)
       /\ Read(st) = <<>> \/ FallsOff(Tokens) \/ IsExpression(Read(st))

=============================================================================
