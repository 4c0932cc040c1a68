---------------------------- MODULE LegacyGrammar ---------------------------
(***************************************************************************)
(* What the statements and expressions of src/Parsers are, and mean: the   *)
(* grammars in the comments of its files as sets of sequences of lexemes   *)
(* that are cut at their outermost operators, commas and keywords (insert  *)
(* has no such comment).  Nothing is read from left to right here: it is   *)
(* the reference the parsers are compared with.                            *)
(***************************************************************************)
EXTENDS MathExpr, FiniteSets, FiniteSetsExt

Positions(s, codes) == {k \in DOMAIN s : s[k].code \in codes}

\* How many brackets are open at position k.
Depth(s, k) ==
  Cardinality({i \in Positions(s, {"BRACK_START"}) : i < k})
    - Cardinality({i \in Positions(s, {"BRACK_END"}) : i < k})

Outermost(s, codes) == {k \in Positions(s, codes) : Depth(s, k) = 0}

Before(s, k) == SubSeq(s, 1, k - 1)
After(s, k) == SubSeq(s, k + 1, Len(s))
Between(s, i, k) == SubSeq(s, i + 1, k - 1)

\* One pair of brackets around all of s.
Bracketed(s) ==
  /\ Len(s) >= 2 /\ s[1].code = "BRACK_START" /\ s[Len(s)].code = "BRACK_END"
  /\ \A k \in 2 .. Len(s) : Depth(s, k) > 0
Inner(s) == Between(s, 1, Len(s))

InOrder(s, positions) == SelectSeq([k \in DOMAIN s |-> k], LAMBDA k : k \in positions)

\* The parts of s between the outermost of some codes.
Parts(s, codes) ==
  LET cuts == <<0>> \o InOrder(s, Outermost(s, codes)) \o <<Len(s) + 1>>
  IN  [i \in 1 .. Len(cuts) - 1 |-> Between(s, cuts[i], cuts[i + 1])]

-----------------------------------------------------------------------------
(* Expressions.  The last of the outermost operators of the lowest         *)
(* precedence is the one carried out last.                                 *)

NotAnExpression == [rc |-> "not", ovalue |-> 0]

Both(l, r, op, v) ==
  CASE "not" \in {l.rc, r.rc} -> NotAnExpression
    [] "not" \notin {l.rc, r.rc} /\ "false" \in {l.rc, r.rc} -> NoValue
    [] {l.rc, r.rc} = {"true"} -> IF op = "SQL_MATH_DIV" /\ r.ovalue = 0 THEN NoValue ELSE Resolved(v)

OperandMeaning(x) ==
  IF x.code \in Numbers THEN Resolved(atoi(x.val))
  ELSE IF x.code \in Variables THEN NoValue ELSE NotAnExpression

FunctionMeaning(op, l, r) ==
  CASE op = "SQL_MATH_MAX" -> Both(l, r, op, Max({l.ovalue, r.ovalue}))
    [] op = "SQL_MATH_MIN" -> Both(l, r, op, Min({l.ovalue, r.ovalue}))
    [] op = "SQL_MATH_SQR" -> Both(l, r, op, Computed("SQL_MATH_MUL", l.ovalue, l.ovalue))
    [] OTHER               -> Both(l, r, op, Computed(op, l.ovalue, r.ovalue))

RECURSIVE Meaning(_)

Operation2(s, k) == FunctionMeaning(s[k].code, Meaning(Before(s, k)), Meaning(After(s, k)))

Meaning2(s, arguments) ==
  IF Len(arguments) = 1 /\ s[1].code \in UnaryOperators
    THEN FunctionMeaning(s[1].code, Meaning(arguments[1]), Meaning(arguments[1]))
  ELSE IF Len(arguments) = 2 /\ s[1].code \in BinaryOperators \ {"SQL_MATH_PLUS", "SQL_MATH_MINUS",
                                                                 "SQL_MATH_MUL", "SQL_MATH_DIV"}
    THEN FunctionMeaning(s[1].code, Meaning(arguments[1]), Meaning(arguments[2]))
  ELSE NotAnExpression

Meaning(s) ==
  LET sums == Outermost(s, {"SQL_MATH_PLUS", "SQL_MATH_MINUS"})
      products == Outermost(s, {"SQL_MATH_MUL", "SQL_MATH_DIV"})
  IN  IF s = <<>> THEN NotAnExpression
      ELSE IF sums # {} THEN Operation2(s, Max(sums))
      ELSE IF products # {} THEN Operation2(s, Max(products))
      ELSE IF Len(s) = 1 THEN OperandMeaning(s[1])
      ELSE IF Bracketed(s) THEN Meaning(Inner(s))
      ELSE IF Bracketed(After(s, 1)) THEN Meaning2(s, Parts(Inner(After(s, 1)), {"COMMA"}))
      ELSE NotAnExpression

IsExpression(s) == Meaning(s).rc # "not"

\* A function of one argument without its brackets: the parser ends without a return.
FallsOff(s) ==
  \E k \in Positions(s, UnaryOperators) : k = Len(s) \/ s[k + 1].code # "BRACK_START"

-----------------------------------------------------------------------------
(* select COLS from TABS WHERE GRPBY ORDERBY LMT ;                         *)

Clauses == <<"SQL_SELECT_Q", "SQL_FROM", "SQL_WHERE", "SQL_GROUP_BY", "SQL_HAVING", "SQL_ORDER_BY",
             "SQL_LIMIT">>
Rank(code) == CHOOSE i \in DOMAIN Clauses : Clauses[i] = code

WithoutName(s) ==
  IF Len(s) >= 2 /\ s[Len(s) - 1].code = "SQL_AS" /\ s[Len(s)].code = "SQL_IDENTIFIER"
    THEN SubSeq(s, 1, Len(s) - 2) ELSE s

IsColumnsClause(s) == \A i \in DOMAIN Parts(s, {"COMMA"}) : IsExpression(WithoutName(Parts(s, {"COMMA"})[i]))
IsTablesClause(s) ==
  \A i \in DOMAIN Parts(s, {"COMMA"}) :
    LET t == WithoutName(Parts(s, {"COMMA"})[i]) IN Len(t) = 1 /\ t[1].code = "SQL_IDENTIFIER"

RECURSIVE IsInequality(_)
IsInequality(s) ==
  \/ Bracketed(s) /\ IsInequality(Inner(s))
  \/ \E k \in Outermost(s, {"SQL_LESS_THAN", "SQL_GREATER_THAN", "SQL_EQ", "SQL_NOT_EQ"}) :
       IsExpression(Before(s, k)) /\ IsExpression(After(s, k))

IsCondition(s) ==
  \A i \in DOMAIN Parts(s, {"SQL_AND", "SQL_OR"}) : IsInequality(Parts(s, {"SQL_AND", "SQL_OR"})[i])

Directions == {"SQL_ORDERBY_ASC", "SQL_ORDERBY_DSC"}
IsOrdering(s) == s # <<>> /\ s[Len(s)].code \in Directions /\ IsExpression(Before(s, Len(s)))

IsLimit(s) == Len(s) = 1 /\ s[1].code = "SQL_INTEGER_VALUE"

IsClause(code, s) ==
  CASE code \in {"SQL_SELECT_Q", "SQL_GROUP_BY"} -> IsColumnsClause(s)
    [] code = "SQL_FROM"                         -> IsTablesClause(s)
    [] code \in {"SQL_WHERE", "SQL_HAVING"}      -> IsCondition(s)
    [] code = "SQL_ORDER_BY"                     -> IsOrdering(s)
    [] code = "SQL_LIMIT"                        -> IsLimit(s)

\* The clauses are in order, and each is what its keyword says; s begins with select.
IsSelectBody(s) ==
  LET at == InOrder(s, Positions(s, ToSet(Clauses))) \o <<Len(s) + 1>>
      n == Len(at) - 1
      rank == [i \in 1 .. n |-> Rank(s[at[i]].code)]
  IN  /\ n >= 2 /\ rank[1] = 1 /\ rank[2] = 2 /\ at[1] = 1
      /\ \A i \in 1 .. n - 1 : rank[i] < rank[i + 1]
      /\ \A i \in 1 .. n : rank[i] = Rank("SQL_HAVING") => rank[i - 1] = Rank("SQL_GROUP_BY")
      /\ \A i \in 1 .. n : IsClause(s[at[i]].code, Between(s, at[i], at[i + 1]))

\* What follows the semicolon is not read.
Semicolons(s) == Positions(s, {"SEMI_COLON"})
ToSemicolon(s) == SubSeq(s, 1, Min(Semicolons(s)))
IsSelect(s) == Semicolons(s) # {} /\ IsSelectBody(Before(s, Min(Semicolons(s))))

(* Two clauses are not read as the comment has them.  A direction may be   *)
(* missing ("assume it is ASC when not specified"), and limit is followed  *)
(* by the keyword int and not by an integer.  Reworded is what a statement *)
(* would be in the words of the comment for the code to read it so.        *)
Exchanged(x) ==
  CASE x.code = "SQL_INT"           -> [x EXCEPT !.code = "SQL_INTEGER_VALUE"]
    [] x.code = "SQL_INTEGER_VALUE" -> [x EXCEPT !.code = "SQL_INT"]
    [] OTHER                        -> x
LimitReworded(s) ==
  [k \in DOMAIN s |-> IF k > 1 /\ s[k - 1].code = "SQL_LIMIT" THEN Exchanged(s[k]) ELSE s[k]]

OrderingEnds(s) ==
  {k \in Positions(s, {"SQL_LIMIT", "SEMI_COLON"}) : \E o \in Positions(s, {"SQL_ORDER_BY"}) : o < k}
OrderingReworded(s, ascending) ==
  IF OrderingEnds(s) = {} \/ s[Min(OrderingEnds(s)) - 1].code \in Directions
    THEN s ELSE InsertAt(s, Min(OrderingEnds(s)), ascending)

Reworded(s, ascending) == LimitReworded(OrderingReworded(s, ascending))

-----------------------------------------------------------------------------
(* create table IDENTIFIER ( D ), where an element of D may be in brackets *)
(* and, which no comment says, another element in brackets may follow the  *)
(* type of a column without a comma.                                       *)

NoColumns == <<>>
TypeLength(s) ==
  IF s[2].code # "SQL_STRING" THEN 2
  ELSE IF Len(s) >= 5 /\ [k \in 3 .. 5 |-> s[k].code] =
            [k \in 3 .. 5 |-> <<"BRACK_START", "SQL_INTEGER_VALUE", "BRACK_END">>[k - 2]]
         THEN IF atoi(s[4].val) <= 255 THEN 5 ELSE 0
  ELSE 0

ColumnSaid(s, primary) ==
  [name |-> s[1].val, dtype |-> s[2].code,
   len |-> IF s[2].code = "SQL_STRING" THEN atoi(s[4].val) ELSE 0, primary |-> primary]

IsTyped(s) ==
  /\ Len(s) >= 2 /\ s[1].code = "SQL_IDENTIFIER"
  /\ s[2].code \in {"SQL_STRING", "SQL_INT", "SQL_DOUBLE", "SQL_IPV4_ADDR"}
  /\ TypeLength(s) > 0

\* The columns that an element says, none if it is no element.
RECURSIVE ColumnsSaid(_)
ColumnsSaid(s) ==
  IF Bracketed(s) THEN ColumnsSaid(Inner(s))
  ELSE IF ~IsTyped(s) THEN NoColumns
  ELSE LET rest == SubSeq(s, TypeLength(s) + 1, Len(s))
       IN  IF rest = <<>> THEN <<ColumnSaid(s, FALSE)>>
           ELSE IF Len(rest) = 1 /\ rest[1].code \in {"SQL_PRIMARY_KEY", "SQL_NOT_NULL"}
             THEN <<ColumnSaid(s, rest[1].code = "SQL_PRIMARY_KEY")>>
           ELSE IF Bracketed(rest) /\ ColumnsSaid(Inner(rest)) # NoColumns
             THEN <<ColumnSaid(s, FALSE)>> \o ColumnsSaid(Inner(rest))
           ELSE NoColumns

IsCreate(s) ==
  /\ Len(s) > 3 /\ s[1].code = "SQL_CREATE_Q" /\ s[2].code = "SQL_IDENTIFIER" /\ Bracketed(After(s, 2))
  /\ \A i \in DOMAIN Parts(Inner(After(s, 2)), {"COMMA"}) :
       ColumnsSaid(Parts(Inner(After(s, 2)), {"COMMA"})[i]) # NoColumns

CreateSaid(s) ==
  [kind |-> "create", table |-> s[2].val,
   cols |-> LET parts == Parts(Inner(After(s, 2)), {"COMMA"})
            IN  FlattenSeq([i \in DOMAIN parts |-> ColumnsSaid(parts[i])])]

-----------------------------------------------------------------------------
(* insert into IDENTIFIER values ( value, ... )                            *)

IsValue(s) ==
  \/ Len(s) = 1 /\ s[1].code = "SQL_INTEGER_VALUE"
  \/ /\ Len(s) = 3 /\ s[1].code = "QUOTATION_MARK" /\ s[3].code = "QUOTATION_MARK"
     /\ s[2].code \in {"SQL_STRING_VALUE", "SQL_IDENTIFIER", "SQL_IPV4_ADDR_VALUE"}

ValueOf(x) ==
  [dtype |-> IF x.code \in {"SQL_INTEGER_VALUE", "SQL_IPV4_ADDR_VALUE"} THEN x.code ELSE "SQL_STRING_VALUE",
   u |-> x.val]
ValueSaid(s) == ValueOf(IF Len(s) = 1 THEN s[1] ELSE s[2])

InsertItems(s) == Parts(Between(s, 4, Len(s) - 1), {"COMMA"})

IsInsertHead(s) ==
  /\ Len(s) >= 4 /\ s[1].code = "SQL_INSERT_Q" /\ s[2].code = "SQL_IDENTIFIER"
  /\ s[3].val = "values" /\ s[4].code = "BRACK_START"

IsInsert(s) ==
  /\ Len(s) > 6 /\ IsInsertHead(s) /\ s[Len(s) - 1].code = "BRACK_END" /\ s[Len(s)].code = "EOL"
  /\ \A i \in DOMAIN InsertItems(s) : IsValue(InsertItems(s)[i])

InsertSaid(s) ==
  [kind |-> "insert", table |-> s[2].val,
   values |-> [i \in DOMAIN InsertItems(s) |-> ValueSaid(InsertItems(s)[i])]]

(* The values of a line that is no insert: those behind values that are    *)
(* complete, whatever comes then.                                          *)
ValueAt(s, k) ==
  LET items == Parts(Between(s, 4, k), {"COMMA"})
      opened == [i \in DOMAIN Last(items) |-> Last(items)[i].code]
  IN  /\ \A i \in 1 .. Len(items) - 1 : IsValue(items[i])
      /\ \/ opened = <<>> /\ s[k].code = "SQL_INTEGER_VALUE"
         \/ /\ opened = <<"QUOTATION_MARK">>
            /\ s[k].code \in {"SQL_STRING_VALUE", "SQL_IDENTIFIER", "SQL_IPV4_ADDR_VALUE"}

InsertBegun(s) ==
  LET at == IF IsInsertHead(s) THEN InOrder(s, {k \in 5 .. Len(s) : ValueAt(s, k)}) ELSE <<>>
  IN  [kind |-> "insert", table |-> IF s[2].code = "SQL_IDENTIFIER" THEN s[2].val ELSE "",
       values |-> [i \in DOMAIN at |-> ValueOf(s[at[i]])]]

=============================================================================
