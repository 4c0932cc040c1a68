-------------------------- MODULE MCLegacyParsers ---------------------------
(***************************************************************************)
(* Bounds for TLC.  The lines are: all expressions of three operands with  *)
(* every pair of operators and every place of the brackets; some deeper    *)
(* ones; a few statements; and of the latter two every line with one       *)
(* lexeme left out, replaced or put in, with one or two blanks between the *)
(* lexemes or with those only that divide two words.  Without blanks a     *)
(* minus before a number is its sign.  A stack has 64 slots and the line   *)
(* 128 characters, in the proportion of the program.                       *)
(***************************************************************************)
EXTENDS LegacyParsers

\* Arithmetic modulo seven, with every operation different from all the others.
Power(a, n) == FoldLeft(LAMBDA p, i : (p * a) % 7, 1, [i \in 1 .. n |-> i])
MCComputed(op, a, b) ==
  CASE op = "SQL_MATH_PLUS"  -> (a + b) % 7
    [] op = "SQL_MATH_MINUS" -> (a - b) % 7
    [] op = "SQL_MATH_MUL"   -> (a * b) % 7
    [] op = "SQL_MATH_DIV"   -> (a * Power(b, 5)) % 7
    [] op = "SQL_MATH_POW"   -> Power(a, b)
    [] op = "SQL_MATH_SIN"   -> (3 * a + 1) % 7
    [] op = "SQL_MATH_SQRT"  -> (5 * a + 2) % 7

MCatoi(v) ==
  CASE v = "2" -> 2 [] v = "3" -> 3 [] v = "5" -> 5 [] v = "0" -> 0 [] v = "300" -> 300
    [] v = "-2" -> -2 [] v = "-3" -> -3 [] v = "-5" -> -5

X(code, val, len) == Lexeme(code, val, len)
Id(name, len) == X("SQL_IDENTIFIER", name, len)
Num(v) == X("SQL_INTEGER_VALUE", v, IF v = "300" THEN 3 ELSE 1)

Two == Num("2")   Three == Num("3")   Five == Num("5")   Zero == Num("0")   Large == Num("300")
Open == X("BRACK_START", "(", 1)
Close == X("BRACK_END", ")", 1)
Comma == X("COMMA", ",", 1)
Plus == X("SQL_MATH_PLUS", "+", 1)
Minus == X("SQL_MATH_MINUS", "-", 1)
Mul == X("SQL_MATH_MUL", "*", 1)
Div == X("SQL_MATH_DIV", "/", 1)
Sqr == X("SQL_MATH_SQR", "sqr", 3)
Sin == X("SQL_MATH_SIN", "sin", 3)
Sqrt == X("SQL_MATH_SQRT", "sqrt", 4)
Mmax == X("SQL_MATH_MAX", "mmax", 4)
Mmin == X("SQL_MATH_MIN", "mmin", 4)
Pow == X("SQL_MATH_POW", "pow", 3)
Less == X("SQL_LESS_THAN", "<", 1)
Equal == X("SQL_EQ", "=", 1)
Eol == X("EOL", "\n", 1)
a == Id("a", 1)
b == Id("b", 1)
t == Id("t", 1)
Select == X("SQL_SELECT_Q", "select", 6)
From == X("SQL_FROM", "from", 4)
Where == X("SQL_WHERE", "where", 5)
GroupBy == X("SQL_GROUP_BY", "group by", 8)
Having == X("SQL_HAVING", "having", 6)
OrderBy == X("SQL_ORDER_BY", "order by", 8)
Asc == X("SQL_ORDERBY_ASC", "asc", 3)
Limit == X("SQL_LIMIT", "limit", 5)
And == X("SQL_AND", "and", 3)
As == X("SQL_AS", "as", 2)
Semi == X("SEMI_COLON", ";", 1)
Create == X("SQL_CREATE_Q", "create table", 12)
IntType == X("SQL_INT", "int", 3)
VarcharType == X("SQL_STRING", "varchar", 7)
Key == X("SQL_PRIMARY_KEY", "primary key", 11)
NotNullKey == X("SQL_NOT_NULL", "not null", 8)
Insert == X("SQL_INSERT_Q", "insert into", 11)
Values == Id("values", 6)
Quote == X("QUOTATION_MARK", "'", 1)
Double == X("SQL_DOUBLE_VALUE", "2", 3)

Operators == {Plus, Minus, Mul, Div}

OfThree ==
  UNION {{<<x, o, y, p, z>>, <<Open, x, o, y, Close, p, z>>, <<x, o, Open, y, p, z, Close>>} :
           o, p \in Operators, x, y, z \in {Two, Three, Five}}

Deeper == {
  <<Mmax, Open, Sqr, Open, Two, Close, Comma, Sqrt, Open, Five, Close, Close, Plus, Three>>,
  <<Two, Minus, Pow, Open, Three, Minus, Two, Comma, Mmin, Open, Five, Comma, Two, Close, Close, Div, Five>>,
  <<Sin, Open, Sqr, Open, Two, Plus, Three, Close, Mul, Mmax, Open, Two, Comma, Five, Close, Close>>,
  <<Two, Div, Open, Three, Minus, Open, Two, Plus, Five, Mul, Three, Close, Close>>,
  <<Five, Minus, Two, Div, Open, Three, Minus, Three, Close>>,
  <<Two, Mul, Minus, Three, Minus, Minus, Five>>,
  <<Five, Minus, Two>>,
  <<a, Plus, Two>>}

\* As many brackets as a line holds.
Brackets(n) == [i \in 1 .. n |-> Open] \o <<Two>> \o [i \in 1 .. n |-> Close]

Statements == {
  <<Select, a, Mul, Two, As, b, Comma, Mmax, Open, a, Comma, Two, Close, From, t, As, b, Comma, a, Semi>>,
  <<Select, a, From, t, Where, Open, a, Less, Two, Close, And, Open, a, Close, Equal, b, Semi>>,
  <<Select, a, From, t, GroupBy, a, Comma, b, Having, a, Less, Two, And, b, Equal, a, OrderBy, a, Asc,
    Limit, Two, Semi>>,
  <<Create, t, Open, a, IntType, Key, Comma, b, VarcharType, Open, Five, Close, Close>>,
  <<Create, t, Open, Open, a, IntType, NotNullKey, Close, Comma, b, IntType, Close>>,
  <<Create, t, Open, a, IntType, Open, b, VarcharType, Open, Large, Close, Close, Close>>,
  <<Create, t, Open, a, IntType, Open, b, VarcharType, Open, Five, Close, Key, Close, Close>>,
  <<Insert, t, Values, Open, Two, Comma, Quote, a, Quote, Comma, Five, Close>>}

Alphabet == {Two, a, Open, Close, Comma, Plus, Div, Sqr, Mmax, Less, Where, And, As, Semi, IntType, Key,
             NotNullKey, VarcharType, Quote, Double, From, Having}
ExpressionAlphabet == {Two, a, Zero, Minus, Open, Close, Comma, Plus, Mul, Sqr, Mmax, Less}

Changed(s, alphabet) ==
  {s} \cup {[s EXCEPT ![k] = x] : k \in DOMAIN s, x \in alphabet}
      \cup {InsertAt(s, k, x) : k \in 1 .. Len(s) + 1, x \in alphabet}
      \cup {RemoveAt(s, k) : k \in DOMAIN s}

Blanks(n) == [i \in 1 .. n |-> Blank]
Words(x, y) == {x.code, y.code} \cap Symbols = {}
Spaces(s, k, n) == IF k = 1 THEN 0 ELSE IF n = 0 /\ Words(s[k - 1], s[k]) THEN 1 ELSE n
Spaced(s, n) == FlattenSeq([k \in DOMAIN s |-> Blanks(Spaces(s, k, n)) \o <<s[k]>>]) \o <<Eol>>

EmptyLines == {<<Eol>>, <<Blank, Eol>>}

ExpressionLines ==
  {Spaced(s, n) : s \in OfThree, n \in {0, 1}} \cup {Spaced(Brackets(n), 0) : n \in {1, 62}}
    \cup {Spaced(s, n) : s \in UNION {Changed(e, ExpressionAlphabet) : e \in Deeper}, n \in {0, 2}}
    \cup {<<Tab, Two, Eol>>} \cup EmptyLines

StatementLines ==
  {Spaced(s, n) : s \in UNION {Changed(e, Alphabet) : e \in Statements}, n \in {0, 1}}
    \cup {<<Blank>> \o Spaced(s, 0) : s \in Statements}
    \cup {<<X("QUIT", "\\q", 2), Eol>>, <<a, Eol>>} \cup EmptyLines

MCLines == [commands |-> StatementLines, expression |-> ExpressionLines]

=============================================================================
