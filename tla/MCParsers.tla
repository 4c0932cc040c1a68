----------------------------- MODULE MCParsers ------------------------------
(***************************************************************************)
(* Bounds for TLC.  The lines are ten statements, and each of them with    *)
(* one lexeme left out, replaced or put in at every place, all of it with  *)
(* up to three blanks between the lexemes: as many as the longest sequence *)
(* of tokens that a parser takes back and counts as entries.               *)
(***************************************************************************)
EXTENDS Parsers

T(code, val, len) == Lexeme(code, val, len)
Id(name, len) == Lexeme("SQL_IDENTIFIER", name, len)

Select == T("SQL_SELECT_Q", "select", 6)
Create == T("SQL_CREATE_Q", "create", 6)
Insert == T("SQL_INSERT_Q", "insert into", 11)
From == T("SQL_FROM", "from", 4)
Where == T("SQL_WHERE", "where", 5)
As == T("SQL_AS", "as", 2)
Key == T("SQL_PRIMARY_KEY", "primary key", 11)
Varchar == T("SQL_STRING", "varchar", 7)
IntType == T("SQL_INT", "int", 3)
Open == T("SQL_BRACKET_START", "(", 1)
Close == T("SQL_BRACKET_END", ")", 1)
Comma == T("SQL_COMMA", ",", 1)
Star == T("SQL_MATH_MUL", "*", 1)
Eq == T("SQL_EQ", "=", 1)
Nine == T("SQL_INTEGER_VALUE", "9", 1)
Word == T("SQL_STRING_VALUE", "'s'", 3)
LongWord == T("SQL_STRING_VALUE", "'ss'", 4)
Sum == T("SQL_SUM", "sum", 3)
Eol == T("PARSER_EOL", "\n", 1)
T1 == Id("T1", 2)
T2 == Id("T2", 2)
a == Id("a", 1)
b == Id("b", 1)
table == Id("table", 5)
values == Id("values", 6)

Sentences == {
  <<Select, a, From, T1, Eol>>,
  <<Select, Star, From, T1, As, a, Comma, T2, Eol>>,
  <<Select, a, As, b, Comma, b, From, T1, Where, a, Eq, Nine, Eol>>,
  <<Select, Sum, Open, a, Close, As, b, Comma, b, Comma, a, From, T2, Comma, T1, Eol>>,
  <<Create, table, T1, Open, a, IntType, Close, Eol>>,
  <<Create, table, T1, Open, a, IntType, Key, Comma, b, Varchar, Open, Nine, Close, Close, Eol>>,
  <<Insert, T1, values, Open, Nine, Close, Eol>>,
  <<Insert, T1, values, Open, Word, Comma, Nine, Close, Eol>>,
  <<Insert, T1, values, Open, Nine, Comma, Nine, Comma, Nine, Close, Eol>>,
  <<Create, table, T1, Open, a, IntType, Comma, b, IntType, Comma, T2, IntType, Key, Close, Eol>>}

Alphabet == {Select, From, Where, As, Key, Varchar, IntType, Open, Close, Comma, Star, Eq, Nine, Word,
             LongWord, Sum, T1, a, table, values}

\* The end of the line stays where it is.
Replaced(s) == {[s EXCEPT ![k] = x] : k \in 1 .. Len(s) - 1, x \in Alphabet}
PutIn(s) == {InsertAt(s, k, x) : k \in DOMAIN s, x \in Alphabet}
LeftOut(s) == {RemoveAt(s, k) : k \in 1 .. Len(s) - 1}

\* Four lexemes put in at once: a type begun and not finished.
Begun(s) == {SubSeq(s, 1, k) \o SubSeq(<<Varchar, Open, Nine>>, 1, j) \o SubSeq(s, k + 1, Len(s)) :
               k \in 1 .. Len(s) - 1, j \in 2 .. 3}

IsWord(x) == x.code \notin {"SQL_BRACKET_START", "SQL_BRACKET_END", "SQL_COMMA", "SQL_MATH_MUL",
                            "SQL_EQ", "PARSER_EOL", "SQL_STRING_VALUE"}

Blanks(n) == [i \in 1 .. n |-> Blank]

\* Words need a blank between them.
Spaced(s, n) ==
  FlattenSeq([k \in DOMAIN s |->
    IF k = 1 THEN <<s[k]>>
    ELSE Blanks(IF n = 0 /\ IsWord(s[k - 1]) /\ IsWord(s[k]) THEN 1 ELSE n) \o <<s[k]>>])

MCTokens == UNION {{s} \cup Replaced(s) \cup PutIn(s) \cup LeftOut(s) \cup Begun(s) : s \in Sentences}

(* A character that begins no token put in anywhere, and a tab, where the  *)
(* characters that are lost to it are not the end of the line.             *)
Odd(s) ==
  LET tight == Spaced(s, 0)
      tabs  == 1 .. IF s[1] = Select /\ s[2] # Star THEN 4 ELSE 1
  IN  {InsertAt(tight, k, Other) : k \in DOMAIN tight} \cup {InsertAt(Spaced(s, 1), k, Tab) : k \in tabs}

MCLines ==
  {Spaced(s, n) : s \in MCTokens, n \in 0 .. 3}
    \cup UNION {Odd(s) : s \in Sentences}
    \cup {<<Eol>>, <<Blank, Eol>>, <<a, Eol>>, <<T("PARSER_QUIT", "\\q", 2), Eol>>,
          <<T("SHOW_DB_TABLES", "\\dt\n", 4)>>}

=============================================================================
