-------------------------- MODULE RecursiveDescent --------------------------
(***************************************************************************)
(* What all parsers of the repository are written with.  A nonterminal is  *)
(* an operator from the state of the parser to the state of the parser;    *)
(* the field rc says how it has ended.                                     *)
(***************************************************************************)
EXTENDS Scanner

(* parse_init, RETURN_PARSE_SUCCESS, RETURN_PARSE_ERROR.  A parser that    *)
(* fails takes back what it has read since its checkpoint.                 *)

Success(s) == [s EXCEPT !.rc = "PARSE_SUCCESS"]
Fail(s) == [s EXCEPT !.rc = "PARSE_ERR"]
Failed(s) == s.rc = "PARSE_ERR"

Checkpoint(s) == Len(s.stack)
Ended(r, lchkp) == IF Failed(r) THEN yyrewind(r, Len(r.stack) - lchkp) ELSE r

\* next, unless something has failed before.
Then(s, next(_)) == IF Failed(s) THEN s ELSE next(s)

Is(s, code) == s.tok.code = code
Demand(s, holds) == IF holds THEN Success(s) ELSE Fail(s)

Token(s, codes) == LET t == cyylex(s) IN Demand(t, t.tok.code \in codes)

\* One token after the other, until one is not as expected; got are those that are.
Got(t) == IF Failed(t) THEN t ELSE [t EXCEPT !.got = Append(@, t.tok)]
Expect(s, codes) ==
  FoldLeft(LAMBDA r, c : Then(r, LAMBDA u : Got(Token(u, {c}))), Success([s EXCEPT !.got = <<>>]), codes)

\* After an item of a list, the last token is a comma and the list goes on, or it ends.
More(s, comma, list(_)) == IF Is(s, comma) THEN list(s) ELSE yyrewind(s, 1)

=============================================================================
