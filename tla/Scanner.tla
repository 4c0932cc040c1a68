------------------------------ MODULE Scanner -------------------------------
(***************************************************************************)
(* The scanner under the parsers (SqlParser/Parser.l): flex on a copy of   *)
(* the line, curr_ptr into the line, and the undo stack that lets a parser *)
(* take back the tokens it has read.                                       *)
(*                                                                         *)
(* The regular expressions are flex's work.  lex_buffer[p + 1] is what     *)
(* flex finds when it starts at character p: a lexeme where one begins,    *)
(* and in the middle of one what is left of it, which is an identifier.    *)
(* Behind the line is the end of flex's buffer.                            *)
(***************************************************************************)
EXTENDS Integers, Sequences, SequencesExt

VARIABLE lex_buffer

\* What is typed is a sequence of lexemes [code, val, len].
Lexeme(code, val, len) == [code |-> code, val |-> val, len |-> len]

Blank == Lexeme("PARSER_WHITE_SPACE", " ", 1)
Tab   == Lexeme("PARSER_WHITE_SPACE", "\t", 1)
Other == Lexeme("none", ";", 1)

StartingAt(x, i) ==
  [code |-> IF i = 1 THEN x.code ELSE "SQL_IDENTIFIER",
   val |-> IF i = 1 THEN x.val ELSE "rest", len |-> x.len - i + 1, whole |-> i = 1]

Buffer(line) == FlattenSeq([k \in DOMAIN line |-> [i \in 1 .. line[k].len |-> StartingAt(line[k], i)]])

\* The lexemes of the line in lex_buffer.
Typed == SelectSeq(lex_buffer, LAMBDA x : x.whole)

(***************************************************************************)
(* The scanner's part of a parser's state is in four fields: pos, where    *)
(* flex is; ptr, the offset of curr_ptr; stack, the entries of undo_stack, *)
(* white space among them with the code 0; and tok, the last token.        *)
(***************************************************************************)
ScannerAtStart == [pos |-> 0, ptr |-> 0, stack |-> <<>>]

lex_push(st, lex_data) == [st EXCEPT !.stack = Append(@, lex_data)]

process_white_space(st, n) == lex_push([st EXCEPT !.ptr = @ + n], Lexeme("0", "", n))

WhiteSpaceLength(x) == IF x.val = "\t" THEN 4 ELSE 1

EndOfBuffer == Lexeme("YY_NULL", "", 1)
At(p) == IF p < Len(lex_buffer) THEN lex_buffer[p + 1] ELSE EndOfBuffer

(* Wrong yylex: white space is not entered in the stack. *)
RECURSIVE yylexUnrecorded(_)
yylexUnrecorded(st) ==
  LET x == At(st.pos)
      moved == [st EXCEPT !.pos = @ + x.len]
  IN  IF x.code = "PARSER_WHITE_SPACE"
        THEN yylexUnrecorded([moved EXCEPT !.ptr = @ + WhiteSpaceLength(x)])
      ELSE IF x.code = "none" THEN yylexUnrecorded(moved)
      ELSE [moved EXCEPT !.tok = x]

(* White space is recorded and skipped; any other character that begins no *)
(* token is skipped by flex alone, and curr_ptr stays.                     *)
RECURSIVE yylex(_)
yylex(st) ==
  LET x == At(st.pos)
      moved == [st EXCEPT !.pos = @ + x.len]
  IN  IF x.code = "PARSER_WHITE_SPACE"
        THEN yylex(process_white_space(moved, WhiteSpaceLength(x)))
      ELSE IF x.code = "none" THEN yylex(moved)
      ELSE [moved EXCEPT !.tok = x]

Counted(t) == lex_push([t EXCEPT !.ptr = @ + t.tok.len], t.tok)
cyylex(st) == Counted(yylex(st))

\* token_len of a number of entries, summed up.
Length(entries) == FoldLeft(LAMBDA n, lex_data : n + lex_data.len, 0, entries)

(* Wrong yyrewind: flex goes on where it is.                               *)
yyrewindWithoutScan(st, n) ==
  IF n <= 0 \/ st.ptr = 0 THEN st
  ELSE LET kept == Len(st.stack) - n
       IN  [st EXCEPT !.stack = SubSeq(@, 1, kept),
                      !.ptr = st.ptr - Length(SubSeq(st.stack, kept + 1, Len(st.stack)))]

\* The last n entries are popped, and flex starts again where curr_ptr is then.
yyrewind(st, n) ==
  IF n <= 0 \/ st.ptr = 0 THEN st
  ELSE LET kept == Len(st.stack) - n
           ptr  == st.ptr - Length(SubSeq(st.stack, kept + 1, Len(st.stack)))
       IN  [st EXCEPT !.stack = SubSeq(@, 1, kept), !.ptr = ptr, !.pos = ptr]

Parser_stack_reset(st) == [st EXCEPT !.stack = <<>>, !.ptr = 0]

=============================================================================
