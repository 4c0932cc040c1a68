----------------------------- MODULE QueryAnswer -----------------------------
(***************************************************************************)
(* What a select over joined tables promises: every combination of rows    *)
(* that the where clause accepts is printed once, the combinations come in *)
(* the order of the tables' keys (the last table of the from clause runs   *)
(* fastest), and the query ends.  Join implements it.                      *)
(***************************************************************************)
EXTENDS Integers, LexOrder

VARIABLES
  table_cnt,  \* number of tables of the from clause
  left,       \* the accepted combinations that are still to be printed
  row_no,     \* how many rows have been printed
  ended       \* the query is over

answerVars == <<table_cnt, left, row_no, ended>>

AnswerInit == row_no = 0 /\ ended = FALSE

PrintLeast ==
  /\ \E c \in left :
        /\ \A d \in left \ {c} : Before(c, d, table_cnt)
        /\ left' = left \ {c}
  /\ row_no' = row_no + 1
  /\ UNCHANGED <<table_cnt, ended>>

End ==
  /\ left = {} /\ ~ended
  /\ ended' = TRUE
  /\ UNCHANGED <<table_cnt, left, row_no>>

AnswerNext == PrintLeast \/ End

AnswerSpec == AnswerInit /\ [][AnswerNext]_answerVars
=============================================================================
