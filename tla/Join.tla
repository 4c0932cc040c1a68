-------------------------------- MODULE Join --------------------------------
(***************************************************************************)
(* The execution of a select (core/qep.c): one cursor per joined table,    *)
(* moved like the wheels of an odometer by table_iterators_first and       *)
(* table_iterators_next, which call themselves from the last table down to *)
(* the first.  A row is its place in its table's key order, 0 the NULL     *)
(* pointer; a combination of rows is a function from the table ids.  One   *)
(* action is one turn of one of the three loops around                     *)
(* BPlusTree_get_next_record, or one return to the caller.                 *)
(*                                                                         *)
(* The expression trees belong to an external library.  What a query does  *)
(* with them is kept as data of the query: the rows of a table that its    *)
(* own tree lets through (pass) and the combinations that the whole where  *)
(* clause accepts (accept).  A per-table tree is the where clause without  *)
(* the operands of the other tables, so accept lies within the product of  *)
(* the pass sets; for a single table only its own tree is asked.           *)
(***************************************************************************)
EXTENDS Integers, FiniteSets, LexOrder

CONSTANTS
  MaxTables,   \* bound on the number of tables of a query
  MaxRows,     \* bound on the number of rows of a table
  MaxCombos    \* bound on the number of combinations the per-table trees let through

ASSUME JoinAssumption == MaxTables \in Nat \ {0} /\ MaxRows \in Nat /\ MaxCombos \in Nat

VARIABLES
  table_cnt,          \* qep->join.table_cnt
  rows,               \* how many records each table holds
  pass,               \* the rows each exptree_per_table lets through
  accept,             \* the combinations the where clause accepts
  cursor,             \* titer's (bpnode, index) of each table, 0 when bpnode is NULL
  rec,                \* joined_row_tmplate.rec_array
  is_join_started,
  is_join_finished,
  phase,              \* which loop runs
  table_id,           \* for which table
  printed,            \* the combinations printed so far
  row_no              \* sql_execute_qep's count of them

query == <<table_cnt, rows, pass, accept>>
joinVars == <<table_cnt, rows, pass, accept, cursor, rec, is_join_started,
          is_join_finished, phase, table_id, printed, row_no>>

Tables == 0 .. table_cnt - 1
LastTable == table_cnt - 1

\* The combinations of rows that every per-table tree lets through.
Combos(n, p) == {c \in [0 .. n - 1 -> 1 .. MaxRows] : \A t \in 0 .. n - 1 : c[t] \in p[t]}

JoinInit ==
  /\ table_cnt \in 1 .. MaxTables
  /\ rows \in [Tables -> 0 .. MaxRows]
  /\ pass \in [Tables -> SUBSET (1 .. MaxRows)]
  /\ \A t \in Tables : pass[t] \subseteq 1 .. rows[t]
  /\ Cardinality(Combos(table_cnt, pass)) <= MaxCombos
  /\ accept \in SUBSET Combos(table_cnt, pass)
  /\ table_cnt = 1 => accept = Combos(table_cnt, pass)
  /\ cursor = [t \in Tables |-> 0]
  /\ rec = [t \in Tables |-> 0]
  /\ is_join_started = FALSE
  /\ is_join_finished = FALSE
  /\ phase = "join"
  /\ table_id = LastTable
  /\ printed = {}
  /\ row_no = 0

-----------------------------------------------------------------------------
(* BPlusTree_get_next_record: the row after the cursor, 0 behind the last  *)
(* one - where the cursor is reset, so that the next call starts again.    *)

NextRow(t) == IF cursor[t] < rows[t] THEN cursor[t] + 1 ELSE 0

\* A variant: the cursor stays on the last record instead of being reset.
FetchKeepsEnd(t) ==
  cursor' = [cursor EXCEPT ![t] = IF NextRow(t) = 0 THEN @ ELSE NextRow(t)]

\* The loop body: move the cursor, store the record and try the table's tree.
Fetch(t) == cursor' = [cursor EXCEPT ![t] = NextRow(t)]
Store(t) == rec' = [rec EXCEPT ![t] = NextRow(t)]

Skips(t) == NextRow(t) # 0 /\ NextRow(t) \notin pass[t]
Finds(t) == NextRow(t) \in pass[t]
Fails(t) == NextRow(t) = 0

Goto(loop, t) == phase' = loop /\ table_id' = t

\* One turn that reads a row the table's own tree rejects.
SkipRow(loop) ==
  /\ phase = loop /\ table_id \in Tables
  /\ Skips(table_id)
  /\ Fetch(table_id) /\ Store(table_id)
  /\ UNCHANGED <<query, is_join_started, is_join_finished, phase, table_id, printed, row_no>>

-----------------------------------------------------------------------------
(* qep_execute_join, called by the loop of sql_execute_qep.                *)

StartJoin ==
  /\ phase = "join" /\ ~is_join_started
  /\ Goto("first", LastTable)
  /\ UNCHANGED <<query, cursor, rec, is_join_started, is_join_finished, printed, row_no>>

\* A variant: the first table is the one that runs fastest.
ContinueAtFirstTable ==
  /\ phase = "join" /\ is_join_started
  /\ Goto("next", 0)
  /\ UNCHANGED <<query, cursor, rec, is_join_started, is_join_finished, printed, row_no>>

ContinueJoin ==
  /\ phase = "join" /\ is_join_started
  /\ Goto("next", LastTable)
  /\ UNCHANGED <<query, cursor, rec, is_join_started, is_join_finished, printed, row_no>>

\* table_iterators_first: put the cursor on the first row that passes, then the table before.
FirstSkips == SkipRow("first")

FirstFinds ==
  /\ phase = "first" /\ table_id \in Tables
  /\ Finds(table_id)
  /\ Fetch(table_id) /\ Store(table_id)
  /\ Goto("first", table_id - 1)
  /\ UNCHANGED <<query, is_join_started, is_join_finished, printed, row_no>>

\* No row passes: "No need to scan further".
FirstFails ==
  /\ phase = "first" /\ table_id \in Tables
  /\ Fails(table_id)
  /\ Fetch(table_id)
  /\ is_join_finished' = TRUE
  /\ is_join_started' = TRUE
  /\ Goto("done", table_id)
  /\ UNCHANGED <<query, rec, printed, row_no>>

FirstReturns ==
  /\ phase = "first" /\ table_id = -1
  /\ is_join_started' = TRUE
  /\ Goto("deliver", LastTable)
  /\ UNCHANGED <<query, cursor, rec, is_join_finished, printed, row_no>>

-----------------------------------------------------------------------------
(* table_iterators_next: the next row of the table; when it has none, the  *)
(* next row of the table before, and this table from its start again.      *)

NextSkips == SkipRow("next")

\* The call returns; its caller, if it is this function, goes on with the table after.
NextFinds ==
  /\ phase = "next" /\ table_id \in Tables
  /\ Finds(table_id)
  /\ Fetch(table_id) /\ Store(table_id)
  /\ Goto("again", table_id + 1)
  /\ UNCHANGED <<query, is_join_started, is_join_finished, printed, row_no>>

NextFails ==
  /\ phase = "next" /\ table_id \in Tables \ {0}
  /\ Fails(table_id)
  /\ Fetch(table_id) /\ Store(table_id)
  /\ Goto("next", table_id - 1)
  /\ UNCHANGED <<query, is_join_started, is_join_finished, printed, row_no>>

\* A variant: the end of the first table is not recorded.
FirstTableWraps ==
  /\ phase = "next" /\ table_id = 0
  /\ Fails(0)
  /\ Fetch(0) /\ Store(0)
  /\ Goto("again", 1)
  /\ UNCHANGED <<query, is_join_started, is_join_finished, printed, row_no>>

\* The first table is at its end: the call for table -1 returns at once.
FirstTableEnds ==
  /\ phase = "next" /\ table_id = 0
  /\ Fails(0)
  /\ Fetch(0) /\ Store(0)
  /\ is_join_finished' = TRUE
  /\ Goto("again", 1)
  /\ UNCHANGED <<query, is_join_started, printed, row_no>>

\* The table before found no row: "abort the iteration".
AgainAborts ==
  /\ phase = "again" /\ table_id \in Tables
  /\ rec[table_id - 1] = 0
  /\ Goto("again", table_id + 1)
  /\ UNCHANGED <<query, cursor, rec, is_join_started, is_join_finished, printed, row_no>>

AgainSkips ==
  /\ phase = "again" /\ table_id \in Tables
  /\ rec[table_id - 1] # 0
  /\ SkipRow("again")

\* A variant: the table is not started again after the one before it has moved.
AgainLeavesNull ==
  /\ phase = "again" /\ table_id \in Tables
  /\ rec[table_id - 1] # 0
  /\ Goto("again", table_id + 1)
  /\ UNCHANGED <<query, cursor, rec, is_join_started, is_join_finished, printed, row_no>>

AgainEnds ==
  /\ phase = "again" /\ table_id \in Tables
  /\ rec[table_id - 1] # 0
  /\ Finds(table_id) \/ Fails(table_id)
  /\ Fetch(table_id) /\ Store(table_id)
  /\ Goto("again", table_id + 1)
  /\ UNCHANGED <<query, is_join_started, is_join_finished, printed, row_no>>

\* Every call has returned to qep_execute_join.
NextReturns ==
  /\ phase = "again" /\ table_id = table_cnt
  /\ Goto(IF is_join_finished THEN "done" ELSE "deliver", LastTable)
  /\ UNCHANGED <<query, cursor, rec, is_join_started, is_join_finished, printed, row_no>>

-----------------------------------------------------------------------------
(* The body of sql_execute_qep's loop: with more than one table the whole  *)
(* where clause is evaluated, and the row is printed.                      *)

Rejected == table_cnt > 1 /\ rec \notin accept

\* A variant: a rejected combination ends the query (break for continue).
PassOverStops ==
  /\ phase = "deliver" /\ Rejected
  /\ Goto("done", LastTable)
  /\ UNCHANGED <<query, cursor, rec, is_join_started, is_join_finished, printed, row_no>>

PassOver ==
  /\ phase = "deliver" /\ Rejected
  /\ Goto("join", LastTable)
  /\ UNCHANGED <<query, cursor, rec, is_join_started, is_join_finished, printed, row_no>>

EmitRow ==
  /\ phase = "deliver" /\ ~Rejected
  /\ printed' = printed \cup {rec}
  /\ row_no' = row_no + 1
  /\ Goto("join", LastTable)
  /\ UNCHANGED <<query, cursor, rec, is_join_started, is_join_finished>>

JoinNext ==
  \/ StartJoin \/ ContinueJoin
  \/ FirstSkips \/ FirstFinds \/ FirstFails \/ FirstReturns
  \/ NextSkips \/ NextFinds \/ NextFails \/ FirstTableEnds
  \/ AgainAborts \/ AgainSkips \/ AgainEnds \/ NextReturns
  \/ PassOver \/ EmitRow

JoinSpec == JoinInit /\ [][JoinNext]_joinVars

\* The query is executed by one thread that never waits, so it takes its next step.
FairJoinSpec == JoinSpec /\ WF_joinVars(JoinNext)

-----------------------------------------------------------------------------
Answer == INSTANCE QueryAnswer
            WITH left <- accept \ printed, ended <- phase = "done"

\* c lies before the odometer's reading in the first n tables, or agrees with it there.
UpTo(c, n) == Before(c, cursor, n) \/ Same(c, cursor, n)

JoinTypeOK ==
  /\ table_cnt \in 1 .. MaxTables
  /\ rows \in [Tables -> 0 .. MaxRows]
  /\ pass \in [Tables -> SUBSET (1 .. MaxRows)]
  /\ accept \in SUBSET Combos(table_cnt, pass)
  /\ cursor \in [Tables -> 0 .. MaxRows]
  /\ rec \in [Tables -> 0 .. MaxRows]
  /\ is_join_started \in BOOLEAN
  /\ is_join_finished \in BOOLEAN
  /\ phase \in {"join", "first", "next", "again", "deliver", "done"}
  /\ table_id \in -1 .. table_cnt
  /\ printed \in SUBSET Combos(table_cnt, pass)
  /\ row_no \in Nat

(* A joined row that is handed to the where clause and the select columns  *)
(* has a record of every table, one that the table's own tree lets         *)
(* through: no wheel is left on the NULL that its last turn ended with.    *)
RowIsComplete == phase = "deliver" => \A t \in Tables : rec[t] \in pass[t]

(* Between two calls of qep_execute_join exactly the accepted combinations *)
(* up to the odometer's reading have been printed: the wheels' turning     *)
(* back skips none and visits none twice.                                  *)
NothingSkipped ==
  phase = "join" => printed = IF is_join_started THEN {c \in accept : UpTo(c, table_cnt)} ELSE {}

(* When qep_execute_join says that there are no more rows, the whole       *)
(* answer has been printed, each row once.                                 *)
AnswerIsWhole == phase = "done" => printed = accept /\ row_no = Cardinality(accept)

\* The answer comes in key order, each row once, and the query ends only behind its last row.
ImplementsAnswer == Answer!AnswerSpec

\* However the cursors wrap around, every query ends.
QueryEnds == <>(phase = "done")

-----------------------------------------------------------------------------
(* What holds in each loop.  The tables before table_id show a row that    *)
(* passes, those behind it are reset (in table_iterators_first: the other  *)
(* way round), and printed is the accepted combinations up to the wheel    *)
(* that is turning.                                                        *)

Shown(t) == rec[t] = cursor[t] /\ cursor[t] \in pass[t]
Reset(t) == rec[t] = 0 /\ cursor[t] = 0
Unpassed(t) == \A r \in pass[t] : r > cursor[t]
AtLeast(t) == \A r \in pass[t] : r >= cursor[t]

AtStart ==
  /\ ~is_join_started /\ ~is_join_finished
  /\ printed = {}
  /\ table_id = LastTable
  /\ \A t \in Tables : Reset(t)

AtRow ==
  /\ is_join_started /\ ~is_join_finished
  /\ printed = {c \in accept : UpTo(c, table_cnt)}
  /\ table_id = LastTable
  /\ \A t \in Tables : Shown(t)

InFirst ==
  /\ ~is_join_started /\ ~is_join_finished
  /\ printed = {}
  /\ table_id \in -1 .. LastTable
  /\ \A t \in Tables : t > table_id => Shown(t) /\ AtLeast(t)
  /\ \A t \in Tables : t = table_id => Unpassed(t)
  /\ \A t \in Tables : t < table_id => Reset(t)

InNext ==
  /\ is_join_started /\ ~is_join_finished
  /\ printed = {c \in accept : UpTo(c, table_id + 1)}
  /\ table_id \in Tables
  /\ \A t \in Tables : t < table_id => Shown(t)
  /\ \A t \in Tables : t > table_id => Reset(t)
  /\ \A t \in Tables : pass[t] # {}

InAgain ==
  /\ is_join_started /\ ~is_join_finished
  /\ printed = {c \in accept : Before(c, cursor, table_id)}
  /\ table_id \in 1 .. table_cnt
  /\ \A t \in Tables : t < table_id => Shown(t)
  /\ \A t \in Tables : t = table_id => Unpassed(t)
  /\ \A t \in Tables : t > table_id => Reset(t)
  /\ \A t \in Tables : pass[t] # {}

Unwinding ==
  /\ is_join_started /\ is_join_finished
  /\ printed = accept
  /\ table_id \in 1 .. table_cnt
  /\ \A t \in Tables : rec[t] = 0

AtDelivery ==
  /\ is_join_started /\ ~is_join_finished
  /\ printed = {c \in accept : Before(c, cursor, table_cnt)}
  /\ \A t \in Tables : Shown(t)

QueryData ==
  /\ \A t \in Tables : pass[t] \subseteq 1 .. rows[t]
  /\ table_cnt = 1 => accept = Combos(table_cnt, pass)

\* The inductive invariant.
JoinIInv ==
  /\ JoinTypeOK
  /\ QueryData
  /\ IsFiniteSet(printed) /\ row_no = Cardinality(printed)
  /\ phase = "join" => AtStart \/ AtRow
  /\ phase = "first" => InFirst
  /\ phase = "next" => InNext
  /\ phase = "again" => InAgain \/ Unwinding
  /\ phase = "deliver" => AtDelivery
  /\ phase = "done" => printed = accept
=============================================================================
