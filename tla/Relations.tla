----------------------------- MODULE Relations ------------------------------
(***************************************************************************)
(* What the SQL program promises of its tables.  A statement reaches the   *)
(* table that it names and no other: a table is created once, rows are     *)
(* added one at a time, no two of them with the same values in the primary *)
(* key, and what is answered is what was done.  Two limits of the program  *)
(* are part of the promise, since nothing in it says otherwise.  A name    *)
(* is known by the first of its characters only (Id).  And the name of a   *)
(* create that is refused for want of a primary key is taken from then on  *)
(* by a table that is not there; a statement that reaches it ends the      *)
(* program.  Nothing is kept on disk: when it ends, everything is gone.    *)
(***************************************************************************)
EXTENDS Integers

CONSTANTS
  Named,   \* the names that statements use
  Id       \* Id[n]: what the program knows the name n by

VARIABLES
  tables,     \* from Id of their names to [key: its columns, rows]
  statement,  \* [verb, table]: the last statement
  reply,      \* how it was answered
  proc        \* "running", or "aborted"

relVars == <<tables, statement, reply, proc>>

NoTables == [i \in {} |-> 0]

\* All there is of a table whose create was refused after its name was taken.
HalfMade == [key |-> {}, rows |-> {}]

Known(n) == Id[n] \in DOMAIN tables

RelInit == tables = NoTables /\ proc = "running"

Asks(verb, n) == statement' = [verb |-> verb, table |-> n]

Answers(r) == proc = "running" /\ reply' = r /\ UNCHANGED proc

Refuses(r) == Answers(r) /\ UNCHANGED tables

\* One table more; the others are what they were.
NewTable(n) ==
  /\ ~Known(n)
  /\ DOMAIN tables' = DOMAIN tables \cup {Id[n]}
  /\ \A i \in DOMAIN tables : tables'[i] = tables[i]

CreateRelation(n) ==
  /\ Answers("CREATE TABLE")
  /\ NewTable(n)
  /\ tables'[Id[n]].rows = {} /\ tables'[Id[n]].key # {}

TakeName(n) ==
  /\ Answers("Table Must have atleast one primary key")
  /\ NewTable(n)
  /\ tables'[Id[n]] = HalfMade

AddRow(n) ==
  /\ Answers("INSERT 0 1")
  /\ Known(n) /\ tables[Id[n]].key # {}
  /\ \E row \in tables'[Id[n]].rows :
       /\ \A r \in tables[Id[n]].rows : \E c \in tables[Id[n]].key : r[c] # row[c]
       /\ tables' = [tables EXCEPT ![Id[n]].rows = @ \cup {row}]

\* The program ends, and with it every table.
LoseAll == proc = "running" /\ proc' = "aborted" /\ tables' = NoTables

Create(n) ==
  \/ CreateRelation(n)
  \/ TakeName(n)
  \/ Known(n) /\ Refuses("Table Already Exist")
  \/ ~Known(n) /\ LoseAll

Insert(n) ==
  \/ AddRow(n)
  \/ ~Known(n) /\ Refuses("Table not found")
  \/ Known(n) /\ Refuses("Data Type Mis-Match")
  \/ /\ Known(n) /\ tables[Id[n]].rows # {}
     /\ Refuses("duplicate key value violates unique constraint")
  \/ Known(n) /\ tables[Id[n]] = HalfMade /\ LoseAll

\* Of a select only how it ends the program; it changes nothing.
Select(n) == Known(n) /\ tables[Id[n]] = HalfMade /\ LoseAll

List ==
  /\ statement'.verb = "list"
  /\ \/ tables = NoTables /\ Refuses("List of relations")
     \/ tables # NoTables /\ LoseAll

Restart == proc = "aborted" /\ proc' = "running" /\ UNCHANGED <<tables, statement, reply>>

RelNext ==
  \/ \E n \in Named : \/ Asks("create", n) /\ Create(n)
                      \/ Asks("insert", n) /\ Insert(n)
                      \/ Asks("select", n) /\ Select(n)
  \/ List
  \/ Restart

RelSpec == RelInit /\ [][RelNext]_relVars

=============================================================================
