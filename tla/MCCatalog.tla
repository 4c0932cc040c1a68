----------------------------- MODULE MCCatalog ------------------------------
(***************************************************************************)
(* Bounds for TLC.  Integers of two bytes, doubles of three, strings of    *)
(* two; a byte is 0 or 1.  Two of the three names share their prefix.  The *)
(* tables have keys of one and of two columns, of equal and of mixed       *)
(* types, before and behind other columns and against the order of names;  *)
(* one has no key and one names a column twice.                            *)
(***************************************************************************)
EXTENDS Catalog

PrefixOf == [n \in Names |-> IF n = "customers_2023" THEN "customers_20" ELSE
                             IF n = "customers_2024" THEN "customers_20" ELSE n]

Col(name, dtype, pk) ==
  [name |-> name, dtype |-> dtype, pk |-> pk,
   len |-> CASE dtype = "int" -> 2 [] dtype = "double" -> 3 [] dtype = "string" -> 2]

\* The second column of its key is compared as if it were a string, too.
StringAndInt == {<<Col("b", "string", TRUE), Col("a", "int", TRUE)>>}

SomeCreates ==
  StringAndInt \cup
  {<<Col("a", "int", TRUE), Col("b", "double", TRUE)>>,
   <<Col("b", "int", FALSE), Col("a", "int", TRUE)>>,
   <<Col("a", "double", FALSE)>>,
   <<Col("a", "int", TRUE), Col("a", "int", FALSE)>>}

Ints == {<<0, 0>>, <<1, 0>>, <<0, 1>>}
Doubles == {<<0, 0, 1>>, <<0, 1, 1>>, <<0, 0, 0>>}
Strings == {<<1>>, <<1, 1>>, <<1, 1, 1>>}

Value(dtype, bytes) == [dtype |-> dtype, bytes |-> bytes]
IntValues == {Value("int", b) : b \in Ints}
DoubleValues == {Value("double", b) : b \in Doubles}
StringValues == {Value("string", b) : b \in Strings}

SomeInserts ==
  {<<v>> : v \in IntValues}
    \cup {<<v, w>> : v \in IntValues, w \in IntValues \cup DoubleValues}
    \cup {<<v, w>> : v \in StringValues, w \in IntValues}

\* What was printed last makes no difference to the next statement.
CatalogView == <<catalog, proc>>

=============================================================================
