------------------------------ MODULE LexOrder ------------------------------
(***************************************************************************)
(* The order in which nested loops run through combinations of rows: two   *)
(* functions on 0 .. n - 1 are compared at the first place they differ.    *)
(***************************************************************************)
EXTENDS Integers

\* c and d agree on their first n places.
Same(c, d, n) == \A s \in 0 .. n - 1 : c[s] = d[s]

\* c comes before d when only the first n places are looked at.
Before(c, d, n) == \E t \in 0 .. n - 1 : c[t] < d[t] /\ Same(c, d, t)
=============================================================================
