------------------------------- MODULE MCJoin -------------------------------
(***************************************************************************)
(* Bounds for TLC.  Three tables of at most two rows make a middle wheel   *)
(* that is turned by one neighbour and turns the other; two tables of at   *)
(* most three rows let a rejected row lie before, between and behind the   *)
(* rows that pass.                                                         *)
(***************************************************************************)
EXTENDS Join

=============================================================================
