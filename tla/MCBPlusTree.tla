---------------------------- MODULE MCBPlusTree -----------------------------
(***************************************************************************)
(* Bounds for TLC.  Eight keys make trees of three levels, whose leaves    *)
(* split, borrow from each other and merge; with ten keys the inner nodes  *)
(* below the root borrow and merge too.  One key has two records, so that  *)
(* it shows when a record is modified.                                     *)
(***************************************************************************)
EXTENDS BPlusTree

VersionsOfKey == [k \in Keys |-> IF k = 3 /\ Cardinality(Keys) <= 8 THEN {1, 2} ELSE {1}]

(* How the last call ended makes no difference to the next one, unless the *)
(* process is gone.                                                        *)
TreeView == <<tree, key0, result = "aborted">>

=============================================================================
