------------------------------ MODULE MCAvlTree ------------------------------
(* Twelve keys, the fewest with which one removal can rebalance at two levels, *)
(* and a second node with the key of the fifth.                                *)
EXTENDS AvlTree

Nodes == 1 .. 13
KeyOfNode == [x \in Nodes |-> IF x = 13 THEN 5 ELSE x]
=============================================================================
