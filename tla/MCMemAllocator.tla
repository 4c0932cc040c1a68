--------------------------- MODULE MCMemAllocator ---------------------------
(***************************************************************************)
(* Bounds for TLC.  In a page of ten units four blocks lie side by side, a *)
(* block, its neighbours and one behind them; the remainders of requests   *)
(* for 0 and 3 units are smaller than a header, as large and larger.       *)
(***************************************************************************)
EXTENDS MemAllocator

=============================================================================
