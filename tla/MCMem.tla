------------------------------- MODULE MCMem -------------------------------
(***************************************************************************)
(* Bounds for TLC.  A file of two data pages, each with room for two       *)
(* blocks: the list is shared, a page can become empty while the other     *)
(* one has free blocks and while it has none, and the file can be full.    *)
(* Of the sizes one leaves room for a second block, one fills a page, and  *)
(* one fits in no page.                                                    *)
(***************************************************************************)
EXTENDS Mem

=============================================================================
