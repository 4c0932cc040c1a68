----------------------------- MODULE PageBlocks -----------------------------
(***************************************************************************)
(* The blocks of one database page, as mem_allocator.cpp lays them out.    *)
(*                                                                         *)
(* A page begins with the page_size field; after it every block is a       *)
(* block_meta_data_t followed by the block's bytes.  A chain is the list   *)
(* of the page's blocks: a function from the offset of a block's meta data *)
(* (from the start of the page) to its fields.  Meta data that was merged  *)
(* away stays in the page as garbage; it is not in the chain's DOMAIN.     *)
(* The glue that threads free blocks is modelled in FreeList.              *)
(***************************************************************************)
EXTENDS Integers

CONSTANTS
  DB_PAGE_DEF_SIZE,  (* bytes in a page                                    *)
  PageHdrSize,       (* sizeof the page_size field: the first block's offset *)
  MetaSize           (* sizeof (block_meta_data_t)                         *)

ASSUME PageLayout ==
  /\ DB_PAGE_DEF_SIZE \in Nat
  /\ PageHdrSize \in Nat
  /\ MetaSize \in Nat \ {0}
  /\ PageHdrSize + MetaSize <= DB_PAGE_DEF_SIZE

NoBlock == -1     \* UINT64_MAX, the offset that ends the chain
Unbound == 0      \* the base_address of a block whose page is not in memory

FirstBlock == PageHdrSize
NoChain    == [b \in {} |-> 0]    \* a page that was never initialised

Meta == [is_free      : BOOLEAN,
         block_size   : Nat,
         base_address : Nat,
         prev_block   : Nat \cup {NoBlock},
         next_block   : Nat \cup {NoBlock}]

DataOf(b)     == b + MetaSize                        \* block_meta_data + 1
EndOf(c, b)   == DataOf(b) + c[b].block_size         \* NEXT_META_BLOCK_BY_SIZE

(* Wrong LimitOf: every block is taken for the last one of the page. *)
LimitAtPageEnd(c, b) == DB_PAGE_DEF_SIZE

LimitOf(c, b) == IF c[b].next_block = NoBlock        \* where the block's room ends
                   THEN DB_PAGE_DEF_SIZE ELSE c[b].next_block

FreeBlocks(c) == {b \in DOMAIN c : c[b].is_free}
LiveBlocks(c) == {b \in DOMAIN c : ~c[b].is_free}

-----------------------------------------------------------------------------
(* allocator_init: one free block spans the page. *)
InitialChain(base) ==
  [b \in {FirstBlock} |->
     [is_free      |-> TRUE,
      block_size   |-> DB_PAGE_DEF_SIZE - (PageHdrSize + MetaSize),
      base_address |-> base,
      prev_block   |-> NoBlock,
      next_block   |-> NoBlock]]

(* The rest of a block is split off only when a meta data block fits in it. *)
Splits(c, b, size) == c[b].block_size - size >= MetaSize

(* Where the split-off block begins: right behind the bytes handed out. *)
SplitOffset(b, size) == DataOf(b) + size

(* allocator_split_free_data_block_for_allocation, the block being large enough. *)
Take(c, b, size) ==
  [c EXCEPT ![b].is_free = FALSE, ![b].block_size = size]

Split(c, b, size) ==
  LET n == SplitOffset(b, size)
  IN  [d \in DOMAIN c \cup {n} |->
         IF d = n THEN
           [is_free      |-> TRUE,
            block_size   |-> c[b].block_size - size - MetaSize,
            base_address |-> c[b].base_address,
            prev_block   |-> b,
            next_block   |-> c[b].next_block]
         ELSE IF d = b THEN
           [c[b] EXCEPT !.is_free = FALSE, !.block_size = size, !.next_block = n]
         ELSE IF d = c[b].next_block THEN [c[d] EXCEPT !.prev_block = n]
         ELSE c[d]]

Allocate(c, b, size) ==
  IF Splits(c, b, size) THEN Split(c, b, size) ELSE Take(c, b, size)

-----------------------------------------------------------------------------
(* Wrong Release: the hard internal fragment stays lost. *)
ReleaseNoFragment(c, b) == [c EXCEPT ![b].is_free = TRUE]

(* allocator_free_block: the block first takes back the hard internal      *)
(* fragment behind it, up to the next block or to the end of the page.     *)
Release(c, b) ==
  [c EXCEPT ![b].is_free = TRUE, ![b].block_size = LimitOf(c, b) - DataOf(b)]

(* mm_bind_blocks_for_deallocation: block top disappears into down, the    *)
(* block before it.                                                        *)
Bind(c, down, top) ==
  [d \in DOMAIN c \ {top} |->
     IF d = down THEN
       [c[d] EXCEPT !.block_size = @ + c[top].block_size + MetaSize,
                    !.next_block = c[top].next_block]
     ELSE IF d = c[top].next_block THEN [c[d] EXCEPT !.prev_block = down]
     ELSE c[d]]

NextIsFree(c, b) == c[b].next_block # NoBlock /\ c[c[b].next_block].is_free
PrevIsFree(c, b) == c[b].prev_block # NoBlock /\ c[c[b].prev_block].is_free

MergeNext(c, b) == IF NextIsFree(c, b) THEN Bind(c, b, c[b].next_block) ELSE c

(* Wrong MergePrev: only the last block of the page is merged downwards. *)
MergePrevAtEnd(c, b) ==
  IF PrevIsFree(c, b) /\ c[b].next_block = NoBlock THEN Bind(c, c[b].prev_block, b) ELSE c

MergePrev(c, b) == IF PrevIsFree(c, b) THEN Bind(c, c[b].prev_block, b) ELSE c

Free(c, b) == MergePrev(MergeNext(Release(c, b), b), b)

(* The block that holds b's bytes once b is free. *)
FreedBlock(c, b) == IF PrevIsFree(c, b) THEN c[b].prev_block ELSE b

(* allocator_is_vm_page_empty, the part that looks at the page itself. *)
SpansPage(c) ==
  /\ c[FirstBlock].is_free
  /\ DB_PAGE_DEF_SIZE = c[FirstBlock].block_size + MetaSize + PageHdrSize

-----------------------------------------------------------------------------
(* What a chain must be for the macros that walk it to be right. *)

(* The blocks follow one another without overlap and without a block in    *)
(* between, and prev_block undoes next_block.                              *)
Linked(c) ==
  /\ FirstBlock \in DOMAIN c
  /\ \A b \in DOMAIN c :
       /\ FirstBlock <= b
       /\ EndOf(c, b) <= LimitOf(c, b)
       /\ LimitOf(c, b) <= DB_PAGE_DEF_SIZE
       /\ \A d \in DOMAIN c : d <= b \/ LimitOf(c, b) <= d
       /\ c[b].next_block # NoBlock =>
            /\ b < c[b].next_block
            /\ c[b].next_block \in DOMAIN c
            /\ c[c[b].next_block].prev_block = b
       /\ c[b].prev_block # NoBlock =>
            /\ c[b].prev_block \in DOMAIN c
            /\ c[c[b].prev_block].next_block = b

(* A free block leaves no fragment behind it. *)
FreeUpToLimit(c) == \A b \in FreeBlocks(c) : EndOf(c, b) = LimitOf(c, b)

(* No two neighbours are both free. *)
Coalesced(c) == \A b \in FreeBlocks(c) : ~NextIsFree(c, b)

(* Every block carries the address its page is mapped at. *)
BasedAt(c, base) == \A b \in DOMAIN c : c[b].base_address = base

TypedChain(c) ==
  /\ DOMAIN c \subseteq Nat
  /\ c = [b \in DOMAIN c |-> c[b]]
  /\ \A b \in DOMAIN c : c[b] \in Meta

GoodChain(c) == TypedChain(c) /\ Linked(c) /\ FreeUpToLimit(c) /\ Coalesced(c)

=============================================================================
