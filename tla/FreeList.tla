------------------------------ MODULE FreeList ------------------------------
(***************************************************************************)
(* free_block_list_head: the global list of free blocks, a glthread kept   *)
(* as a sequence, and what allocating and freeing do to it and to the      *)
(* pages.  An element names a block: <<page, offset>>.  The list is        *)
(* threaded through the blocks' meta data, so an insertion reads the sizes *)
(* the blocks have at that moment: they are in the argument pages, which   *)
(* maps every page to its blocks.                                          *)
(***************************************************************************)
EXTENDS PageBlocks, Sequences, SequencesExt

Bytes(pages, blk) == pages[blk[1]][blk[2]].block_size

(* Wrong IsInsertPosition: the block goes behind all others. *)
IsLastPosition(pages, list, blk, i) == i = Len(list) + 1

(* free_blocks_comparison_function orders the larger block first, and      *)
(* glthread_priority_insert puts a block before the first one that is      *)
(* strictly smaller: behind all blocks of its own size.                    *)
IsInsertPosition(pages, list, blk, i) ==
  /\ i <= Len(list) => Bytes(pages, list[i]) < Bytes(pages, blk)
  /\ \A j \in 1..i - 1 : Bytes(pages, list[j]) >= Bytes(pages, blk)

PriorityInsert(pages, list, blk) ==
  InsertAt(list,
           CHOOSE i \in 1..Len(list) + 1 : IsInsertPosition(pages, list, blk, i),
           blk)

(* remove_glthread: a glue that is in no list has NULL links, and removing *)
(* it changes nothing.                                                     *)
RemoveGlthread(list, blk) ==
  IF \E i \in DOMAIN list : list[i] = blk
    THEN RemoveAt(list, CHOOSE i \in DOMAIN list : list[i] = blk)
    ELSE list

RemoveIf(cond, list, blk) == IF cond THEN RemoveGlthread(list, blk) ELSE list

-----------------------------------------------------------------------------
(* The pages and the list after a call of allocator_init on page p ...     *)
InitPages(pages, p) == [pages EXCEPT ![p] = InitialChain(p)]

InitList(pages, list, p) ==
  PriorityInsert(InitPages(pages, p), list, <<p, FirstBlock>>)

(* ... of allocator_alloc_mem, which looks only at the first block of the  *)
(* list and takes it off the list before it knows whether it fits ...      *)
FirstFits(pages, list, size) == Bytes(pages, Head(list)) >= size

AllocPages(pages, list, size) ==
  [pages EXCEPT ![Head(list)[1]] = Allocate(@, Head(list)[2], size)]

(* Wrong AllocList: the block split off is not queued. *)
AllocListNoSplit(pages, list, size) == Tail(list)

AllocList(pages, list, size) ==
  LET p == Head(list)[1]
      b == Head(list)[2]
  IN  IF Splits(pages[p], b, size)
        THEN PriorityInsert(AllocPages(pages, list, size), Tail(list),
                            <<p, SplitOffset(b, size)>>)
        ELSE Tail(list)

(* ... and of allocator_free_mem on block b of page p.                     *)
FreePages(pages, p, b) == [pages EXCEPT ![p] = Free(@, b)]

(* Wrong UnlinkNeighbours: only one of two merged neighbours leaves the list. *)
UnlinkOneNeighbour(c, list, p, b) ==
  IF NextIsFree(c, b)
    THEN RemoveGlthread(list, <<p, c[b].next_block>>)
    ELSE RemoveIf(PrevIsFree(c, b), list, <<p, c[b].prev_block>>)

UnlinkNeighbours(c, list, p, b) ==
  RemoveIf(PrevIsFree(c, b),
           RemoveIf(NextIsFree(c, b), list, <<p, c[b].next_block>>),
           <<p, c[b].prev_block>>)

ListAfterFree(pages, list, p, b) ==
  PriorityInsert(FreePages(pages, p, b),
                 UnlinkNeighbours(pages[p], list, p, b),
                 <<p, FreedBlock(pages[p], b)>>)

-----------------------------------------------------------------------------
(* allocator_reinit and allocator_deinit walk over a page.  One iteration  *)
(* of their loops, at block b: the block takes a new base_address ...      *)

(* Wrong WalkPages: only free blocks take the new base_address. *)
WalkPagesFreeOnly(pages, p, b, base) ==
  IF pages[p][b].is_free THEN [pages EXCEPT ![p][b].base_address = base] ELSE pages

WalkPages(pages, p, b, base) == [pages EXCEPT ![p][b].base_address = base]

(* Wrong ReinitList: a free block of the page is not queued. *)
ReinitListNotQueued(pages, list, p, b) == list

(* ... and is queued when a page comes into memory, if it is free ...      *)
ReinitList(pages, list, p, b) ==
  IF pages[p][b].is_free
    THEN PriorityInsert(WalkPages(pages, p, b, p), list, <<p, b>>) ELSE list

(* ... and leaves the list when its page leaves memory.                    *)
DeinitList(pages, list, p, b) == RemoveIf(pages[p][b].is_free, list, <<p, b>>)

-----------------------------------------------------------------------------
(* The list is in descending order of size, and a block is in it once. *)
LargestFirst(pages, list) ==
  \A i, j \in DOMAIN list : i < j => Bytes(pages, list[i]) >= Bytes(pages, list[j])

NoDuplicates(list) == \A i, j \in DOMAIN list : list[i] = list[j] => i = j

=============================================================================
