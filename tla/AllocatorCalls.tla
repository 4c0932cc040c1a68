--------------------------- MODULE AllocatorCalls ---------------------------
(***************************************************************************)
(* What one call of mem_allocator.cpp, or one iteration of its loops, does *)
(* to the pages and to the list of free blocks: lemmas for any set P of    *)
(* pages, of which those in maps are in memory.  MemAllocatorProofs and    *)
(* MemProofs rest on them.  They rest on two kinds of lemmas:              *)
(* about the blocks of a page: initialising it, allocating from a free     *)
(* block and freeing a live one turn a good chain into a good chain,       *)
(* whatever the page size, the size of the meta data and the request are;  *)
(* and about the free list as a sequence: where glthread_priority_insert   *)
(* puts a block, what remove_glthread takes away, and that both keep the   *)
(* list free of duplicates and in descending order of size.                *)
(***************************************************************************)
EXTENDS PageBlocks, FreeList, TLAPS, SequenceTheorems, WellFoundedInduction

-----------------------------------------------------------------------------
(* The blocks of a page. *)

(* The fields of a meta data record. *)
LEMMA MetaFields ==
  ASSUME NEW m \in Meta
  PROVE  /\ m.is_free \in BOOLEAN
         /\ m.block_size \in Nat
         /\ m.base_address \in Nat
         /\ m.prev_block \in Nat \cup {NoBlock}
         /\ m.next_block \in Nat \cup {NoBlock}
  BY DEF Meta

(* allocator_init leaves a good chain of one free block. *)
LEMMA InitialChainGood ==
  ASSUME NEW base \in Nat
  PROVE  GoodChain(InitialChain(base))
<1> DEFINE c == InitialChain(base)
<1>1. /\ DOMAIN c = {FirstBlock}
      /\ c[FirstBlock] = [is_free |-> TRUE,
                          block_size |-> DB_PAGE_DEF_SIZE - (PageHdrSize + MetaSize),
                          base_address |-> base,
                          prev_block |-> NoBlock, next_block |-> NoBlock]
  BY DEF InitialChain
<1>2. TypedChain(c)
  <2>1. c[FirstBlock] \in Meta
    BY <1>1, PageLayout DEF Meta, NoBlock
  <2>2. c = [b \in DOMAIN c |-> c[b]]
    BY DEF InitialChain
  <2> QED BY <1>1, <2>1, <2>2, PageLayout DEF TypedChain, FirstBlock
<1>3. Linked(c)
  BY <1>1, PageLayout DEF Linked, EndOf, LimitOf, DataOf, FirstBlock, NoBlock
<1>4. FreeUpToLimit(c)
  BY <1>1, PageLayout DEF FreeUpToLimit, FreeBlocks, EndOf, LimitOf, DataOf, FirstBlock
<1>5. Coalesced(c)
  BY <1>1 DEF Coalesced, FreeBlocks, NextIsFree
<1> QED BY <1>2, <1>3, <1>4, <1>5 DEF GoodChain

(* Two blocks of a linked chain do not share a byte, meta data included.   *)
LEMMA BlocksDisjoint ==
  ASSUME NEW c, TypedChain(c), Linked(c),
         NEW b \in DOMAIN c, NEW d \in DOMAIN c, b < d
  PROVE  EndOf(c, b) <= d
<1>1. d <= b \/ LimitOf(c, b) <= d
  BY DEF Linked
<1>2. EndOf(c, b) <= LimitOf(c, b)
  BY DEF Linked
<1>3. /\ EndOf(c, b) \in Nat /\ LimitOf(c, b) \in Nat \cup {NoBlock}
      /\ b \in Nat /\ d \in Nat
  BY MetaFields, PageLayout DEF TypedChain, EndOf, LimitOf, DataOf
<1> QED BY <1>1, <1>2, <1>3 DEF NoBlock

-----------------------------------------------------------------------------
(* Sizes and offsets of a typed chain are numbers. *)
LEMMA ChainNumbers ==
  ASSUME NEW c, TypedChain(c), NEW b \in DOMAIN c
  PROVE  /\ b \in Nat
         /\ c[b] \in Meta
         /\ c[b].is_free \in BOOLEAN
         /\ c[b].block_size \in Nat
         /\ c[b].base_address \in Nat
         /\ c[b].prev_block \in Nat \cup {NoBlock}
         /\ c[b].next_block \in Nat \cup {NoBlock}
         /\ EndOf(c, b) = b + MetaSize + c[b].block_size
         /\ LimitOf(c, b) \in Nat
  BY MetaFields, PageLayout DEF TypedChain, EndOf, LimitOf, DataOf

(* Handing out a whole block changes its size and its state only. *)
LEMMA TakeFields ==
  ASSUME NEW c, TypedChain(c), NEW b \in DOMAIN c, NEW size \in Nat,
         NEW e, e = Take(c, b, size)
  PROVE  /\ TypedChain(e)
         /\ DOMAIN e = DOMAIN c
         /\ ~e[b].is_free /\ e[b].block_size = size
         /\ \A d \in DOMAIN c : /\ d # b => e[d] = c[d]
                                /\ e[d].next_block = c[d].next_block
                                /\ e[d].prev_block = c[d].prev_block
                                /\ e[d].base_address = c[d].base_address
<1>1. c[b] \in Meta
  BY DEF TypedChain
<1>2. /\ DOMAIN e = DOMAIN c
      /\ e = [d \in DOMAIN e |-> e[d]]
      /\ \A d \in DOMAIN c : d # b => e[d] = c[d]
      /\ e[b] = [[c[b] EXCEPT !.is_free = FALSE] EXCEPT !.block_size = size]
  BY DEF Take, TypedChain
<1>3. /\ ~e[b].is_free
      /\ e[b].block_size = size
      /\ e[b].next_block = c[b].next_block
      /\ e[b].prev_block = c[b].prev_block
      /\ e[b].base_address = c[b].base_address
      /\ e[b] \in Meta
  BY <1>1, <1>2 DEF Meta
<1>4. TypedChain(e)
  BY <1>2, <1>3 DEF TypedChain
<1> QED BY <1>2, <1>3, <1>4

(* Handing out a whole block keeps the chain good. *)
LEMMA TakeGood ==
  ASSUME NEW c, GoodChain(c), NEW b \in FreeBlocks(c), NEW size \in Nat,
         size <= c[b].block_size,
         NEW e, e = Take(c, b, size)
  PROVE  GoodChain(e)
<1>1. TypedChain(c) /\ Linked(c) /\ FreeUpToLimit(c) /\ Coalesced(c) /\ b \in DOMAIN c
  BY DEF GoodChain, FreeBlocks
<1>2. /\ TypedChain(e)
      /\ DOMAIN e = DOMAIN c
      /\ ~e[b].is_free /\ e[b].block_size = size
      /\ \A d \in DOMAIN c : /\ d # b => e[d] = c[d]
                             /\ e[d].next_block = c[d].next_block
                             /\ e[d].prev_block = c[d].prev_block
  BY <1>1, TakeFields, Z3
<1>3. \A d \in DOMAIN c : LimitOf(e, d) = LimitOf(c, d)
  BY <1>2 DEF LimitOf
<1>4. \A d \in DOMAIN c : EndOf(e, d) <= EndOf(c, d)
  BY <1>1, <1>2, ChainNumbers, PageLayout
<1>5. Linked(e)
  <2>1. \A d \in DOMAIN c : EndOf(e, d) <= LimitOf(e, d)
    BY <1>1, <1>2, <1>3, <1>4, ChainNumbers, PageLayout DEF Linked
  <2> QED BY <1>1, <1>2, <1>3, <2>1 DEF Linked
<1>6. FreeUpToLimit(e)
  BY <1>1, <1>2 DEF FreeUpToLimit, FreeBlocks, EndOf, LimitOf
<1>7. Coalesced(e)
  <2> SUFFICES ASSUME NEW d \in FreeBlocks(e), NextIsFree(e, d)
               PROVE  FALSE
    BY DEF Coalesced
  <2>1. d \in FreeBlocks(c) /\ e[d] = c[d]
    BY <1>2 DEF FreeBlocks
  <2>2. c[d].next_block # NoBlock /\ c[d].next_block \in DOMAIN c
    BY <1>1, <2>1 DEF NextIsFree, Linked, FreeBlocks
  <2>3. c[c[d].next_block].is_free
    BY <1>2, <2>1, <2>2 DEF NextIsFree
  <2> QED BY <1>1, <2>1, <2>2, <2>3 DEF Coalesced, NextIsFree
<1> QED BY <1>2, <1>5, <1>6, <1>7 DEF GoodChain

(* The block split off lies between the block handed out and the block     *)
(* that followed it.                                                       *)
LEMMA SplitOffsetIsNew ==
  ASSUME NEW c, GoodChain(c), NEW b \in FreeBlocks(c), NEW size \in Nat,
         size <= c[b].block_size, Splits(c, b, size),
         NEW n, n = SplitOffset(b, size)
  PROVE  /\ n \in Nat /\ n = b + MetaSize + size
         /\ c[b].block_size - size - MetaSize \in Nat
         /\ b < n
         /\ n + MetaSize + (c[b].block_size - size - MetaSize) = LimitOf(c, b)
         /\ n < LimitOf(c, b)
         /\ n \notin DOMAIN c
<1>1. TypedChain(c) /\ Linked(c) /\ b \in DOMAIN c /\ EndOf(c, b) = LimitOf(c, b)
  BY DEF GoodChain, FreeBlocks, FreeUpToLimit
<1>2. n \in Nat /\ n = b + MetaSize + size
  BY <1>1, ChainNumbers, PageLayout DEF SplitOffset, DataOf
<1>3. /\ c[b].block_size - size - MetaSize \in Nat
      /\ b < n
      /\ n + MetaSize + (c[b].block_size - size - MetaSize) = LimitOf(c, b)
      /\ n < LimitOf(c, b)
  BY <1>1, <1>2, ChainNumbers, PageLayout DEF Splits
<1>4. ASSUME n \in DOMAIN c PROVE FALSE
  <2>1. n <= b \/ LimitOf(c, b) <= n
    BY <1>1, <1>4 DEF Linked
  <2> QED BY <1>1, <1>2, <1>3, <2>1, ChainNumbers
<1> QED BY <1>2, <1>3, <1>4

(* The fields of the blocks after a split. *)
LEMMA SplitFields ==
  ASSUME NEW c, GoodChain(c), NEW b \in FreeBlocks(c), NEW size \in Nat,
         size <= c[b].block_size, Splits(c, b, size),
         NEW n, n = SplitOffset(b, size),
         NEW e, e = Split(c, b, size)
  PROVE  /\ TypedChain(e)
         /\ DOMAIN e = DOMAIN c \cup {n}
         /\ e[n].is_free /\ e[n].block_size = c[b].block_size - size - MetaSize
         /\ e[n].prev_block = b /\ e[n].next_block = c[b].next_block
         /\ e[n].base_address = c[b].base_address
         /\ ~e[b].is_free /\ e[b].block_size = size
         /\ e[b].next_block = n /\ e[b].prev_block = c[b].prev_block
         /\ \A d \in DOMAIN c :
              /\ e[d].base_address = c[d].base_address
              /\ d # b => /\ e[d].is_free = c[d].is_free
                          /\ e[d].block_size = c[d].block_size
                          /\ e[d].next_block = c[d].next_block
                          /\ e[d].prev_block = IF d = c[b].next_block THEN n
                                               ELSE c[d].prev_block
<1>1. TypedChain(c) /\ b \in DOMAIN c /\ \A d \in DOMAIN c : c[d] \in Meta
  BY DEF GoodChain, FreeBlocks, TypedChain
<1>2. n \in Nat /\ n \notin DOMAIN c /\ c[b].block_size - size - MetaSize \in Nat /\ n # b
  BY <1>1, SplitOffsetIsNew, Z3
<1>3. /\ DOMAIN e = DOMAIN c \cup {n}
      /\ e = [d \in DOMAIN e |-> e[d]]
      /\ e[n] = [is_free |-> TRUE, block_size |-> c[b].block_size - size - MetaSize,
                 base_address |-> c[b].base_address,
                 prev_block |-> b, next_block |-> c[b].next_block]
      /\ e[b] = [c[b] EXCEPT !.is_free = FALSE, !.block_size = size, !.next_block = n]
      /\ \A d \in DOMAIN c : d # b =>
           e[d] = IF d = c[b].next_block THEN [c[d] EXCEPT !.prev_block = n] ELSE c[d]
  BY <1>1, <1>2 DEF Split
<1>4. /\ e[n] \in Meta
      /\ e[n].is_free /\ e[n].block_size = c[b].block_size - size - MetaSize
      /\ e[n].prev_block = b /\ e[n].next_block = c[b].next_block
      /\ e[n].base_address = c[b].base_address
  BY <1>1, <1>2, <1>3, ChainNumbers DEF Meta
<1>5. /\ e[b] \in Meta
      /\ ~e[b].is_free /\ e[b].block_size = size
      /\ e[b].next_block = n /\ e[b].prev_block = c[b].prev_block
      /\ e[b].base_address = c[b].base_address
  BY <1>1, <1>2, <1>3 DEF Meta
<1>6. ASSUME NEW d \in DOMAIN c, d # b
      PROVE  /\ e[d] \in Meta
             /\ e[d].is_free = c[d].is_free
             /\ e[d].block_size = c[d].block_size
             /\ e[d].base_address = c[d].base_address
             /\ e[d].next_block = c[d].next_block
             /\ e[d].prev_block = IF d = c[b].next_block THEN n ELSE c[d].prev_block
  <2>1. CASE d = c[b].next_block
    <3>1. e[d] = [c[d] EXCEPT !.prev_block = n]
      BY <1>3, <1>6, <2>1
    <3> QED BY <1>1, <1>2, <2>1, <3>1 DEF Meta
  <2>2. CASE d # c[b].next_block
    BY <1>1, <1>3, <1>6, <2>2
  <2> QED BY <2>1, <2>2
<1>7. TypedChain(e)
  BY <1>1, <1>2, <1>3, <1>4, <1>5, <1>6, ZenonT(60) DEF TypedChain
<1> QED BY <1>3, <1>4, <1>5, <1>6, <1>7

(* Splitting a free block keeps the chain good. *)
LEMMA SplitGood ==
  ASSUME NEW c, GoodChain(c), NEW b \in FreeBlocks(c), NEW size \in Nat,
         size <= c[b].block_size, Splits(c, b, size),
         NEW e, e = Split(c, b, size)
  PROVE  GoodChain(e)
<1> DEFINE n == SplitOffset(b, size)
<1>1. /\ TypedChain(c) /\ Linked(c) /\ FreeUpToLimit(c) /\ Coalesced(c)
      /\ b \in DOMAIN c /\ c[b].is_free
  BY DEF GoodChain, FreeBlocks
<1>2. /\ n \in Nat /\ n = b + MetaSize + size
      /\ b < n
      /\ n + MetaSize + (c[b].block_size - size - MetaSize) = LimitOf(c, b)
      /\ n < LimitOf(c, b)
      /\ n \notin DOMAIN c
  BY SplitOffsetIsNew, Z3
<1>3. /\ TypedChain(e)
      /\ DOMAIN e = DOMAIN c \cup {n}
      /\ e[n].is_free /\ e[n].block_size = c[b].block_size - size - MetaSize
      /\ e[n].prev_block = b /\ e[n].next_block = c[b].next_block
      /\ ~e[b].is_free /\ e[b].block_size = size
      /\ e[b].next_block = n /\ e[b].prev_block = c[b].prev_block
      /\ \A d \in DOMAIN c :
           /\ e[d].base_address = c[d].base_address
           /\ d # b => /\ e[d].is_free = c[d].is_free
                       /\ e[d].block_size = c[d].block_size
                       /\ e[d].next_block = c[d].next_block
                       /\ e[d].prev_block = IF d = c[b].next_block THEN n
                                            ELSE c[d].prev_block
  BY SplitFields, Z3
<1>4. \A d \in DOMAIN c : d # b =>
         /\ e[d].is_free = c[d].is_free
         /\ e[d].block_size = c[d].block_size
         /\ e[d].next_block = c[d].next_block
         /\ e[d].prev_block = IF d = c[b].next_block THEN n ELSE c[d].prev_block
  BY <1>3
<1> HIDE DEF n
<1>5. /\ LimitOf(e, n) = LimitOf(c, b) /\ EndOf(e, n) = LimitOf(c, b)
      /\ LimitOf(e, b) = n /\ EndOf(e, b) = n
      /\ \A d \in DOMAIN c : d # b => LimitOf(e, d) = LimitOf(c, d) /\ EndOf(e, d) = EndOf(c, d)
  BY <1>1, <1>2, <1>3, <1>4 DEF LimitOf, EndOf, DataOf, NoBlock
<1>6. ASSUME NEW d \in DOMAIN e
      PROVE  /\ FirstBlock <= d
             /\ EndOf(e, d) <= LimitOf(e, d)
             /\ LimitOf(e, d) <= DB_PAGE_DEF_SIZE
             /\ \A x \in DOMAIN e : x <= d \/ LimitOf(e, d) <= x
  <2>1. /\ \A x \in DOMAIN c : /\ x \in Nat /\ FirstBlock <= x
                               /\ LimitOf(c, x) \in Nat
                               /\ LimitOf(c, x) <= DB_PAGE_DEF_SIZE
                               /\ EndOf(c, x) <= LimitOf(c, x)
        /\ \A x, y \in DOMAIN c : y <= x \/ LimitOf(c, x) <= y
        /\ FirstBlock \in Nat /\ DB_PAGE_DEF_SIZE \in Nat
    BY <1>1, ChainNumbers, PageLayout DEF Linked, FirstBlock
  <2>2. CASE d = n
    BY <1>1, <1>2, <1>3, <1>5, <2>1, <2>2
  <2>3. CASE d = b
    BY <1>1, <1>2, <1>3, <1>5, <2>1, <2>3
  <2>4. CASE d \in DOMAIN c /\ d # b
    BY <1>1, <1>2, <1>3, <1>5, <2>1, <2>4
  <2> QED BY <1>3, <2>2, <2>3, <2>4
<1>7. ASSUME NEW d \in DOMAIN e, e[d].next_block # NoBlock
      PROVE  /\ d < e[d].next_block
             /\ e[d].next_block \in DOMAIN e
             /\ e[e[d].next_block].prev_block = d
  <2>1. CASE d = n
    <3>1. /\ c[b].next_block # NoBlock /\ c[b].next_block \in DOMAIN c
          /\ c[b].next_block # b
          /\ LimitOf(c, b) = c[b].next_block
      BY <1>1, <1>3, <1>7, <2>1, ChainNumbers DEF Linked, LimitOf
    <3> QED BY <1>2, <1>3, <1>4, <2>1, <3>1
  <2>2. CASE d = b
    BY <1>2, <1>3, <2>2
  <2>3. CASE d \in DOMAIN c /\ d # b
    <3>1. /\ e[d].next_block = c[d].next_block /\ c[d].next_block \in DOMAIN c
          /\ d < c[d].next_block
          /\ c[c[d].next_block].prev_block = d
      BY <1>1, <1>4, <1>7, <2>3 DEF Linked
    <3>2. c[b].next_block # NoBlock => c[c[b].next_block].prev_block = b
      BY <1>1 DEF Linked
    <3>3. c[d].next_block # c[b].next_block
      BY <1>4, <1>7, <2>3, <3>1, <3>2
    <3> QED BY <1>3, <1>4, <3>1, <3>3
  <2> QED BY <1>3, <2>1, <2>2, <2>3
<1>8. ASSUME NEW d \in DOMAIN e, e[d].prev_block # NoBlock
      PROVE  /\ e[d].prev_block \in DOMAIN e
             /\ e[e[d].prev_block].next_block = d
  <2>1. CASE d = n
    BY <1>1, <1>3, <2>1
  <2>2. CASE d = b
    <3>1. /\ c[b].prev_block # NoBlock /\ c[b].prev_block \in DOMAIN c
          /\ c[c[b].prev_block].next_block = b
          /\ b # c[b].next_block \/ c[b].next_block = NoBlock
      BY <1>1, <1>3, <1>8, <2>2, ChainNumbers DEF Linked
    <3>2. c[b].next_block # b
      BY <1>1, <3>1, ChainNumbers DEF NoBlock
    <3> QED BY <1>1, <1>3, <1>4, <2>2, <3>1, <3>2
  <2>3. CASE d \in DOMAIN c /\ d # b /\ d = c[b].next_block
    BY <1>1, <1>3, <1>4, <2>3
  <2>4. CASE d \in DOMAIN c /\ d # b /\ d # c[b].next_block
    <3>1. e[d].prev_block = c[d].prev_block
      BY <1>4, <2>4
    <3>2. c[d].prev_block \in DOMAIN c /\ c[c[d].prev_block].next_block = d
      BY <1>1, <1>8, <2>4, <3>1 DEF Linked
    <3> QED BY <1>3, <1>4, <2>4, <3>1, <3>2
  <2> QED BY <1>3, <2>1, <2>2, <2>3, <2>4
<1>9. Linked(e)
  BY <1>1, <1>3, <1>6, <1>7, <1>8 DEF Linked
<1>10. FreeUpToLimit(e)
  BY <1>1, <1>3, <1>4, <1>5 DEF FreeUpToLimit, FreeBlocks
<1>11. Coalesced(e)
  <2> SUFFICES ASSUME NEW d \in DOMAIN e, e[d].is_free, e[d].next_block # NoBlock,
                      e[e[d].next_block].is_free
               PROVE  FALSE
    BY DEF Coalesced, FreeBlocks, NextIsFree
  <2>1. CASE d = n
    <3>1. c[b].next_block # NoBlock /\ c[b].next_block \in DOMAIN c /\ c[b].next_block # b
      BY <1>1, <1>3, <2>1, ChainNumbers DEF Linked
    <3>2. c[c[b].next_block].is_free
      BY <1>3, <1>4, <2>1, <3>1
    <3> QED BY <1>1, <3>1, <3>2 DEF Coalesced, FreeBlocks, NextIsFree
  <2>2. CASE d \in DOMAIN c /\ d # b
    <3>1. c[d].is_free /\ e[d].next_block = c[d].next_block /\ c[d].next_block \in DOMAIN c
      BY <1>1, <1>4, <2>2 DEF Linked
    <3>2. c[d].next_block # b
      BY <1>3, <3>1
    <3>3. c[c[d].next_block].is_free
      BY <1>4, <3>1, <3>2
    <3> QED BY <1>1, <2>2, <3>1, <3>3 DEF Coalesced, FreeBlocks, NextIsFree
  <2> QED BY <1>3, <2>1, <2>2
<1> QED BY <1>3, <1>9, <1>10, <1>11 DEF GoodChain

(* allocator_alloc_mem keeps the chain good, whether it splits or not. *)
LEMMA AllocateGood ==
  ASSUME NEW c, GoodChain(c), NEW b \in FreeBlocks(c), NEW size \in Nat,
         size <= c[b].block_size
  PROVE  GoodChain(Allocate(c, b, size))
<1>1. CASE Splits(c, b, size)
  BY <1>1, SplitGood DEF Allocate
<1>2. CASE ~Splits(c, b, size)
  BY <1>2, TakeGood DEF Allocate
<1> QED BY <1>1, <1>2

-----------------------------------------------------------------------------
(* While a block is being freed the chain is good but for neighbours that  *)
(* are both free.                                                          *)
SoundChain(c) == TypedChain(c) /\ Linked(c) /\ FreeUpToLimit(c)

(* Marking a live block free and giving it the fragment behind it: the     *)
(* only free neighbours are that block and the ones next to it.            *)
LEMMA ReleaseSound ==
  ASSUME NEW c, GoodChain(c), NEW b \in LiveBlocks(c),
         NEW e, e = Release(c, b)
  PROVE  /\ SoundChain(e)
         /\ DOMAIN e = DOMAIN c
         /\ b \in FreeBlocks(e)
         /\ \A d \in DOMAIN c : /\ e[d].next_block = c[d].next_block
                                /\ e[d].prev_block = c[d].prev_block
                                /\ e[d].base_address = c[d].base_address
                                /\ d # b => e[d] = c[d]
         /\ \A d \in FreeBlocks(e) : NextIsFree(e, d) => d = b \/ e[d].next_block = b
<1>1. /\ TypedChain(c) /\ Linked(c) /\ FreeUpToLimit(c) /\ Coalesced(c)
      /\ b \in DOMAIN c /\ ~c[b].is_free /\ c[b] \in Meta
  BY DEF GoodChain, LiveBlocks, TypedChain
<1>2. LimitOf(c, b) - DataOf(b) \in Nat /\ LimitOf(c, b) \in Nat
  BY <1>1, ChainNumbers, PageLayout DEF Linked, DataOf
<1>3. /\ DOMAIN e = DOMAIN c
      /\ e = [d \in DOMAIN e |-> e[d]]
      /\ \A d \in DOMAIN c : d # b => e[d] = c[d]
      /\ e[b] = [c[b] EXCEPT !.is_free = TRUE, !.block_size = LimitOf(c, b) - DataOf(b)]
  BY <1>1 DEF Release, TypedChain
<1>4. /\ e[b] \in Meta
      /\ e[b].is_free
      /\ e[b].block_size = LimitOf(c, b) - DataOf(b)
      /\ e[b].next_block = c[b].next_block
      /\ e[b].prev_block = c[b].prev_block
      /\ e[b].base_address = c[b].base_address
  BY <1>1, <1>2, <1>3 DEF Meta
<1>5. TypedChain(e)
  BY <1>1, <1>3, <1>4 DEF TypedChain
<1>6. \A d \in DOMAIN c : /\ e[d].next_block = c[d].next_block
                          /\ e[d].prev_block = c[d].prev_block
                          /\ e[d].base_address = c[d].base_address
  BY <1>3, <1>4
<1>7. /\ \A d \in DOMAIN c : LimitOf(e, d) = LimitOf(c, d)
      /\ \A d \in DOMAIN c : d # b => EndOf(e, d) = EndOf(c, d)
      /\ EndOf(e, b) = LimitOf(c, b)
  <2>1. \A d \in DOMAIN c : LimitOf(e, d) = LimitOf(c, d)
    BY <1>6 DEF LimitOf
  <2>2. \A d \in DOMAIN c : d # b => EndOf(e, d) = EndOf(c, d)
    BY <1>3 DEF EndOf
  <2>3. EndOf(e, b) = LimitOf(c, b)
    BY <1>1, <1>2, <1>4, ChainNumbers, PageLayout DEF EndOf, DataOf
  <2> QED BY <2>1, <2>2, <2>3
<1>8. Linked(e)
  <2>1. \A d \in DOMAIN c : EndOf(e, d) <= LimitOf(e, d)
    BY <1>1, <1>2, <1>7 DEF Linked
  <2> QED BY <1>1, <1>3, <1>6, <1>7, <2>1 DEF Linked
<1>9. FreeUpToLimit(e)
  BY <1>1, <1>3, <1>7 DEF FreeUpToLimit, FreeBlocks
<1>10. ASSUME NEW d \in FreeBlocks(e), NextIsFree(e, d)
       PROVE  d = b \/ e[d].next_block = b
  <2> SUFFICES ASSUME d # b, e[d].next_block # b PROVE FALSE
    OBVIOUS
  <2>1. d \in FreeBlocks(c) /\ e[d] = c[d]
    BY <1>3 DEF FreeBlocks
  <2>2. c[d].next_block # NoBlock /\ c[d].next_block \in DOMAIN c
    BY <1>1, <1>10, <2>1 DEF NextIsFree, Linked, FreeBlocks
  <2>3. c[c[d].next_block].is_free
    BY <1>3, <1>10, <2>1, <2>2 DEF NextIsFree
  <2> QED BY <1>1, <2>1, <2>2, <2>3 DEF Coalesced, NextIsFree
<1>11. SoundChain(e) /\ b \in FreeBlocks(e)
  BY <1>1, <1>3, <1>4, <1>5, <1>8, <1>9 DEF SoundChain, FreeBlocks
<1> QED BY <1>3, <1>6, <1>10, <1>11

(* The blocks after two free neighbours became one. *)
LEMMA BindFields ==
  ASSUME NEW c, SoundChain(c),
         NEW down \in FreeBlocks(c), NEW top \in FreeBlocks(c),
         c[down].next_block = top,
         NEW e, e = Bind(c, down, top)
  PROVE  /\ TypedChain(e)
         /\ DOMAIN e = DOMAIN c \ {top}
         /\ down \in DOMAIN e
         /\ e[down].is_free
         /\ e[down].block_size = c[down].block_size + c[top].block_size + MetaSize
         /\ e[down].next_block = c[top].next_block
         /\ e[down].prev_block = c[down].prev_block
         /\ \A d \in DOMAIN e :
              /\ e[d].base_address = c[d].base_address
              /\ d # down => /\ e[d].is_free = c[d].is_free
                             /\ e[d].block_size = c[d].block_size
                             /\ e[d].next_block = c[d].next_block
                             /\ e[d].prev_block = IF d = c[top].next_block THEN down
                                                  ELSE c[d].prev_block
<1>1. /\ TypedChain(c) /\ Linked(c)
      /\ down \in DOMAIN c /\ top \in DOMAIN c /\ c[down].is_free /\ c[top].is_free
      /\ c[down] \in Meta /\ c[top] \in Meta
  BY DEF SoundChain, FreeBlocks, TypedChain
<1>2. down < top /\ down # top
  BY <1>1, ChainNumbers DEF Linked, NoBlock
<1>3. /\ DOMAIN e = DOMAIN c \ {top}
      /\ e = [d \in DOMAIN e |-> e[d]]
      /\ e[down] = [c[down] EXCEPT !.block_size = @ + c[top].block_size + MetaSize,
                                   !.next_block = c[top].next_block]
      /\ \A d \in DOMAIN e : d # down =>
           e[d] = IF d = c[top].next_block THEN [c[d] EXCEPT !.prev_block = down] ELSE c[d]
  BY <1>1, <1>2 DEF Bind
<1>4. c[down].block_size + c[top].block_size + MetaSize \in Nat
  BY <1>1, ChainNumbers, PageLayout
<1>5. /\ e[down] \in Meta
      /\ e[down].is_free
      /\ e[down].block_size = c[down].block_size + c[top].block_size + MetaSize
      /\ e[down].next_block = c[top].next_block
      /\ e[down].prev_block = c[down].prev_block
      /\ e[down].base_address = c[down].base_address
  <2> DEFINE s == c[down].block_size + c[top].block_size + MetaSize
  <2>1. e[down] = [c[down] EXCEPT !.block_size = s, !.next_block = c[top].next_block]
    BY <1>1, <1>3 DEF Meta
  <2>2. s \in Nat
    BY <1>4
  <2> HIDE DEF s
  <2>3. /\ e[down] \in Meta
        /\ e[down].is_free = c[down].is_free
        /\ e[down].block_size = s
        /\ e[down].next_block = c[top].next_block
        /\ e[down].prev_block = c[down].prev_block
        /\ e[down].base_address = c[down].base_address
    BY <1>1, <2>1, <2>2 DEF Meta
  <2> QED BY <1>1, <2>3 DEF s
<1>6. ASSUME NEW d \in DOMAIN e, d # down
      PROVE  /\ e[d] \in Meta
             /\ e[d].is_free = c[d].is_free
             /\ e[d].block_size = c[d].block_size
             /\ e[d].base_address = c[d].base_address
             /\ e[d].next_block = c[d].next_block
             /\ e[d].prev_block = IF d = c[top].next_block THEN down ELSE c[d].prev_block
  <2>1. c[d] \in Meta /\ down \in Nat
    BY <1>1, <1>3 DEF TypedChain
  <2>2. CASE d = c[top].next_block
    <3>1. e[d] = [c[d] EXCEPT !.prev_block = down]
      BY <1>3, <1>6, <2>2
    <3> QED BY <2>1, <2>2, <3>1 DEF Meta
  <2>3. CASE d # c[top].next_block
    BY <1>3, <1>6, <2>1, <2>3
  <2> QED BY <2>2, <2>3
<1>7. TypedChain(e)
  BY <1>1, <1>3, <1>5, <1>6 DEF TypedChain
<1> QED BY <1>1, <1>2, <1>3, <1>5, <1>6, <1>7, ZenonT(60)

(* Merging two free neighbours keeps the chain sound: the lower one now    *)
(* reaches as far as the upper one did.                                    *)
LEMMA BindSound ==
  ASSUME NEW c, SoundChain(c),
         NEW down \in FreeBlocks(c), NEW top \in FreeBlocks(c),
         c[down].next_block = top,
         NEW e, e = Bind(c, down, top)
  PROVE  SoundChain(e)
<1>1. /\ TypedChain(c) /\ Linked(c) /\ FreeUpToLimit(c)
      /\ down \in DOMAIN c /\ top \in DOMAIN c
      /\ c[down].is_free /\ c[top].is_free
  BY DEF SoundChain, FreeBlocks
<1>2. /\ TypedChain(e)
      /\ DOMAIN e = DOMAIN c \ {top}
      /\ down \in DOMAIN e
      /\ e[down].is_free
      /\ e[down].block_size = c[down].block_size + c[top].block_size + MetaSize
      /\ e[down].next_block = c[top].next_block
      /\ e[down].prev_block = c[down].prev_block
      /\ \A d \in DOMAIN e :
           /\ e[d].base_address = c[d].base_address
           /\ d # down => /\ e[d].is_free = c[d].is_free
                          /\ e[d].block_size = c[d].block_size
                          /\ e[d].next_block = c[d].next_block
                          /\ e[d].prev_block = IF d = c[top].next_block THEN down
                                               ELSE c[d].prev_block
  BY BindFields, Z3
<1>3. /\ top \in Nat /\ down \in Nat /\ down < top
      /\ top # NoBlock /\ down # NoBlock
      /\ c[top].prev_block = down
      /\ EndOf(c, down) = top
      /\ EndOf(c, top) = LimitOf(c, top) /\ LimitOf(c, top) \in Nat
  BY <1>1, ChainNumbers DEF Linked, NoBlock, FreeUpToLimit, FreeBlocks, LimitOf
<1>4. /\ LimitOf(e, down) = LimitOf(c, top)
      /\ EndOf(e, down) = LimitOf(c, top)
      /\ \A d \in DOMAIN e : d # down => /\ LimitOf(e, d) = LimitOf(c, d)
                                         /\ EndOf(e, d) = EndOf(c, d)
  <2>1. LimitOf(e, down) = LimitOf(c, top)
    BY <1>2 DEF LimitOf
  <2>2. EndOf(e, down) = LimitOf(c, top)
    BY <1>1, <1>2, <1>3, ChainNumbers, PageLayout
  <2>3. \A d \in DOMAIN e : d # down => LimitOf(e, d) = LimitOf(c, d) /\ EndOf(e, d) = EndOf(c, d)
    BY <1>2 DEF LimitOf, EndOf
  <2> QED BY <2>1, <2>2, <2>3
<1>5. /\ \A x \in DOMAIN c : /\ x \in Nat /\ FirstBlock <= x
                             /\ LimitOf(c, x) \in Nat
                             /\ LimitOf(c, x) <= DB_PAGE_DEF_SIZE
                             /\ EndOf(c, x) <= LimitOf(c, x)
      /\ \A x, y \in DOMAIN c : y <= x \/ LimitOf(c, x) <= y
      /\ FirstBlock \in Nat
  BY <1>1, ChainNumbers, PageLayout DEF Linked, FirstBlock
<1>6. FirstBlock \in DOMAIN e
  BY <1>1, <1>2, <1>3, <1>5 DEF Linked
<1>7. ASSUME NEW d \in DOMAIN e
      PROVE  /\ FirstBlock <= d
             /\ EndOf(e, d) <= LimitOf(e, d)
             /\ LimitOf(e, d) <= DB_PAGE_DEF_SIZE
             /\ \A x \in DOMAIN e : x <= d \/ LimitOf(e, d) <= x
  <2>1. CASE d = down
    <3>1. ASSUME NEW x \in DOMAIN e PROVE x <= down \/ LimitOf(c, top) <= x
      <4>1. x \in Nat /\ x # top /\ (x <= top \/ LimitOf(c, top) <= x)
            /\ (x <= down \/ LimitOf(c, down) <= x) /\ LimitOf(c, down) = top
        BY <1>1, <1>2, <1>3, <1>5 DEF LimitOf
      <4> QED BY <1>3, <4>1
    <3>2. FirstBlock <= down /\ LimitOf(c, top) <= DB_PAGE_DEF_SIZE /\ down \in DOMAIN c
      BY <1>1, <1>5
    <3>3. EndOf(e, down) <= LimitOf(e, down)
      BY <1>3, <1>4
    <3> QED BY <1>4, <2>1, <3>1, <3>2, <3>3
  <2>2. CASE d # down
    BY <1>2, <1>4, <1>5, <2>2
  <2> QED BY <2>1, <2>2
<1>8. ASSUME NEW d \in DOMAIN e, e[d].next_block # NoBlock
      PROVE  /\ d < e[d].next_block
             /\ e[d].next_block \in DOMAIN e
             /\ e[e[d].next_block].prev_block = d
  <2>1. CASE d = down
    <3>1. /\ c[top].next_block # NoBlock /\ c[top].next_block \in DOMAIN c
          /\ top < c[top].next_block /\ c[top].next_block \in Nat
      BY <1>1, <1>2, <1>8, <2>1, ChainNumbers DEF Linked
    <3>2. c[top].next_block # top /\ c[top].next_block # down /\ down < c[top].next_block
      BY <1>3, <3>1
    <3> QED BY <1>2, <2>1, <3>1, <3>2
  <2>2. CASE d # down
    <3>1. /\ e[d].next_block = c[d].next_block /\ c[d].next_block \in DOMAIN c
          /\ d < c[d].next_block
          /\ c[c[d].next_block].prev_block = d /\ d \in DOMAIN c /\ d # top
      BY <1>1, <1>2, <1>8, <2>2 DEF Linked
    <3>2. c[d].next_block # top
      BY <1>3, <2>2, <3>1
    <3>3. c[top].next_block # NoBlock => c[c[top].next_block].prev_block = top
      BY <1>1 DEF Linked
    <3>4. c[d].next_block # c[top].next_block
      BY <1>2, <1>8, <3>1, <3>3
    <3> QED BY <1>2, <2>2, <3>1, <3>2, <3>4
  <2> QED BY <2>1, <2>2
<1>9. ASSUME NEW d \in DOMAIN e, e[d].prev_block # NoBlock
      PROVE  /\ e[d].prev_block \in DOMAIN e
             /\ e[e[d].prev_block].next_block = d
  <2>1. CASE d = down
    <3>1. /\ c[down].prev_block \in DOMAIN c
          /\ c[c[down].prev_block].next_block = down
      BY <1>1, <1>2, <1>9, <2>1 DEF Linked
    <3>2. c[down].prev_block # top /\ c[down].prev_block # down
      BY <1>1, <1>3, <3>1, ChainNumbers DEF Linked
    <3> QED BY <1>2, <2>1, <3>1, <3>2
  <2>2. CASE d # down /\ d = c[top].next_block
    BY <1>2, <2>2
  <2>3. CASE d # down /\ d # c[top].next_block
    <3>1. /\ e[d].prev_block = c[d].prev_block /\ d # top
          /\ c[d].prev_block \in DOMAIN c /\ c[c[d].prev_block].next_block = d
      BY <1>1, <1>2, <1>9, <2>3 DEF Linked
    <3>2. c[d].prev_block # top /\ c[d].prev_block # down
      BY <2>3, <3>1
    <3> QED BY <1>2, <3>1, <3>2
  <2> QED BY <2>1, <2>2, <2>3
<1>10. Linked(e)
  BY <1>6, <1>7, <1>8, <1>9 DEF Linked
<1>11. FreeUpToLimit(e)
  BY <1>1, <1>2, <1>4 DEF FreeUpToLimit, FreeBlocks
<1> QED BY <1>2, <1>10, <1>11 DEF SoundChain

(* What a merge with the next block leaves: b stays free, and nothing else *)
(* is disturbed but the block that was merged away.                        *)
LEMMA MergeNextSound ==
  ASSUME NEW c, SoundChain(c), NEW b \in FreeBlocks(c),
         \A d \in FreeBlocks(c) : NextIsFree(c, d) => d = b \/ c[d].next_block = b,
         NEW e, e = MergeNext(c, b)
  PROVE  /\ SoundChain(e)
         /\ b \in FreeBlocks(e)
         /\ DOMAIN e = IF NextIsFree(c, b) THEN DOMAIN c \ {c[b].next_block} ELSE DOMAIN c
         /\ e[b].prev_block = c[b].prev_block
         /\ \A d \in DOMAIN e : /\ e[d].base_address = c[d].base_address
                                /\ d # b => /\ e[d].is_free = c[d].is_free
                                            /\ e[d].block_size = c[d].block_size
         /\ \A d \in FreeBlocks(e) : NextIsFree(e, d) => e[d].next_block = b
<1>1. CASE ~NextIsFree(c, b)
  <2>1. e = c
    BY <1>1 DEF MergeNext
  <2> QED BY <1>1, <2>1
<1>2. CASE NextIsFree(c, b)
  <2> DEFINE top == c[b].next_block
  <2>1. /\ TypedChain(c) /\ Linked(c)
        /\ b \in DOMAIN c /\ top # NoBlock /\ top \in DOMAIN c /\ top \in FreeBlocks(c)
        /\ b # top
    BY <1>2, ChainNumbers DEF SoundChain, FreeBlocks, Linked, NextIsFree
  <2>2. e = Bind(c, b, top)
    BY <1>2 DEF MergeNext
  <2>3. SoundChain(e)
    BY <2>1, <2>2, BindSound
  <2>4. /\ DOMAIN e = DOMAIN c \ {top}
        /\ b \in DOMAIN e
        /\ e[b].is_free
        /\ e[b].next_block = c[top].next_block
        /\ e[b].prev_block = c[b].prev_block
        /\ \A d \in DOMAIN e :
             /\ e[d].base_address = c[d].base_address
             /\ d # b => /\ e[d].is_free = c[d].is_free
                         /\ e[d].block_size = c[d].block_size
                         /\ e[d].next_block = c[d].next_block
    BY <2>1, <2>2, BindFields, Z3
  <2>5. ASSUME NEW d \in FreeBlocks(e), NextIsFree(e, d)
        PROVE  e[d].next_block = b
    <3>1. d \in DOMAIN e /\ d \in FreeBlocks(c) /\ d # top
      BY <2>1, <2>4 DEF FreeBlocks
    <3>2. e[d].next_block # NoBlock /\ e[d].next_block \in DOMAIN e
          /\ e[e[d].next_block].is_free
      BY <2>3, <2>5, <3>1 DEF NextIsFree, SoundChain, Linked
    <3>3. CASE d = b
      <4>1. c[top].next_block # NoBlock /\ c[top].next_block \in DOMAIN c
        BY <2>4, <3>2, <3>3
      <4>2. c[top].next_block # b
        BY <2>1, <4>1, ChainNumbers DEF Linked
      <4>3. c[c[top].next_block].is_free
        BY <2>4, <3>2, <3>3, <4>2
      <4>4. NextIsFree(c, top)
        BY <4>1, <4>3 DEF NextIsFree
      <4> QED BY <2>1, <4>2, <4>4
    <3>4. CASE d # b
      <4>1. e[d].next_block = c[d].next_block
        BY <2>4, <3>1, <3>4
      <4>2. CASE c[d].next_block # b
        <5>1. c[c[d].next_block].is_free
          BY <2>4, <3>2, <4>1, <4>2
        <5> QED BY <3>1, <3>2, <3>4, <4>1, <4>2, <5>1 DEF NextIsFree
      <4> QED BY <4>1, <4>2
    <3> QED BY <3>3, <3>4
  <2> QED BY <1>2, <2>3, <2>4, <2>5 DEF FreeBlocks
<1> QED BY <1>1, <1>2

(* What a merge into the previous block leaves: a good chain. *)
LEMMA MergePrevGood ==
  ASSUME NEW c, SoundChain(c), NEW b \in FreeBlocks(c),
         \A d \in FreeBlocks(c) : NextIsFree(c, d) => c[d].next_block = b,
         NEW e, e = MergePrev(c, b)
  PROVE  /\ GoodChain(e)
         /\ FreedBlock(c, b) \in FreeBlocks(e)
         /\ DOMAIN e = IF PrevIsFree(c, b) THEN DOMAIN c \ {b} ELSE DOMAIN c
         /\ \A d \in DOMAIN e : /\ e[d].base_address = c[d].base_address
                                /\ d # FreedBlock(c, b) =>
                                     /\ e[d].is_free = c[d].is_free
                                     /\ e[d].block_size = c[d].block_size
<1>1. CASE ~PrevIsFree(c, b)
  <2>1. e = c /\ FreedBlock(c, b) = b
    BY <1>1 DEF MergePrev, FreedBlock
  <2>2. Coalesced(c)
    <3> SUFFICES ASSUME NEW d \in FreeBlocks(c), NextIsFree(c, d) PROVE FALSE
      BY DEF Coalesced
    <3>1. d \in DOMAIN c /\ c[d].is_free /\ c[d].next_block = b /\ b # NoBlock
      BY DEF FreeBlocks, NextIsFree
    <3>2. c[b].prev_block = d /\ d # NoBlock
      BY <3>1, ChainNumbers DEF SoundChain, Linked, NoBlock
    <3> QED BY <1>1, <3>1, <3>2 DEF PrevIsFree
  <2> QED BY <1>1, <2>1, <2>2 DEF GoodChain, SoundChain
<1>2. CASE PrevIsFree(c, b)
  <2> DEFINE down == c[b].prev_block
  <2>1. /\ TypedChain(c) /\ Linked(c)
        /\ b \in DOMAIN c /\ down # NoBlock /\ down \in DOMAIN c /\ down \in FreeBlocks(c)
        /\ c[down].next_block = b
    BY <1>2 DEF SoundChain, FreeBlocks, Linked, PrevIsFree
  <2>2. e = Bind(c, down, b) /\ FreedBlock(c, b) = down
    BY <1>2 DEF MergePrev, FreedBlock
  <2> HIDE DEF down
  <2>3. SoundChain(e)
    BY <2>1, <2>2, BindSound
  <2>4. /\ DOMAIN e = DOMAIN c \ {b}
        /\ down \in DOMAIN e
        /\ e[down].is_free
        /\ e[down].next_block = c[b].next_block
        /\ \A d \in DOMAIN e :
             /\ e[d].base_address = c[d].base_address
             /\ d # down => /\ e[d].is_free = c[d].is_free
                            /\ e[d].block_size = c[d].block_size
                            /\ e[d].next_block = c[d].next_block
    BY <2>1, <2>2, BindFields, Z3
  <2>5. Coalesced(e)
    <3> SUFFICES ASSUME NEW d \in FreeBlocks(e), NextIsFree(e, d) PROVE FALSE
      BY DEF Coalesced
    <3>1. d \in DOMAIN e /\ d \in FreeBlocks(c) /\ d # b
      BY <2>1, <2>4 DEF FreeBlocks
    <3>2. e[d].next_block # NoBlock /\ e[d].next_block \in DOMAIN e
          /\ e[e[d].next_block].is_free
      BY <2>3, <3>1 DEF NextIsFree, SoundChain, Linked
    <3>3. e[d].next_block \in DOMAIN c /\ c[e[d].next_block].is_free /\ e[d].next_block # b
      BY <2>1, <2>4, <3>2 DEF FreeBlocks
    <3>4. CASE d = down
      <4>1. NextIsFree(c, b) /\ c[b].next_block # b
        BY <2>4, <3>2, <3>3, <3>4 DEF NextIsFree
      <4> QED BY <4>1
    <3>5. CASE d # down
      <4>1. NextIsFree(c, d) /\ c[d].next_block # b
        BY <2>4, <3>1, <3>2, <3>3, <3>5 DEF NextIsFree
      <4> QED BY <3>1, <4>1
    <3> QED BY <3>4, <3>5
  <2> QED BY <1>2, <2>2, <2>3, <2>4, <2>5 DEF GoodChain, SoundChain, FreeBlocks
<1> QED BY <1>1, <1>2

(* The blocks after allocator_free_block: the bytes of b are in the free   *)
(* block w, the other live blocks stay as they are, and so do the free     *)
(* blocks that are not b's neighbours; no other block is free.             *)
Freed(c, b, w, e) ==
  /\ GoodChain(e)
  /\ w \in FreeBlocks(e)
  /\ DOMAIN e \subseteq DOMAIN c
  /\ \A d \in DOMAIN e : e[d].base_address = c[d].base_address
  /\ LiveBlocks(e) = LiveBlocks(c) \ {b}
  /\ \A d \in LiveBlocks(e) : e[d].block_size = c[d].block_size
  /\ \A d \in FreeBlocks(c) :
       /\ NextIsFree(c, b) => d # c[b].next_block
       /\ PrevIsFree(c, b) => d # c[b].prev_block
       => /\ d \in FreeBlocks(e)
          /\ d # w
          /\ e[d].block_size = c[d].block_size
  /\ \A d \in FreeBlocks(e) :
       d # w => /\ d \in FreeBlocks(c)
                /\ NextIsFree(c, b) => d # c[b].next_block
                /\ PrevIsFree(c, b) => d # c[b].prev_block

LEMMA FreeGood ==
  ASSUME NEW c, GoodChain(c), NEW b, b \in LiveBlocks(c),
         NEW e, e = Free(c, b),
         NEW w, w = FreedBlock(c, b)
  PROVE  Freed(c, b, w, e)
<1> DEFINE r == Release(c, b)
           m == MergeNext(r, b)
<1>1. /\ TypedChain(c) /\ Linked(c) /\ b \in DOMAIN c /\ ~c[b].is_free /\ b \in Nat
  BY ChainNumbers DEF GoodChain, LiveBlocks
<1>2. /\ SoundChain(r)
      /\ DOMAIN r = DOMAIN c
      /\ b \in FreeBlocks(r)
      /\ \A d \in DOMAIN c : /\ r[d].next_block = c[d].next_block
                             /\ r[d].prev_block = c[d].prev_block
                             /\ r[d].base_address = c[d].base_address
                             /\ d # b => r[d] = c[d]
      /\ \A d \in FreeBlocks(r) : NextIsFree(r, d) => d = b \/ r[d].next_block = b
  BY ReleaseSound, Z3
<1> HIDE DEF r
<1>3. /\ SoundChain(m)
      /\ b \in FreeBlocks(m)
      /\ DOMAIN m = IF NextIsFree(r, b) THEN DOMAIN r \ {r[b].next_block} ELSE DOMAIN r
      /\ m[b].prev_block = r[b].prev_block
      /\ \A d \in DOMAIN m : /\ m[d].base_address = r[d].base_address
                             /\ d # b => /\ m[d].is_free = r[d].is_free
                                         /\ m[d].block_size = r[d].block_size
      /\ \A d \in FreeBlocks(m) : NextIsFree(m, d) => m[d].next_block = b
  BY <1>2, MergeNextSound, Z3
<1> HIDE DEF m
<1>4. e = MergePrev(m, b)
  BY DEF Free, m, r
<1>5. /\ GoodChain(e)
      /\ FreedBlock(m, b) \in FreeBlocks(e)
      /\ DOMAIN e = IF PrevIsFree(m, b) THEN DOMAIN m \ {b} ELSE DOMAIN m
      /\ \A d \in DOMAIN e : /\ e[d].base_address = m[d].base_address
                             /\ d # FreedBlock(m, b) =>
                                  /\ e[d].is_free = m[d].is_free
                                  /\ e[d].block_size = m[d].block_size
  BY <1>3, <1>4, MergePrevGood, Z3
<1>6. /\ c[b].next_block # NoBlock => /\ c[b].next_block \in DOMAIN c
                                      /\ b < c[b].next_block
      /\ c[b].prev_block # NoBlock => /\ c[b].prev_block \in DOMAIN c
                                      /\ c[b].prev_block < b
  <2>1. c[b].prev_block # NoBlock =>
          c[b].prev_block \in DOMAIN c /\ c[c[b].prev_block].next_block = b
    BY <1>1 DEF Linked
  <2> QED BY <1>1, <2>1, ChainNumbers DEF Linked, NoBlock
<1>7. \A x \in DOMAIN c : x \in Nat
  BY <1>1, ChainNumbers
<1>8. NextIsFree(r, b) <=> NextIsFree(c, b)
  BY <1>1, <1>2, <1>6, <1>7 DEF NextIsFree
<1>9. c[b].prev_block # NoBlock => c[b].prev_block \in DOMAIN m /\ c[b].prev_block # b
  BY <1>1, <1>2, <1>3, <1>6, <1>7, <1>8 DEF NextIsFree
<1>10. (PrevIsFree(m, b) <=> PrevIsFree(c, b)) /\ FreedBlock(m, b) = w
  <2>1. m[b].prev_block = c[b].prev_block
    BY <1>1, <1>2, <1>3
  <2>2. PrevIsFree(m, b) <=> PrevIsFree(c, b)
    BY <1>2, <1>3, <1>6, <1>9, <2>1 DEF PrevIsFree
  <2> QED BY <2>1, <2>2 DEF FreedBlock
<1>11. /\ DOMAIN e \subseteq DOMAIN c
       /\ \A d \in DOMAIN e : e[d].base_address = c[d].base_address
  BY <1>2, <1>3, <1>5
<1>12. \A d \in DOMAIN e : d # w /\ d # b =>
          e[d].is_free = c[d].is_free /\ e[d].block_size = c[d].block_size
  BY <1>2, <1>3, <1>5, <1>10
<1>13. ASSUME NEW d \in DOMAIN c, d # b, d \notin DOMAIN e
       PROVE  NextIsFree(c, b) /\ d = c[b].next_block
  BY <1>1, <1>2, <1>3, <1>5, <1>8, <1>13
<1>14. w = b \/ (PrevIsFree(c, b) /\ w = c[b].prev_block)
  BY DEF FreedBlock
<1>15. LiveBlocks(e) = LiveBlocks(c) \ {b}
  <2>1. ASSUME NEW d \in LiveBlocks(e) PROVE d \in LiveBlocks(c) \ {b}
    <3>1. d \in DOMAIN e /\ ~e[d].is_free /\ d # w
      BY <1>5, <1>10 DEF LiveBlocks, FreeBlocks
    <3>2. CASE d = b
      <4>1. PrevIsFree(c, b)
        BY <1>14, <3>1, <3>2
      <4> QED BY <1>5, <1>10, <3>1, <3>2, <4>1
    <3>3. CASE d # b
      BY <1>11, <1>12, <3>1, <3>3 DEF LiveBlocks
    <3> QED BY <3>2, <3>3
  <2>2. ASSUME NEW d \in LiveBlocks(c) \ {b} PROVE d \in LiveBlocks(e)
    <3>1. d \in DOMAIN c /\ ~c[d].is_free /\ d # b
      BY <2>2 DEF LiveBlocks
    <3>2. d \in DOMAIN e
      BY <1>13, <3>1 DEF NextIsFree
    <3>3. d # w
      BY <1>14, <3>1 DEF PrevIsFree
    <3> QED BY <1>12, <3>1, <3>2, <3>3 DEF LiveBlocks
  <2> QED BY <2>1, <2>2
<1>16. \A d \in LiveBlocks(e) : e[d].block_size = c[d].block_size
  <2> TAKE d \in LiveBlocks(e)
  <2>1. d \in DOMAIN e /\ d # w /\ d # b
    BY <1>5, <1>10, <1>15 DEF LiveBlocks, FreeBlocks
  <2> QED BY <1>12, <2>1
<1>17. ASSUME NEW d \in FreeBlocks(c),
              NextIsFree(c, b) => d # c[b].next_block,
              PrevIsFree(c, b) => d # c[b].prev_block
       PROVE  /\ d \in FreeBlocks(e)
              /\ d # w
              /\ e[d].block_size = c[d].block_size
  <2>1. d \in DOMAIN c /\ c[d].is_free /\ d # b
    BY <1>1 DEF FreeBlocks
  <2>2. d \in DOMAIN e /\ d # w
    BY <1>13, <1>14, <1>17, <2>1
  <2> QED BY <1>12, <2>1, <2>2 DEF FreeBlocks
<1>18. ASSUME NEW d \in FreeBlocks(e), d # w
       PROVE  /\ d \in FreeBlocks(c)
              /\ NextIsFree(c, b) => d # c[b].next_block
              /\ PrevIsFree(c, b) => d # c[b].prev_block
  <2>1. d \in DOMAIN e /\ e[d].is_free
    BY DEF FreeBlocks
  <2>2. d # b
    BY <1>5, <1>10, <1>14, <1>18, <2>1
  <2>3. d \in FreeBlocks(c)
    BY <1>11, <1>12, <1>18, <2>1, <2>2 DEF FreeBlocks
  <2>4. NextIsFree(c, b) => d # c[b].next_block
    BY <1>1, <1>2, <1>3, <1>5, <1>8, <2>1
  <2>5. PrevIsFree(c, b) => d # c[b].prev_block
    BY <1>18 DEF FreedBlock
  <2> QED BY <2>3, <2>4, <2>5
<1> QED BY <1>5, <1>10, <1>11, <1>15, <1>16, <1>17, <1>18 DEF Freed

-----------------------------------------------------------------------------
(* The blocks after allocator_init. *)
LEMMA InitialChainFields ==
  ASSUME NEW base \in Nat, NEW e, e = InitialChain(base)
  PROVE  /\ GoodChain(e)
         /\ DOMAIN e = {FirstBlock}
         /\ e[FirstBlock].is_free
         /\ e[FirstBlock].base_address = base
         /\ e[FirstBlock].block_size \in Nat
<1>1. GoodChain(e)
  BY InitialChainGood
<1>2. DOMAIN e = {FirstBlock}
  BY DEF InitialChain
<1>3. e[FirstBlock].is_free /\ e[FirstBlock].base_address = base
  BY DEF InitialChain
<1> QED BY <1>1, <1>2, <1>3, ChainNumbers DEF GoodChain

(* The blocks after allocator_alloc_mem: the block handed out is live and  *)
(* has the size asked for, what is left of it is free, and the other       *)
(* blocks are as they were.                                                *)
Allocated(c, b, size, n, e) ==
  /\ GoodChain(e)
  /\ b \in DOMAIN c /\ b \in DOMAIN e /\ ~e[b].is_free /\ e[b].block_size = size
  /\ DOMAIN e = IF Splits(c, b, size) THEN DOMAIN c \cup {n} ELSE DOMAIN c
  /\ \A d \in DOMAIN c : /\ e[d].base_address = c[d].base_address
                         /\ d # b => /\ e[d].is_free = c[d].is_free
                                     /\ e[d].block_size = c[d].block_size
  /\ Splits(c, b, size) => /\ n \notin DOMAIN c /\ n \in Nat
                           /\ e[n].is_free
                           /\ e[n].base_address = c[b].base_address

LEMMA AllocateFields ==
  ASSUME NEW c, GoodChain(c), NEW b, b \in FreeBlocks(c), NEW size, size \in Nat,
         size <= c[b].block_size,
         NEW n, n = SplitOffset(b, size),
         NEW e, e = Allocate(c, b, size)
  PROVE  Allocated(c, b, size, n, e)
<1>1. GoodChain(e)
  BY AllocateGood
<1>2. b \in DOMAIN c /\ TypedChain(c)
  BY DEF FreeBlocks, GoodChain
<1>3. CASE Splits(c, b, size)
  <2>1. e = Split(c, b, size)
    BY <1>3 DEF Allocate
  <2>2. /\ TypedChain(e)
        /\ DOMAIN e = DOMAIN c \cup {n}
        /\ e[n].is_free /\ e[n].block_size = c[b].block_size - size - MetaSize
        /\ e[n].prev_block = b /\ e[n].next_block = c[b].next_block
        /\ e[n].base_address = c[b].base_address
        /\ ~e[b].is_free /\ e[b].block_size = size
        /\ e[b].next_block = n /\ e[b].prev_block = c[b].prev_block
        /\ \A d \in DOMAIN c :
             /\ e[d].base_address = c[d].base_address
             /\ d # b => /\ e[d].is_free = c[d].is_free
                         /\ e[d].block_size = c[d].block_size
                         /\ e[d].next_block = c[d].next_block
                         /\ e[d].prev_block = IF d = c[b].next_block THEN n
                                              ELSE c[d].prev_block
    BY <1>3, <2>1, SplitFields, Z3
  <2>3. n \notin DOMAIN c /\ n \in Nat
    BY <1>3, SplitOffsetIsNew, Z3
  <2> QED BY <1>1, <1>2, <1>3, <2>2, <2>3 DEF Allocated
<1>4. CASE ~Splits(c, b, size)
  <2>1. e = Take(c, b, size)
    BY <1>4 DEF Allocate
  <2>2. /\ DOMAIN e = DOMAIN c
        /\ ~e[b].is_free /\ e[b].block_size = size
        /\ \A d \in DOMAIN c : /\ d # b => e[d] = c[d]
                               /\ e[d].base_address = c[d].base_address
    BY <1>2, <2>1, TakeFields, Z3
  <2> QED BY <1>1, <1>2, <1>4, <2>2 DEF Allocated
<1> QED BY <1>3, <1>4

(* The block that ends the chain is the last one of the page. *)
LEMMA LastBlock ==
  ASSUME NEW c, GoodChain(c), NEW b \in DOMAIN c, c[b].next_block = NoBlock,
         NEW d \in DOMAIN c
  PROVE  d <= b
<1>1. d <= b \/ DB_PAGE_DEF_SIZE <= d
  BY DEF GoodChain, Linked, LimitOf
<1>2. EndOf(c, d) <= DB_PAGE_DEF_SIZE
  BY ChainNumbers, PageLayout DEF GoodChain, Linked
<1> QED BY <1>1, <1>2, ChainNumbers, PageLayout DEF GoodChain

(* The chain goes from a block straight to the next one. *)
LEMMA NextBlock ==
  ASSUME NEW c, GoodChain(c), NEW b \in DOMAIN c, c[b].next_block # NoBlock,
         NEW n, n = c[b].next_block
  PROVE  /\ n \in DOMAIN c /\ b < n
         /\ \A d \in DOMAIN c : d <= b \/ n <= d
<1>1. n \in DOMAIN c /\ b < n
  BY DEF GoodChain, Linked
<1>2. \A d \in DOMAIN c : d <= b \/ n <= d
  BY DEF GoodChain, Linked, LimitOf
<1> QED BY <1>1, <1>2

(* A page without live blocks is one free block. *)
LEMMA EmptyIsWhole ==
  ASSUME NEW c, GoodChain(c), LiveBlocks(c) = {}
  PROVE  SpansPage(c)
<1> DEFINE f == FirstBlock
<1>1. f \in DOMAIN c /\ c[f].is_free
  BY DEF GoodChain, Linked, LiveBlocks
<1>2. c[f].next_block = NoBlock
  <2> SUFFICES ASSUME c[f].next_block # NoBlock PROVE FALSE
    OBVIOUS
  <2>1. c[f].next_block \in DOMAIN c
    BY <1>1, NextBlock
  <2>2. c[c[f].next_block].is_free
    BY <2>1 DEF LiveBlocks
  <2> QED BY <1>1, <2>2 DEF GoodChain, Coalesced, FreeBlocks, NextIsFree
<1>3. EndOf(c, f) = DB_PAGE_DEF_SIZE
  BY <1>1, <1>2 DEF GoodChain, FreeUpToLimit, FreeBlocks, LimitOf
<1>4. /\ EndOf(c, f) = f + MetaSize + c[f].block_size
      /\ c[f].block_size \in Nat
  BY <1>1, ChainNumbers DEF GoodChain
<1>5. DB_PAGE_DEF_SIZE = c[f].block_size + MetaSize + PageHdrSize
  BY <1>3, <1>4, PageLayout DEF FirstBlock
<1> QED BY <1>1, <1>5 DEF SpansPage

(* Writing the base_address of one block changes nothing else. *)
WithBase(c, b, base) == [c EXCEPT ![b].base_address = base]

Rebased(c, b, base, e) ==
  /\ GoodChain(e)
  /\ DOMAIN e = DOMAIN c
  /\ e[b].base_address = base
  /\ \A d \in DOMAIN c : /\ d # b => e[d] = c[d]
                         /\ e[d].is_free = c[d].is_free
                         /\ e[d].block_size = c[d].block_size
                         /\ e[d].next_block = c[d].next_block
                         /\ e[d].prev_block = c[d].prev_block

LEMMA RebaseBlockGood ==
  ASSUME NEW c, GoodChain(c), NEW b, b \in DOMAIN c, NEW base, base \in Nat,
         NEW e, e = WithBase(c, b, base)
  PROVE  Rebased(c, b, base, e)
<1>1. TypedChain(c) /\ Linked(c) /\ FreeUpToLimit(c) /\ Coalesced(c) /\ c[b] \in Meta
  BY DEF GoodChain, TypedChain
<1>2. /\ DOMAIN e = DOMAIN c
      /\ e = [d \in DOMAIN e |-> e[d]]
      /\ \A d \in DOMAIN c : d # b => e[d] = c[d]
      /\ e[b] = [c[b] EXCEPT !.base_address = base]
  BY <1>1 DEF TypedChain, WithBase
<1>3. /\ e[b] \in Meta
      /\ e[b].base_address = base
      /\ e[b].is_free = c[b].is_free
      /\ e[b].block_size = c[b].block_size
      /\ e[b].next_block = c[b].next_block
      /\ e[b].prev_block = c[b].prev_block
  BY <1>1, <1>2 DEF Meta
<1>4. TypedChain(e)
  BY <1>1, <1>2, <1>3 DEF TypedChain
<1>5. \A d \in DOMAIN c : /\ e[d].is_free = c[d].is_free
                          /\ e[d].block_size = c[d].block_size
                          /\ e[d].next_block = c[d].next_block
                          /\ e[d].prev_block = c[d].prev_block
  BY <1>2, <1>3
<1>6. \A d \in DOMAIN c : LimitOf(e, d) = LimitOf(c, d) /\ EndOf(e, d) = EndOf(c, d)
  BY <1>5 DEF LimitOf, EndOf
<1>7. Linked(e)
  <2>1. \A d \in DOMAIN c : d \in Nat
    BY <1>1 DEF TypedChain
  <2>2. ASSUME NEW d \in DOMAIN c
        PROVE  /\ FirstBlock <= d
               /\ EndOf(e, d) <= LimitOf(e, d)
               /\ LimitOf(e, d) <= DB_PAGE_DEF_SIZE
               /\ \A x \in DOMAIN c : x <= d \/ LimitOf(e, d) <= x
    BY <1>1, <1>6 DEF Linked
  <2>3. ASSUME NEW d \in DOMAIN c, c[d].next_block # NoBlock
        PROVE  /\ d < c[d].next_block
               /\ c[d].next_block \in DOMAIN c
               /\ c[c[d].next_block].prev_block = d
    BY <1>1, <2>3 DEF Linked
  <2>4. ASSUME NEW d \in DOMAIN c, c[d].prev_block # NoBlock
        PROVE  /\ c[d].prev_block \in DOMAIN c
               /\ c[c[d].prev_block].next_block = d
    BY <1>1, <2>4 DEF Linked
  <2>5. FirstBlock \in DOMAIN e
    BY <1>1, <1>2 DEF Linked
  <2>6. \A d \in DOMAIN e : e[d].next_block # NoBlock =>
          /\ d < e[d].next_block
          /\ e[d].next_block \in DOMAIN e
          /\ e[e[d].next_block].prev_block = d
    BY <1>2, <1>5, <2>3
  <2>7. \A d \in DOMAIN e : e[d].prev_block # NoBlock =>
          /\ e[d].prev_block \in DOMAIN e
          /\ e[e[d].prev_block].next_block = d
    BY <1>2, <1>5, <2>4
  <2> QED BY <1>2, <2>2, <2>5, <2>6, <2>7 DEF Linked
<1>8. FreeUpToLimit(e)
  BY <1>1, <1>2, <1>5, <1>6 DEF FreeUpToLimit, FreeBlocks
<1>9. Coalesced(e)
  <2> SUFFICES ASSUME NEW d \in FreeBlocks(e), NextIsFree(e, d) PROVE FALSE
    BY DEF Coalesced
  <2>1. d \in FreeBlocks(c) /\ e[d].next_block = c[d].next_block
    BY <1>2, <1>5 DEF FreeBlocks
  <2>2. c[d].next_block # NoBlock /\ c[d].next_block \in DOMAIN c
    BY <1>1, <2>1 DEF NextIsFree, Linked, FreeBlocks
  <2>3. NextIsFree(c, d)
    BY <1>5, <2>1, <2>2 DEF NextIsFree
  <2> QED BY <1>1, <2>1, <2>3 DEF Coalesced
<1> QED BY <1>2, <1>3, <1>4, <1>5, <1>7, <1>8, <1>9 DEF GoodChain, Rebased

-----------------------------------------------------------------------------
(* The free list as a sequence. *)

(* The elements of a sequence into which one was inserted. *)
LEMMA InsertAtElements ==
  ASSUME NEW S, NEW s \in Seq(S), NEW e \in S, NEW i \in 1..Len(s) + 1,
         NEW t, t = InsertAt(s, i, e)
  PROVE  /\ t \in Seq(S)
         /\ Len(t) = Len(s) + 1
         /\ \A k \in 1..Len(s) + 1 :
              t[k] = IF k < i THEN s[k] ELSE IF k = i THEN e ELSE s[k - 1]
<1> DEFINE a == SubSeq(s, 1, i - 1)
           z == SubSeq(s, i, Len(s))
<1>1. /\ a \in Seq(S) /\ Len(a) = i - 1
      /\ \A k \in 1..i - 1 : a[k] = s[k]
  OBVIOUS
<1>2. /\ z \in Seq(S) /\ Len(z) = Len(s) - i + 1
      /\ \A k \in 1..Len(s) - i + 1 : z[k] = s[i + k - 1]
  OBVIOUS
<1>3. t = a \o <<e>> \o z
  BY DEF InsertAt
<1> HIDE DEF a, z
<1> DEFINE h == a \o <<e>>
<1>4. /\ h \in Seq(S) /\ Len(h) = i
      /\ \A k \in 1..i : h[k] = IF k < i THEN s[k] ELSE e
  BY <1>1
<1>5. t = h \o z
  BY <1>3
<1> HIDE DEF h
<1>6. t \in Seq(S) /\ Len(t) = Len(s) + 1
  <2>1. t \in Seq(S) /\ Len(t) = Len(h) + Len(z)
    <3> HIDE DEF z
    <3> QED BY <1>2, <1>4, <1>5, ConcatProperties, ZenonT(60)
  <2>2. Len(s) \in Nat
    OBVIOUS
  <2> QED BY <1>2, <1>4, <2>1, <2>2
<1>7. ASSUME NEW k \in 1..Len(s) + 1
      PROVE  t[k] = IF k < i THEN s[k] ELSE IF k = i THEN e ELSE s[k - 1]
  <2>1. CASE k <= i
    BY <1>2, <1>4, <1>5, <2>1
  <2>2. CASE i < k
    <3>1. t[k] = z[k - i]
      BY <1>2, <1>4, <1>5, <2>2
    <3> QED BY <1>2, <2>2, <3>1
  <2> QED BY <2>1, <2>2
<1> QED BY <1>6, <1>7

(* The elements of t are those of s but the one at i. *)
OmitsAt(t, s, i) ==
  /\ Len(t) = Len(s) - 1
  /\ \A k \in 1..Len(s) - 1 : t[k] = IF k < i THEN s[k] ELSE s[k + 1]

(* The elements of a sequence from which one was removed. *)
LEMMA RemoveAtElements ==
  ASSUME NEW S, NEW s \in Seq(S), NEW i \in 1..Len(s),
         NEW t, t = RemoveAt(s, i)
  PROVE  t \in Seq(S) /\ OmitsAt(t, s, i)
<1> DEFINE a == SubSeq(s, 1, i - 1)
           z == SubSeq(s, i + 1, Len(s))
<1>1. /\ a \in Seq(S) /\ Len(a) = i - 1
      /\ \A k \in 1..i - 1 : a[k] = s[k]
  OBVIOUS
<1>2. /\ z \in Seq(S) /\ Len(z) = Len(s) - i
      /\ \A k \in 1..Len(s) - i : z[k] = s[i + k]
  OBVIOUS
<1>3. t = a \o z
  BY DEF RemoveAt
<1> HIDE DEF a, z
<1>4. t \in Seq(S) /\ Len(t) = Len(s) - 1
  BY <1>1, <1>2, <1>3, ConcatProperties
<1>5. ASSUME NEW k \in 1..Len(s) - 1
      PROVE  t[k] = IF k < i THEN s[k] ELSE s[k + 1]
  <2>1. CASE k < i
    BY <1>1, <1>2, <1>3, <2>1
  <2>2. CASE i <= k
    <3>1. t[k] = z[k - (i - 1)]
      BY <1>1, <1>2, <1>3, <2>2
    <3> QED BY <1>2, <2>2, <3>1
  <2> QED BY <2>1, <2>2
<1> QED BY <1>4, <1>5 DEF OmitsAt

-----------------------------------------------------------------------------
Listed(list, blk) == \E i \in DOMAIN list : list[i] = blk
Sublist(t, list)  == \A k \in DOMAIN t : Listed(list, t[k])

(* Every element of a list has a size. *)
Sized(pages, list) == \A k \in DOMAIN list : Bytes(pages, list[k]) \in Nat

(* There is a place for every block: before the first smaller one, or last. *)
LEMMA InsertPositionExists ==
  ASSUME NEW pages, NEW S, NEW list \in Seq(S), Sized(pages, list),
         NEW blk, Bytes(pages, blk) \in Nat
  PROVE  \E i \in 1..Len(list) + 1 : IsInsertPosition(pages, list, blk, i)
<1> DEFINE P == {q \in 1..Len(list) + 1 :
                   q <= Len(list) => Bytes(pages, list[q]) < Bytes(pages, blk)}
<1>1. P \subseteq Nat /\ P # {}
  <2>1. Len(list) + 1 \in P
    OBVIOUS
  <2> QED BY <2>1
<1>2. PICK i \in P : \A j \in P : ~(<<j, i>> \in OpToRel(<, Nat))
  <2> HIDE DEF P
  <2> QED BY <1>1, WFMin, NatLessThanWellFounded
<1>3. \A j \in P : ~(j < i)
  <2> HIDE DEF P
  <2> QED BY <1>1, <1>2 DEF OpToRel
<1>4. ASSUME NEW j \in 1..i - 1
      PROVE  Bytes(pages, list[j]) >= Bytes(pages, blk)
  <2>1. i \in 1..Len(list) + 1 /\ Len(list) \in Nat
    OBVIOUS
  <2>2. j \in 1..Len(list) /\ j < i
    BY <2>1
  <2>3. j \notin P
    BY <1>3, <2>2
  <2>4. ~(Bytes(pages, list[j]) < Bytes(pages, blk))
    BY <2>1, <2>2, <2>3
  <2>5. Bytes(pages, list[j]) \in Nat
    BY <2>2 DEF Sized
  <2> QED BY <2>4, <2>5
<1> QED BY <1>2, <1>4 DEF IsInsertPosition

(* The list after glthread_priority_insert. *)
LEMMA PriorityInsertElements ==
  ASSUME NEW pages, NEW S, NEW list \in Seq(S), Sized(pages, list),
         NEW blk \in S, Bytes(pages, blk) \in Nat,
         NEW t, t = PriorityInsert(pages, list, blk)
  PROVE  \E i \in 1..Len(list) + 1 :
           /\ IsInsertPosition(pages, list, blk, i)
           /\ t \in Seq(S)
           /\ Len(t) = Len(list) + 1
           /\ \A k \in 1..Len(list) + 1 :
                t[k] = IF k < i THEN list[k] ELSE IF k = i THEN blk ELSE list[k - 1]
<1> DEFINE i == CHOOSE i \in 1..Len(list) + 1 : IsInsertPosition(pages, list, blk, i)
<1>1. i \in 1..Len(list) + 1 /\ IsInsertPosition(pages, list, blk, i)
  BY InsertPositionExists
<1>2. t = InsertAt(list, i, blk)
  BY DEF PriorityInsert
<1> HIDE DEF i
<1>3. /\ t \in Seq(S)
      /\ Len(t) = Len(list) + 1
      /\ \A k \in 1..Len(list) + 1 :
           t[k] = IF k < i THEN list[k] ELSE IF k = i THEN blk ELSE list[k - 1]
  BY <1>1, <1>2, InsertAtElements, SMTT(30)
<1> QED BY <1>1, <1>3

-----------------------------------------------------------------------------
(* What the callers of the two functions rely on. *)

(* After an insertion the list has the old elements and the new one. *)
LEMMA PriorityInsertSound ==
  ASSUME NEW pages, NEW S, NEW list \in Seq(S), Sized(pages, list),
         NEW blk \in S, Bytes(pages, blk) \in Nat,
         NEW t, t = PriorityInsert(pages, list, blk)
  PROVE  /\ t \in Seq(S)
         /\ \A k \in DOMAIN t : t[k] = blk \/ \E j \in DOMAIN list : t[k] = list[j]
         /\ \A j \in DOMAIN list : \E k \in DOMAIN t : t[k] = list[j]
         /\ \E k \in DOMAIN t : t[k] = blk
         /\ NoDuplicates(list) /\ (\A j \in DOMAIN list : list[j] # blk) => NoDuplicates(t)
<1>1. PICK i \in 1..Len(list) + 1 :
           /\ t \in Seq(S)
           /\ Len(t) = Len(list) + 1
           /\ \A k \in 1..Len(list) + 1 :
                t[k] = IF k < i THEN list[k] ELSE IF k = i THEN blk ELSE list[k - 1]
  BY PriorityInsertElements, SMTT(30)
<1>2. /\ Len(list) \in Nat
      /\ DOMAIN list = 1..Len(list)
      /\ DOMAIN t = 1..Len(list) + 1
  BY <1>1
<1>3. \A k \in DOMAIN t : t[k] = blk \/ \E j \in DOMAIN list : t[k] = list[j]
  <2> TAKE k \in DOMAIN t
  <2>1. CASE k < i
    BY <1>1, <1>2, <2>1
  <2>2. CASE k = i
    BY <1>1, <1>2, <2>2
  <2>3. CASE k > i
    <3>1. k - 1 \in DOMAIN list /\ t[k] = list[k - 1]
      BY <1>1, <1>2, <2>3
    <3> QED BY <3>1
  <2> QED BY <1>2, <2>1, <2>2, <2>3
<1>4. \A j \in DOMAIN list : \E k \in DOMAIN t : t[k] = list[j]
  <2> TAKE j \in DOMAIN list
  <2>1. CASE j < i
    BY <1>1, <1>2, <2>1
  <2>2. CASE j >= i
    <3>1. j + 1 \in DOMAIN t /\ t[j + 1] = list[j]
      BY <1>1, <1>2, <2>2
    <3> QED BY <3>1
  <2> QED BY <1>2, <2>1, <2>2
<1>5. \E k \in DOMAIN t : t[k] = blk
  BY <1>1, <1>2, SMTT(40)
<1>6. ASSUME NoDuplicates(list), \A j \in DOMAIN list : list[j] # blk
      PROVE  NoDuplicates(t)
  <2> SUFFICES ASSUME NEW k \in DOMAIN t, NEW m \in DOMAIN t, t[k] = t[m]
               PROVE  k = m
    BY DEF NoDuplicates
  <2> DEFINE old(q) == IF q < i THEN q ELSE q - 1
  <2>1. \A q \in DOMAIN t : q # i => old(q) \in DOMAIN list /\ t[q] = list[old(q)]
    BY <1>1, <1>2
  <2>2. t[i] = blk /\ i \in DOMAIN t
    BY <1>1, <1>2
  <2>3. CASE k = i \/ m = i
    <3> HIDE DEF old
    <3> QED BY <1>6, <2>1, <2>2, <2>3
  <2>4. CASE k # i /\ m # i
    <3>1. list[old(k)] = list[old(m)] /\ old(k) \in DOMAIN list /\ old(m) \in DOMAIN list
      BY <2>1, <2>4
    <3>2. old(k) = old(m)
      <4> HIDE DEF old
      <4> QED BY <1>6, <3>1 DEF NoDuplicates
    <3> QED BY <1>2, <2>4, <3>2
  <2> QED BY <2>3, <2>4
<1> QED BY <1>1, <1>3, <1>4, <1>5, <1>6

(* After a removal the list has the old elements but the one removed. *)
LEMMA RemoveGlthreadSound ==
  ASSUME NEW S, NEW list \in Seq(S), NoDuplicates(list), NEW blk,
         NEW t, t = RemoveGlthread(list, blk)
  PROVE  /\ t \in Seq(S)
         /\ NoDuplicates(t)
         /\ \A k \in DOMAIN t : t[k] # blk /\ \E j \in DOMAIN list : t[k] = list[j]
         /\ \A j \in DOMAIN list : list[j] = blk \/ \E k \in DOMAIN t : t[k] = list[j]
<1>1. CASE ~ \E i \in DOMAIN list : list[i] = blk
  <2>1. t = list
    BY <1>1 DEF RemoveGlthread
  <2> QED BY <1>1, <2>1
<1>2. CASE \E i \in DOMAIN list : list[i] = blk
  <2> DEFINE i == CHOOSE i \in DOMAIN list : list[i] = blk
  <2>1. i \in DOMAIN list /\ list[i] = blk /\ t = RemoveAt(list, i)
    BY <1>2 DEF RemoveGlthread
  <2> HIDE DEF i
  <2>2. DOMAIN list = 1..Len(list) /\ Len(list) \in Nat
    OBVIOUS
  <2>3. /\ t \in Seq(S)
        /\ Len(t) = Len(list) - 1
        /\ \A k \in 1..Len(list) - 1 : t[k] = IF k < i THEN list[k] ELSE list[k + 1]
    <3>1. i \in 1..Len(list)
      BY <2>1, <2>2
    <3>2. t \in Seq(S) /\ OmitsAt(t, list, i)
      BY <2>1, <3>1, RemoveAtElements
    <3> QED BY <3>2 DEF OmitsAt
  <2>4. DOMAIN t = 1..Len(list) - 1
    BY <2>2, <2>3
  <2> DEFINE old(q) == IF q < i THEN q ELSE q + 1
  <2>5. \A q \in DOMAIN t : old(q) \in DOMAIN list /\ old(q) # i /\ t[q] = list[old(q)]
    BY <2>1, <2>2, <2>3, <2>4
  <2>6. NoDuplicates(t)
    <3> SUFFICES ASSUME NEW k \in DOMAIN t, NEW m \in DOMAIN t, t[k] = t[m]
                 PROVE  k = m
      BY DEF NoDuplicates
    <3>1. list[old(k)] = list[old(m)] /\ old(k) \in DOMAIN list /\ old(m) \in DOMAIN list
      BY <2>5
    <3>2. old(k) = old(m)
      <4> HIDE DEF old
      <4> QED BY <3>1 DEF NoDuplicates
    <3> QED BY <2>1, <2>2, <2>4, <3>2
  <2>7. \A k \in DOMAIN t : t[k] # blk /\ \E j \in DOMAIN list : t[k] = list[j]
    <3> HIDE DEF old
    <3> QED BY <2>1, <2>5 DEF NoDuplicates
  <2>8. ASSUME NEW j \in DOMAIN list, j # i
        PROVE  \E k \in DOMAIN t : t[k] = list[j]
    <3>1. CASE j < i
      BY <2>1, <2>2, <2>3, <2>4, <3>1
    <3>2. CASE j > i
      <4>1. j - 1 \in DOMAIN t /\ t[j - 1] = list[j]
        BY <2>1, <2>2, <2>3, <2>4, <3>2
      <4> QED BY <4>1
    <3> QED BY <2>1, <2>2, <2>8, <3>1, <3>2
  <2> QED BY <2>1, <2>3, <2>6, <2>7, <2>8
<1> QED BY <1>1, <1>2

-----------------------------------------------------------------------------
(* Inserting at the place the comparison function asks for keeps the order. *)
LEMMA PriorityInsertSorted ==
  ASSUME NEW pages, NEW S, NEW list \in Seq(S), Sized(pages, list),
         LargestFirst(pages, list),
         NEW blk \in S, Bytes(pages, blk) \in Nat,
         NEW t, t = PriorityInsert(pages, list, blk)
  PROVE  LargestFirst(pages, t)
<1>1. PICK i \in 1..Len(list) + 1 :
           /\ IsInsertPosition(pages, list, blk, i)
           /\ t \in Seq(S)
           /\ Len(t) = Len(list) + 1
           /\ \A k \in 1..Len(list) + 1 :
                t[k] = IF k < i THEN list[k] ELSE IF k = i THEN blk ELSE list[k - 1]
  BY PriorityInsertElements, SMTT(30)
<1>2. /\ Len(list) \in Nat
      /\ DOMAIN list = 1..Len(list)
      /\ DOMAIN t = 1..Len(list) + 1
  BY <1>1
<1> DEFINE B(q) == Bytes(pages, list[q])
           B0   == Bytes(pages, blk)
<1>3. /\ B0 \in Nat
      /\ \A q \in DOMAIN list : B(q) \in Nat
      /\ \A p, q \in DOMAIN list : p < q => B(p) >= B(q)
      /\ i <= Len(list) => B(i) < B0
      /\ \A q \in 1..i - 1 : B(q) >= B0
  BY <1>1 DEF Sized, LargestFirst, IsInsertPosition
<1>4. \A k \in DOMAIN t :
         Bytes(pages, t[k]) = IF k < i THEN B(k) ELSE IF k = i THEN B0 ELSE B(k - 1)
  BY <1>1, <1>2
<1> HIDE DEF B, B0
<1>5. \A q \in DOMAIN list : q >= i => B(q) <= B0
  <2> TAKE q \in DOMAIN list
  <2>1. CASE q = i
    BY <1>2, <1>3, <2>1
  <2>2. CASE q > i
    <3>1. i \in DOMAIN list
      BY <1>2, <2>2
    <3> QED BY <1>2, <1>3, <2>2, <3>1
  <2> QED BY <1>2, <2>1, <2>2
<1> SUFFICES ASSUME NEW k \in DOMAIN t, NEW m \in DOMAIN t, k < m
             PROVE  Bytes(pages, t[k]) >= Bytes(pages, t[m])
  BY DEF LargestFirst
<1>6. CASE m < i
  BY <1>2, <1>3, <1>4, <1>6
<1>7. CASE m = i
  BY <1>2, <1>3, <1>4, <1>7
<1>8. CASE m > i /\ k = i
  <2>1. m - 1 \in DOMAIN list /\ m - 1 >= i
    BY <1>2, <1>8
  <2> QED BY <1>2, <1>3, <1>4, <1>5, <1>8, <2>1
<1>9. CASE m > i /\ k < i
  <2>1. m - 1 \in DOMAIN list /\ k \in DOMAIN list /\ k < m - 1
    BY <1>2, <1>9
  <2> QED BY <1>2, <1>3, <1>4, <1>9, <2>1, SMTT(40)
<1>10. CASE m > i /\ k > i
  <2>1. m - 1 \in DOMAIN list /\ k - 1 \in DOMAIN list /\ k - 1 < m - 1
    BY <1>2, <1>10
  <2> QED BY <1>2, <1>3, <1>4, <1>10, <2>1
<1> QED BY <1>2, <1>6, <1>7, <1>8, <1>9, <1>10

(* Removing a block keeps the order of the others. *)
LEMMA RemoveGlthreadSorted ==
  ASSUME NEW pages, NEW S, NEW list \in Seq(S), LargestFirst(pages, list),
         NEW blk, NEW t, t = RemoveGlthread(list, blk)
  PROVE  LargestFirst(pages, t)
<1>1. CASE ~ \E i \in DOMAIN list : list[i] = blk
  BY <1>1 DEF RemoveGlthread
<1>2. CASE \E i \in DOMAIN list : list[i] = blk
  <2> DEFINE i == CHOOSE i \in DOMAIN list : list[i] = blk
  <2>1. i \in 1..Len(list) /\ t = RemoveAt(list, i)
    BY <1>2 DEF RemoveGlthread
  <2> HIDE DEF i
  <2>2. /\ t \in Seq(S)
        /\ Len(t) = Len(list) - 1
        /\ \A k \in 1..Len(list) - 1 : t[k] = IF k < i THEN list[k] ELSE list[k + 1]
    <3>1. t \in Seq(S) /\ OmitsAt(t, list, i)
      BY <2>1, RemoveAtElements
    <3> QED BY <3>1 DEF OmitsAt
  <2> DEFINE old(q) == IF q < i THEN q ELSE q + 1
  <2>3. \A q \in DOMAIN t : old(q) \in DOMAIN list /\ t[q] = list[old(q)]
    BY <2>1, <2>2
  <2>4. \A p, q \in DOMAIN t : p < q => old(p) < old(q)
    BY <2>1, <2>2
  <2> HIDE DEF old
  <2> QED BY <2>3, <2>4 DEF LargestFirst
<1> QED BY <1>1, <1>2

(* The order depends on nothing but the sizes of the blocks in the list. *)
LEMMA SameSizesSorted ==
  ASSUME NEW pages, NEW pages2, NEW list, LargestFirst(pages, list),
         \A k \in DOMAIN list : Bytes(pages2, list[k]) = Bytes(pages, list[k])
  PROVE  LargestFirst(pages2, list)
  BY DEF LargestFirst

-----------------------------------------------------------------------------
(* Calls. *)

GoodPages(P, pages) ==
  /\ DOMAIN pages = P
  /\ pages = [p \in P |-> pages[p]]
  /\ \A p \in P : GoodChain(pages[p]) \/ pages[p] = NoChain

(* What the list may name: a free block of a page that is in memory. *)
Entry(P, pages, maps, blk) ==
  /\ blk \in P \X Nat
  /\ blk[1] \in maps
  /\ blk[2] \in FreeBlocks(pages[blk[1]])
  /\ pages[blk[1]][blk[2]].base_address = blk[1]

GoodQueue(P, pages, maps, list) ==
  /\ list \in Seq(P \X Nat)
  /\ NoDuplicates(list)
  /\ LargestFirst(pages, list)
  /\ \A i \in DOMAIN list : Entry(P, pages, maps, list[i])

(* What the list should name and does not. *)
Forgotten(P, pages, maps, list) ==
  {blk \in P \X Nat : Entry(P, pages, maps, blk) /\ ~Listed(list, blk)}

(* A call that keeps pages and list in order and forgets no free memory. *)
SoundCall(P, pages, maps, list, pages2, maps2, list2) ==
  /\ GoodPages(P, pages2)
  /\ GoodQueue(P, pages2, maps2, list2)
  /\ Forgotten(P, pages2, maps2, list2) \subseteq Forgotten(P, pages, maps, list)

OthersSame(P, p, pages, pages2) == \A q \in P : q # p => pages2[q] = pages[q]

-----------------------------------------------------------------------------
(* Replacing the blocks of one page. *)
WithPage(pages, p, c) == [pages EXCEPT ![p] = c]

LEMMA PagesUpdated ==
  ASSUME NEW P, NEW pages, GoodPages(P, pages), NEW p, p \in P, NEW c, GoodChain(c),
         NEW pages2, pages2 = WithPage(pages, p, c)
  PROVE  /\ GoodPages(P, pages2)
         /\ pages2[p] = c
         /\ OthersSame(P, p, pages, pages2)
<1>1. /\ DOMAIN pages2 = P
      /\ pages2[p] = c
      /\ \A q \in P : q # p => pages2[q] = pages[q]
      /\ pages2 = [q \in P |-> pages2[q]]
  BY DEF GoodPages, WithPage
<1>2. \A q \in P : GoodChain(pages2[q]) \/ pages2[q] = NoChain
  BY <1>1 DEF GoodPages
<1> QED BY <1>1, <1>2 DEF GoodPages, OthersSame

(* A page with a block in it was initialised. *)
LEMMA UsedPage ==
  ASSUME NEW P, NEW pages, GoodPages(P, pages), NEW p \in P, NEW b \in DOMAIN pages[p]
  PROVE  /\ GoodChain(pages[p]) /\ TypedChain(pages[p])
         /\ FirstBlock \in DOMAIN pages[p]
         /\ FirstBlock <= b /\ b \in Nat
<1>1. pages[p] # NoChain
  BY DEF NoChain
<1>2. GoodChain(pages[p])
  BY <1>1 DEF GoodPages
<1> QED BY <1>2, ChainNumbers DEF GoodChain, Linked

LEMMA EntrySized ==
  ASSUME NEW P, NEW pages, GoodPages(P, pages), NEW maps, NEW blk,
         Entry(P, pages, maps, blk)
  PROVE  /\ Bytes(pages, blk) \in Nat
         /\ blk[1] \in P /\ blk[2] \in DOMAIN pages[blk[1]]
         /\ GoodChain(pages[blk[1]])
<1>1. blk[1] \in P /\ blk[2] \in DOMAIN pages[blk[1]]
  BY DEF Entry, FreeBlocks
<1> QED BY <1>1, UsedPage, ChainNumbers DEF Bytes

LEMMA QueueSized ==
  ASSUME NEW P, NEW pages, GoodPages(P, pages), NEW maps, NEW list,
         GoodQueue(P, pages, maps, list)
  PROVE  Sized(pages, list)
  BY EntrySized DEF GoodQueue, Sized

(* What is listed is an entry. *)
LEMMA ListedEntry ==
  ASSUME NEW P, NEW pages, NEW maps, NEW list, GoodQueue(P, pages, maps, list),
         NEW x, Listed(list, x)
  PROVE  Entry(P, pages, maps, x)
  BY DEF GoodQueue, Listed

(* The queue stays good when its blocks stay as they are. *)
LEMMA QueueKept ==
  ASSUME NEW P, NEW pages, NEW maps, NEW list, GoodQueue(P, pages, maps, list),
         NEW pages2, NEW maps2,
         \A x : Listed(list, x) => /\ Entry(P, pages2, maps2, x)
                                   /\ Bytes(pages2, x) = Bytes(pages, x)
  PROVE  GoodQueue(P, pages2, maps2, list)
<1>1. \A i \in DOMAIN list : /\ Entry(P, pages2, maps2, list[i])
                             /\ Bytes(pages2, list[i]) = Bytes(pages, list[i])
  BY DEF Listed
<1> QED BY <1>1, SameSizesSorted DEF GoodQueue

(* The queue stays good when a free block is added. *)
LEMMA QueueInserted ==
  ASSUME NEW P, NEW pages, GoodPages(P, pages), NEW maps,
         NEW list, GoodQueue(P, pages, maps, list),
         NEW blk, Entry(P, pages, maps, blk), ~Listed(list, blk),
         NEW t, t = PriorityInsert(pages, list, blk)
  PROVE  /\ GoodQueue(P, pages, maps, t)
         /\ \A x : Listed(t, x) <=> (x = blk \/ Listed(list, x))
<1> DEFINE S == P \X Nat
<1>1. /\ list \in Seq(S) /\ NoDuplicates(list) /\ LargestFirst(pages, list)
      /\ Sized(pages, list)
  BY QueueSized DEF GoodQueue
<1>2. blk \in S /\ Bytes(pages, blk) \in Nat
  BY EntrySized DEF Entry
<1> HIDE DEF S
<1>3. /\ t \in Seq(S)
      /\ \A k \in DOMAIN t : t[k] = blk \/ \E j \in DOMAIN list : t[k] = list[j]
      /\ \A j \in DOMAIN list : \E k \in DOMAIN t : t[k] = list[j]
      /\ \E k \in DOMAIN t : t[k] = blk
      /\ NoDuplicates(list) /\ (\A j \in DOMAIN list : list[j] # blk) => NoDuplicates(t)
  BY <1>1, <1>2, PriorityInsertSound, SMTT(30)
<1>4. LargestFirst(pages, t)
  BY <1>1, <1>2, PriorityInsertSorted
<1>5. \A k \in DOMAIN t : Entry(P, pages, maps, t[k])
  BY <1>3 DEF GoodQueue
<1>6. NoDuplicates(t)
  BY <1>1, <1>3 DEF Listed
<1>7. \A x : Listed(t, x) <=> (x = blk \/ Listed(list, x))
  BY <1>3 DEF Listed
<1> QED BY <1>3, <1>4, <1>5, <1>6, <1>7 DEF GoodQueue, S

(* The queue stays good when a block is taken off it. *)
LEMMA QueueRemoved ==
  ASSUME NEW P, NEW pages, NEW maps, NEW list, GoodQueue(P, pages, maps, list),
         NEW cond \in BOOLEAN, NEW blk,
         NEW t, t = RemoveIf(cond, list, blk)
  PROVE  /\ GoodQueue(P, pages, maps, t)
         /\ \A x : Listed(t, x) <=> (Listed(list, x) /\ ~(cond /\ x = blk))
<1>1. CASE ~cond
  BY <1>1 DEF RemoveIf
<1>2. CASE cond
  <2> DEFINE S == P \X Nat
  <2>1. t = RemoveGlthread(list, blk)
    BY <1>2 DEF RemoveIf
  <2>2. list \in Seq(S) /\ NoDuplicates(list) /\ LargestFirst(pages, list)
    BY DEF GoodQueue
  <2> HIDE DEF S
  <2>3. /\ t \in Seq(S)
        /\ NoDuplicates(t)
        /\ \A k \in DOMAIN t : t[k] # blk /\ \E j \in DOMAIN list : t[k] = list[j]
        /\ \A j \in DOMAIN list : list[j] = blk \/ \E k \in DOMAIN t : t[k] = list[j]
    BY <2>1, <2>2, RemoveGlthreadSound, SMTT(30)
  <2>4. LargestFirst(pages, t)
    BY <2>1, <2>2, RemoveGlthreadSorted
  <2>5. \A k \in DOMAIN t : Entry(P, pages, maps, t[k])
    BY <2>3 DEF GoodQueue
  <2>6. \A x : Listed(t, x) <=> (Listed(list, x) /\ x # blk)
    BY <2>3 DEF Listed
  <2> QED BY <1>2, <2>3, <2>4, <2>5, <2>6 DEF GoodQueue, S
<1> QED BY <1>1, <1>2

(* The queue without its first block. *)
LEMMA QueueTail ==
  ASSUME NEW P, NEW pages, NEW maps, NEW list, GoodQueue(P, pages, maps, list),
         list # <<>>, NEW t, t = Tail(list)
  PROVE  /\ GoodQueue(P, pages, maps, t)
         /\ Entry(P, pages, maps, Head(list))
         /\ \A x : Listed(t, x) <=> (Listed(list, x) /\ x # Head(list))
<1> DEFINE S == P \X Nat
<1>1. list \in Seq(S) /\ NoDuplicates(list) /\ LargestFirst(pages, list)
  BY DEF GoodQueue
<1> HIDE DEF S
<1>2. /\ t \in Seq(S)
      /\ Head(list) = list[1] /\ 1 \in DOMAIN list
      /\ \A k \in DOMAIN t : k + 1 \in DOMAIN list /\ t[k] = list[k + 1] /\ k \in Nat \ {0}
      /\ \A k \in DOMAIN list : k # 1 => k - 1 \in DOMAIN t /\ t[k - 1] = list[k]
  BY <1>1
<1>3. NoDuplicates(t)
  BY <1>1, <1>2 DEF NoDuplicates
<1>4. LargestFirst(pages, t)
  BY <1>1, <1>2 DEF LargestFirst
<1>5. \A x : Listed(t, x) => (Listed(list, x) /\ x # Head(list))
  BY <1>1, <1>2 DEF NoDuplicates, Listed
<1>6. \A x : Listed(list, x) /\ x # Head(list) => Listed(t, x)
  BY <1>2 DEF Listed
<1>7. /\ Entry(P, pages, maps, Head(list))
      /\ \A k \in DOMAIN t : Entry(P, pages, maps, t[k])
  BY <1>2 DEF GoodQueue
<1> QED BY <1>2, <1>3, <1>4, <1>5, <1>6, <1>7 DEF GoodQueue, S

(* An element of the list, taken apart. *)
LEMMA EntryParts ==
  ASSUME NEW P, NEW pages, NEW maps, NEW x
  PROVE  Entry(P, pages, maps, x) <=>
           \E q \in P, y \in Nat :
             /\ x = <<q, y>>
             /\ q \in maps /\ y \in DOMAIN pages[q]
             /\ pages[q][y].is_free /\ pages[q][y].base_address = q
  BY DEF Entry, FreeBlocks

-----------------------------------------------------------------------------
MappedToo(maps, p) == maps \cup {p}

(* allocator_init on page p: no element of the list lies in the page, for  *)
(* it was not in memory.                                                   *)
LEMMA InitCall ==
  ASSUME NEW P, NEW pages, GoodPages(P, pages),
         NEW maps, NEW list, GoodQueue(P, pages, maps, list),
         NEW p \in P, p \in Nat, p \notin maps,
         NEW pages2, pages2 = InitPages(pages, p),
         NEW list2, list2 = InitList(pages, list, p),
         NEW maps2, maps2 = MappedToo(maps, p)
  PROVE  /\ SoundCall(P, pages, maps, list, pages2, maps2, list2)
         /\ OthersSame(P, p, pages, pages2)
         /\ FirstBlock \in DOMAIN pages2[p]
         /\ BasedAt(pages2[p], p)
         /\ \A d : d \notin LiveBlocks(pages2[p])
         /\ list2 # <<>>
<1> DEFINE c == InitialChain(p)
           blk == <<p, FirstBlock>>
<1>1. /\ GoodChain(c) /\ DOMAIN c = {FirstBlock} /\ c[FirstBlock].is_free
      /\ c[FirstBlock].base_address = p
  BY InitialChainFields
<1>2. pages2 = WithPage(pages, p, c)
  BY DEF InitPages, WithPage
<1>3. list2 = PriorityInsert(pages2, list, blk)
  BY DEF InitList
<1> HIDE DEF c
<1>4. GoodPages(P, pages2) /\ pages2[p] = c /\ OthersSame(P, p, pages, pages2)
  BY <1>1, <1>2, PagesUpdated
<1>5. ASSUME NEW x, Listed(list, x)
      PROVE  /\ Entry(P, pages2, maps2, x)
             /\ Bytes(pages2, x) = Bytes(pages, x)
             /\ x # blk
  <2>1. Entry(P, pages, maps, x)
    BY <1>5, ListedEntry
  <2>2. x[1] \in P /\ x[1] # p /\ pages2[x[1]] = pages[x[1]]
    BY <1>4, <2>1 DEF Entry, OthersSame
  <2> QED BY <2>1, <2>2 DEF Entry, Bytes, MappedToo
<1>6. GoodQueue(P, pages2, maps2, list)
  BY <1>5, QueueKept
<1>7. Entry(P, pages2, maps2, blk)
  BY <1>1, <1>4, PageLayout DEF Entry, FreeBlocks, FirstBlock, MappedToo
<1>8. /\ GoodQueue(P, pages2, maps2, list2)
      /\ \A x : Listed(list2, x) <=> (x = blk \/ Listed(list, x))
  <2>1. ~Listed(list, blk)
    BY <1>5
  <2> HIDE DEF blk
  <2> QED BY <1>3, <1>4, <1>6, <1>7, <2>1, QueueInserted
<1>9. Forgotten(P, pages2, maps2, list2) \subseteq Forgotten(P, pages, maps, list)
  <2> SUFFICES ASSUME NEW x, Entry(P, pages2, maps2, x), ~Listed(list2, x)
               PROVE  Entry(P, pages, maps, x) /\ ~Listed(list, x)
    BY DEF Forgotten, Entry
  <2>1. x[1] # p
    <3> SUFFICES ASSUME x[1] = p PROVE FALSE
      OBVIOUS
    <3>1. x = blk
      BY <1>1, <1>4 DEF Entry, FreeBlocks
    <3> QED BY <1>8, <3>1
  <2> QED BY <1>4, <1>8, <2>1 DEF Entry, OthersSame, MappedToo
<1>10. BasedAt(pages2[p], p) /\ \A d : d \notin LiveBlocks(pages2[p])
  BY <1>1, <1>4 DEF BasedAt, LiveBlocks
<1>11. list2 # <<>>
  <2>1. Listed(list2, blk)
    BY <1>8
  <2> QED BY <2>1 DEF Listed
<1> QED BY <1>1, <1>4, <1>8, <1>9, <1>10, <1>11 DEF SoundCall

-----------------------------------------------------------------------------
(* Two states of the pages hold the same live blocks.                      *)
LiveSame(P, pages, pages2) ==
  \A p \in P : /\ LiveBlocks(pages2[p]) = LiveBlocks(pages[p])
               /\ \A b \in LiveBlocks(pages[p]) :
                    pages2[p][b].block_size = pages[p][b].block_size

(* The live blocks of more are those of less, as they are there, and block *)
(* b of page p.                                                            *)
LiveDiffer(P, less, p, b, more) ==
  /\ p \in P
  /\ b \in LiveBlocks(more[p]) /\ b \notin LiveBlocks(less[p])
  /\ \A q \in P : \A d :
       d \in LiveBlocks(more[q]) <=> (d \in LiveBlocks(less[q]) \/ (q = p /\ d = b))
  /\ \A q \in P : \A d \in LiveBlocks(less[q]) :
       more[q][d].block_size = less[q][d].block_size

(* allocator_alloc_mem: the block split off is new, so the list does not   *)
(* name it yet.                                                            *)
LEMMA AllocCall ==
  ASSUME NEW P, NEW pages, GoodPages(P, pages),
         NEW maps, NEW list, GoodQueue(P, pages, maps, list),
         list # <<>>, NEW size \in Nat, FirstFits(pages, list, size),
         NEW pages2, pages2 = AllocPages(pages, list, size),
         NEW list2, list2 = AllocList(pages, list, size),
         NEW p, p = Head(list)[1], NEW b, b = Head(list)[2]
  PROVE  /\ SoundCall(P, pages, maps, list, pages2, maps, list2)
         /\ OthersSame(P, p, pages, pages2)
         /\ p \in P /\ p \in maps
         /\ LiveDiffer(P, pages, p, b, pages2)
         /\ pages2[p][b].block_size = size
         /\ FirstBlock \in DOMAIN pages2[p]
         /\ \A base : BasedAt(pages[p], base) => BasedAt(pages2[p], base)
<1> DEFINE c == pages[p]
           e == Allocate(c, b, size)
           n == SplitOffset(b, size)
           rest == Tail(list)
<1>1. /\ GoodQueue(P, pages, maps, rest)
      /\ Entry(P, pages, maps, Head(list))
      /\ \A x : Listed(rest, x) <=> (Listed(list, x) /\ x # Head(list))
  <2>1. rest = Tail(list)
    OBVIOUS
  <2> HIDE DEF rest
  <2> QED BY <2>1, QueueTail
<1>2. /\ p \in maps /\ p \in P /\ b \in FreeBlocks(c) /\ b \in DOMAIN c /\ b \in Nat
      /\ Head(list) = <<p, b>>
      /\ GoodChain(c)
      /\ c[b].base_address = p
      /\ c[b].block_size \in Nat /\ size <= c[b].block_size
  <2>1. /\ p \in maps /\ p \in P /\ b \in FreeBlocks(c) /\ b \in Nat
        /\ Head(list) = <<p, b>>
        /\ c[b].base_address = p
    BY <1>1 DEF Entry
  <2>2. b \in DOMAIN c
    BY <2>1 DEF FreeBlocks
  <2>3. GoodChain(c)
    BY <2>1, <2>2, UsedPage
  <2>4. c[b].block_size \in Nat
    BY <2>2, <2>3, ChainNumbers DEF GoodChain
  <2>5. size <= c[b].block_size
    BY <2>4 DEF Bytes, FirstFits
  <2> QED BY <2>1, <2>2, <2>3, <2>4, <2>5
<1>3. pages2 = WithPage(pages, p, e)
  BY DEF AllocPages, WithPage
<1>4. list2 = IF Splits(c, b, size) THEN PriorityInsert(pages2, rest, <<p, n>>) ELSE rest
  BY DEF AllocList
<1>5. e = Allocate(c, b, size) /\ n = SplitOffset(b, size) /\ c = pages[p]
  OBVIOUS
<1> HIDE DEF c, e, n, rest
<1>6. /\ GoodChain(e)
      /\ b \in DOMAIN c /\ b \in DOMAIN e /\ ~e[b].is_free /\ e[b].block_size = size
      /\ DOMAIN e = IF Splits(c, b, size) THEN DOMAIN c \cup {n} ELSE DOMAIN c
      /\ \A d \in DOMAIN c : /\ e[d].base_address = c[d].base_address
                             /\ d # b => /\ e[d].is_free = c[d].is_free
                                         /\ e[d].block_size = c[d].block_size
      /\ Splits(c, b, size) => /\ n \notin DOMAIN c /\ n \in Nat
                               /\ e[n].is_free
                               /\ e[n].base_address = c[b].base_address
  <2>1. Allocated(c, b, size, n, e)
    BY <1>2, <1>5, AllocateFields
  <2> QED BY <2>1 DEF Allocated
<1>7. GoodPages(P, pages2) /\ pages2[p] = e /\ OthersSame(P, p, pages, pages2)
  BY <1>2, <1>3, <1>6, PagesUpdated
<1>8. ASSUME NEW x, Listed(rest, x)
      PROVE  /\ Entry(P, pages2, maps, x)
             /\ Bytes(pages2, x) = Bytes(pages, x)
             /\ Splits(c, b, size) => x # <<p, n>>
  <2>1. Entry(P, pages, maps, x) /\ x # <<p, b>>
    BY <1>1, <1>2, <1>8, ListedEntry
  <2>2. PICK q \in P, y \in Nat :
          /\ x = <<q, y>>
          /\ q \in maps /\ y \in DOMAIN pages[q]
          /\ pages[q][y].is_free /\ pages[q][y].base_address = q
    BY <2>1, EntryParts
  <2>3. q = p => y # b
    BY <2>1, <2>2
  <2>4. /\ y \in DOMAIN pages2[q] /\ pages2[q][y].is_free /\ pages2[q][y].base_address = q
        /\ pages2[q][y].block_size = pages[q][y].block_size
        /\ Splits(c, b, size) => <<q, y>> # <<p, n>>
    <3>1. CASE q # p
      BY <1>7, <2>2, <3>1 DEF OthersSame
    <3>2. CASE q = p
      <4>1. y \in DOMAIN c /\ y # b /\ c[y].is_free /\ c[y].base_address = p
        BY <1>5, <2>2, <2>3, <3>2
      <4>2. Splits(c, b, size) => y # n
        BY <1>6, <4>1
      <4>3. /\ y \in DOMAIN e /\ e[y].is_free /\ e[y].base_address = p
            /\ e[y].block_size = c[y].block_size
        BY <1>6, <4>1
      <4> QED BY <1>5, <1>7, <3>2, <4>2, <4>3
    <3> QED BY <3>1, <3>2
  <2>5. Entry(P, pages2, maps, x)
    BY <2>2, <2>4, EntryParts
  <2>6. Bytes(pages2, x) = Bytes(pages, x)
    BY <2>2, <2>4 DEF Bytes
  <2> QED BY <2>2, <2>4, <2>5, <2>6
<1>9. GoodQueue(P, pages2, maps, rest)
  BY <1>1, <1>8, QueueKept
<1>10. /\ GoodQueue(P, pages2, maps, list2)
       /\ \A x : Listed(list2, x) <=> (Listed(rest, x) \/ (Splits(c, b, size) /\ x = <<p, n>>))
  <2>1. CASE ~Splits(c, b, size)
    BY <1>4, <1>9, <2>1
  <2>2. CASE Splits(c, b, size)
    <3>1. Entry(P, pages2, maps, <<p, n>>)
      BY <1>2, <1>6, <1>7, <2>2 DEF Entry, FreeBlocks
    <3>2. ~Listed(rest, <<p, n>>)
      BY <1>8, <2>2
    <3>3. list2 = PriorityInsert(pages2, rest, <<p, n>>)
      BY <1>4, <2>2
    <3> DEFINE blk == <<p, n>>
    <3> HIDE DEF blk
    <3>4. /\ GoodQueue(P, pages2, maps, list2)
          /\ \A x : Listed(list2, x) <=> (x = blk \/ Listed(rest, x))
      BY <1>7, <1>9, <3>1, <3>2, <3>3, QueueInserted DEF blk
    <3> QED BY <2>2, <3>4 DEF blk
  <2> QED BY <2>1, <2>2
<1>11. Forgotten(P, pages2, maps, list2) \subseteq Forgotten(P, pages, maps, list)
  <2> SUFFICES ASSUME NEW x, Entry(P, pages2, maps, x), ~Listed(list2, x)
               PROVE  Entry(P, pages, maps, x) /\ ~Listed(list, x)
    BY DEF Forgotten, Entry
  <2>1. PICK q \in P, y \in Nat :
          /\ x = <<q, y>>
          /\ q \in maps /\ y \in DOMAIN pages2[q]
          /\ pages2[q][y].is_free /\ pages2[q][y].base_address = q
    BY EntryParts
  <2>2. /\ y \in DOMAIN pages[q] /\ pages[q][y].is_free /\ pages[q][y].base_address = q
        /\ x # <<p, b>>
    <3>1. CASE q # p
      BY <1>7, <2>1, <3>1 DEF OthersSame
    <3>2. CASE q = p
      <4>1. y # b
        BY <1>6, <1>7, <2>1, <3>2
      <4>2. Splits(c, b, size) => y # n
        BY <1>10, <2>1, <3>2
      <4>3. y \in DOMAIN e /\ e[y].is_free /\ e[y].base_address = p
        BY <1>7, <2>1, <3>2
      <4>4. y \in DOMAIN c
        BY <1>6, <4>2, <4>3
      <4>5. c[y].is_free /\ c[y].base_address = p
        BY <1>6, <4>1, <4>3, <4>4
      <4>6. x # <<p, b>>
        BY <2>1, <4>1
      <4> QED BY <1>5, <3>2, <4>4, <4>5, <4>6
    <3> QED BY <3>1, <3>2
  <2>3. Entry(P, pages, maps, x)
    BY <2>1, <2>2, EntryParts
  <2> QED BY <1>1, <1>2, <1>10, <2>2, <2>3
<1>12. LiveDiffer(P, pages, p, b, pages2)
  <2>1. b \in LiveBlocks(pages2[p]) /\ b \notin LiveBlocks(pages[p])
    BY <1>2, <1>5, <1>6, <1>7 DEF LiveBlocks, FreeBlocks
  <2>2. ASSUME NEW q \in P, NEW d
        PROVE  /\ d \in LiveBlocks(pages2[q]) <=>
                    (d \in LiveBlocks(pages[q]) \/ (q = p /\ d = b))
               /\ d \in LiveBlocks(pages[q]) =>
                    pages2[q][d].block_size = pages[q][d].block_size
    <3>1. CASE q # p
      BY <1>7, <3>1 DEF OthersSame
    <3>2. CASE q = p
      <4>1. d \in LiveBlocks(e) <=> (d \in LiveBlocks(c) \/ d = b)
        <5>1. b \in LiveBlocks(e)
          BY <1>6 DEF LiveBlocks
        <5>2. ASSUME d \in LiveBlocks(c) PROVE d \in LiveBlocks(e)
          BY <1>2, <1>6, <5>2 DEF LiveBlocks, FreeBlocks
        <5>3. ASSUME d \in LiveBlocks(e), d # b PROVE d \in LiveBlocks(c)
          BY <1>6, <5>3 DEF LiveBlocks
        <5> QED BY <5>1, <5>2, <5>3
      <4>2. d \in LiveBlocks(c) => e[d].block_size = c[d].block_size
        BY <1>2, <1>6 DEF LiveBlocks, FreeBlocks
      <4> QED BY <1>5, <1>7, <3>2, <4>1, <4>2
    <3> QED BY <3>1, <3>2
  <2> QED BY <1>2, <2>1, <2>2 DEF LiveDiffer
<1>13. \A base : BasedAt(pages[p], base) => BasedAt(pages2[p], base)
  <2>1. ASSUME NEW base, BasedAt(c, base), NEW d \in DOMAIN e
        PROVE  e[d].base_address = base
    <3>1. CASE d \in DOMAIN c
      BY <1>6, <2>1, <3>1 DEF BasedAt
    <3>2. CASE d \notin DOMAIN c
      <4>1. Splits(c, b, size) /\ d = n
        BY <1>6, <3>2
      <4>2. c[b].base_address = base
        BY <1>6, <2>1 DEF BasedAt
      <4> QED BY <1>6, <4>1, <4>2
    <3> QED BY <3>1, <3>2
  <2>2. \A base : BasedAt(c, base) => BasedAt(e, base)
    BY <2>1 DEF BasedAt
  <2> QED BY <1>5, <1>7, <2>2
<1>14. FirstBlock \in DOMAIN pages2[p]
  BY <1>2, <1>6, <1>7, UsedPage
<1> QED BY <1>2, <1>6, <1>7, <1>10, <1>11, <1>12, <1>13, <1>14 DEF SoundCall

(* allocator_free_mem: the free neighbours leave the list before they      *)
(* disappear into the block that is queued in their place.                 *)
LEMMA FreeCall ==
  ASSUME NEW P, NEW pages, GoodPages(P, pages),
         NEW maps, NEW list, GoodQueue(P, pages, maps, list),
         NEW p \in P, p \in maps, NEW b, b \in LiveBlocks(pages[p]), BasedAt(pages[p], p),
         NEW pages2, pages2 = FreePages(pages, p, b),
         NEW list2, list2 = ListAfterFree(pages, list, p, b)
  PROVE  /\ SoundCall(P, pages, maps, list, pages2, maps, list2)
         /\ OthersSame(P, p, pages, pages2)
         /\ LiveDiffer(P, pages2, p, b, pages)
         /\ FirstBlock \in DOMAIN pages2[p]
         /\ BasedAt(pages2[p], p)
         /\ list2 # <<>>
<1> DEFINE c == pages[p]
           e == Free(c, b)
           w == FreedBlock(c, b)
           x1 == <<p, c[b].next_block>>
           x2 == <<p, c[b].prev_block>>
           l1 == RemoveIf(NextIsFree(c, b), list, x1)
           l2 == RemoveIf(PrevIsFree(c, b), l1, x2)
<1>1. list2 = PriorityInsert(pages2, l2, <<p, w>>)
  BY DEF ListAfterFree, UnlinkNeighbours
<1>2. b \in LiveBlocks(c) /\ b \in DOMAIN c /\ ~c[b].is_free /\ GoodChain(c)
  <2>1. b \in DOMAIN c /\ ~c[b].is_free
    BY DEF LiveBlocks
  <2> QED BY <2>1, UsedPage
<1>3. pages2 = WithPage(pages, p, e)
  BY DEF FreePages, WithPage
<1>4. /\ l1 = RemoveIf(NextIsFree(c, b), list, x1)
      /\ l2 = RemoveIf(PrevIsFree(c, b), l1, x2)
      /\ NextIsFree(c, b) \in BOOLEAN /\ PrevIsFree(c, b) \in BOOLEAN
      /\ e = Free(c, b) /\ w = FreedBlock(c, b) /\ c = pages[p]
  <2>1. NextIsFree(c, b) \in BOOLEAN
    <3>1. c[b].next_block # NoBlock => c[c[b].next_block].is_free \in BOOLEAN
      BY <1>2, NextBlock, ChainNumbers DEF GoodChain
    <3> QED BY <3>1 DEF NextIsFree
  <2>2. PrevIsFree(c, b) \in BOOLEAN
    <3>1. c[b].prev_block # NoBlock => c[b].prev_block \in DOMAIN c
      BY <1>2 DEF GoodChain, Linked
    <3>2. c[b].prev_block # NoBlock => c[c[b].prev_block].is_free \in BOOLEAN
      BY <1>2, <3>1, ChainNumbers DEF GoodChain
    <3> QED BY <3>2 DEF PrevIsFree
  <2> QED BY <2>1, <2>2
<1> HIDE DEF l1, l2, e, w, c, x1, x2
<1>5. Freed(c, b, w, e)
  BY <1>2, <1>4, FreeGood
<1>6. GoodPages(P, pages2) /\ pages2[p] = e /\ OthersSame(P, p, pages, pages2)
  <2>1. GoodChain(e)
    BY <1>5 DEF Freed
  <2> QED BY <1>3, <2>1, PagesUpdated
<1>7. /\ GoodQueue(P, pages, maps, l1)
      /\ \A x : Listed(l1, x) <=> (Listed(list, x) /\ ~(NextIsFree(c, b) /\ x = x1))
  BY <1>4, QueueRemoved
<1>8. /\ GoodQueue(P, pages, maps, l2)
      /\ \A x : Listed(l2, x) <=> (Listed(l1, x) /\ ~(PrevIsFree(c, b) /\ x = x2))
  BY <1>4, <1>7, QueueRemoved
<1>9. ASSUME NEW x, Listed(l2, x)
      PROVE  /\ Entry(P, pages2, maps, x)
             /\ Bytes(pages2, x) = Bytes(pages, x)
             /\ x # <<p, w>>
  <2>1. /\ Entry(P, pages, maps, x)
        /\ NextIsFree(c, b) => x # x1
        /\ PrevIsFree(c, b) => x # x2
    BY <1>7, <1>8, <1>9, ListedEntry
  <2>2. PICK q \in P, y \in Nat :
          /\ x = <<q, y>>
          /\ q \in maps /\ y \in DOMAIN pages[q]
          /\ pages[q][y].is_free /\ pages[q][y].base_address = q
    BY <2>1, EntryParts
  <2>3. /\ NextIsFree(c, b) => ~(q = p /\ y = c[b].next_block)
        /\ PrevIsFree(c, b) => ~(q = p /\ y = c[b].prev_block)
    BY <2>1, <2>2 DEF x1, x2
  <2>4. /\ y \in DOMAIN pages2[q] /\ pages2[q][y].is_free /\ pages2[q][y].base_address = q
        /\ pages2[q][y].block_size = pages[q][y].block_size
        /\ <<q, y>> # <<p, w>>
    <3>1. CASE q # p
      BY <1>6, <2>2, <3>1 DEF OthersSame
    <3>2. CASE q = p
      <4>1. y \in FreeBlocks(c) /\ c[y].base_address = p
        BY <1>4, <2>2, <3>2 DEF FreeBlocks
      <4>2. y \in FreeBlocks(e) /\ y # w /\ e[y].block_size = c[y].block_size
        BY <1>5, <2>3, <3>2, <4>1 DEF Freed
      <4>3. y \in DOMAIN e /\ e[y].is_free /\ e[y].base_address = p
        BY <1>5, <4>1, <4>2 DEF Freed, FreeBlocks
      <4> QED BY <1>4, <1>6, <3>2, <4>2, <4>3
    <3> QED BY <3>1, <3>2
  <2>5. Entry(P, pages2, maps, x)
    BY <2>2, <2>4, EntryParts
  <2>6. Bytes(pages2, x) = Bytes(pages, x)
    BY <2>2, <2>4 DEF Bytes
  <2> QED BY <2>2, <2>4, <2>5, <2>6
<1>10. GoodQueue(P, pages2, maps, l2)
  BY <1>8, <1>9, QueueKept
<1>11. \A d \in DOMAIN e : d \in DOMAIN c /\ e[d].base_address = p
  BY <1>4, <1>5 DEF Freed, BasedAt
<1>12. Entry(P, pages2, maps, <<p, w>>)
  <2>1. w \in FreeBlocks(e) /\ w \in DOMAIN e
    BY <1>5 DEF Freed, FreeBlocks
  <2>2. w \in Nat
    BY <1>5, <2>1, ChainNumbers DEF Freed, GoodChain
  <2> QED BY <1>6, <1>11, <2>1, <2>2 DEF Entry
<1>13. /\ GoodQueue(P, pages2, maps, list2)
       /\ \A x : Listed(list2, x) <=> (x = <<p, w>> \/ Listed(l2, x))
  <2> DEFINE blk == <<p, w>>
  <2>1. ~Listed(l2, blk)
    BY <1>9
  <2>2. Entry(P, pages2, maps, blk) /\ list2 = PriorityInsert(pages2, l2, blk)
    BY <1>1, <1>12
  <2> HIDE DEF blk
  <2>3. /\ GoodQueue(P, pages2, maps, list2)
        /\ \A x : Listed(list2, x) <=> (x = blk \/ Listed(l2, x))
    BY <1>6, <1>10, <2>1, <2>2, QueueInserted
  <2> QED BY <2>3 DEF blk
<1>14. Forgotten(P, pages2, maps, list2) \subseteq Forgotten(P, pages, maps, list)
  <2> SUFFICES ASSUME NEW x, Entry(P, pages2, maps, x), ~Listed(list2, x)
               PROVE  Entry(P, pages, maps, x) /\ ~Listed(list, x)
    BY DEF Forgotten, Entry
  <2>1. PICK q \in P, y \in Nat :
          /\ x = <<q, y>>
          /\ q \in maps /\ y \in DOMAIN pages2[q]
          /\ pages2[q][y].is_free /\ pages2[q][y].base_address = q
    BY EntryParts
  <2>2. /\ y \in DOMAIN pages[q] /\ pages[q][y].is_free /\ pages[q][y].base_address = q
        /\ NextIsFree(c, b) => x # x1
        /\ PrevIsFree(c, b) => x # x2
    <3>1. CASE q # p
      BY <1>6, <2>1, <3>1 DEF OthersSame, x1, x2
    <3>2. CASE q = p
      <4>1. y \in FreeBlocks(e) /\ y # w
        BY <1>6, <1>13, <2>1, <3>2 DEF FreeBlocks
      <4>2. /\ y \in FreeBlocks(c)
            /\ NextIsFree(c, b) => y # c[b].next_block
            /\ PrevIsFree(c, b) => y # c[b].prev_block
        BY <1>5, <4>1 DEF Freed
      <4>3. y \in DOMAIN c /\ c[y].is_free /\ c[y].base_address = p
        BY <1>4, <4>2 DEF FreeBlocks, BasedAt
      <4> QED BY <1>4, <2>1, <3>2, <4>2, <4>3 DEF x1, x2
    <3> QED BY <3>1, <3>2
  <2>3. Entry(P, pages, maps, x)
    BY <2>1, <2>2, EntryParts
  <2> QED BY <1>7, <1>8, <1>13, <2>2, <2>3
<1>15. LiveDiffer(P, pages2, p, b, pages)
  <2>1. /\ LiveBlocks(e) = LiveBlocks(c) \ {b}
        /\ \A d \in LiveBlocks(e) : e[d].block_size = c[d].block_size
    BY <1>5 DEF Freed
  <2>2. ASSUME NEW q \in P, NEW d
        PROVE  /\ d \in LiveBlocks(pages[q]) <=>
                    (d \in LiveBlocks(pages2[q]) \/ (q = p /\ d = b))
               /\ d \in LiveBlocks(pages2[q]) =>
                    pages[q][d].block_size = pages2[q][d].block_size
    <3>1. CASE q # p
      BY <1>6, <3>1 DEF OthersSame
    <3>2. CASE q = p
      BY <1>2, <1>4, <1>6, <2>1, <3>2
    <3> QED BY <3>1, <3>2
  <2> QED BY <1>2, <1>4, <1>6, <2>1, <2>2 DEF LiveDiffer
<1>16. BasedAt(pages2[p], p)
  BY <1>6, <1>11 DEF BasedAt
<1>17. FirstBlock \in DOMAIN pages2[p]
  BY <1>5, <1>6 DEF Freed, GoodChain, Linked
<1>18. list2 # <<>>
  <2>1. Listed(list2, <<p, w>>)
    BY <1>13
  <2> QED BY <2>1 DEF Listed
<1> QED BY <1>6, <1>13, <1>14, <1>15, <1>16, <1>17, <1>18 DEF SoundCall

-----------------------------------------------------------------------------
(* One iteration of a loop over page p: block b takes a new base_address,  *)
(* and nothing else changes.                                               *)
Iterated(P, pages, p, b, base, pages2) ==
  /\ GoodPages(P, pages2)
  /\ OthersSame(P, p, pages, pages2)
  /\ DOMAIN pages2[p] = DOMAIN pages[p]
  /\ pages2[p][b].base_address = base
  /\ \A d \in DOMAIN pages[p] :
       /\ d # b => pages2[p][d] = pages[p][d]
       /\ pages2[p][d].is_free = pages[p][d].is_free
       /\ pages2[p][d].block_size = pages[p][d].block_size

LEMMA IterationFields ==
  ASSUME NEW P, NEW pages, GoodPages(P, pages), NEW p \in P, NEW b, b \in DOMAIN pages[p],
         NEW base, base \in Nat, NEW pages2, pages2 = WalkPages(pages, p, b, base)
  PROVE  Iterated(P, pages, p, b, base, pages2)
<1> DEFINE c == pages[p]
           e == WithBase(c, b, base)
<1>1. GoodChain(c)
  BY UsedPage
<1>2. pages2 = WithPage(pages, p, e)
  BY DEF WalkPages, WithPage, WithBase, GoodPages
<1>3. e = WithBase(c, b, base) /\ c = pages[p]
  OBVIOUS
<1> HIDE DEF c, e
<1>4. Rebased(c, b, base, e)
  BY <1>1, <1>3, RebaseBlockGood
<1>5. GoodPages(P, pages2) /\ pages2[p] = e /\ OthersSame(P, p, pages, pages2)
  <2>1. GoodChain(e)
    BY <1>4 DEF Rebased
  <2> QED BY <1>2, <2>1, PagesUpdated
<1> QED BY <1>3, <1>4, <1>5 DEF Iterated, Rebased

(* The live blocks of a page do not change in an iteration. *)
LEMMA IterationKeepsLive ==
  ASSUME NEW P, NEW pages, NEW p, NEW b, NEW base, NEW pages2,
         Iterated(P, pages, p, b, base, pages2)
  PROVE  LiveSame(P, pages, pages2)
<1> SUFFICES ASSUME NEW q \in P
             PROVE  /\ LiveBlocks(pages2[q]) = LiveBlocks(pages[q])
                    /\ \A d \in LiveBlocks(pages[q]) :
                         pages2[q][d].block_size = pages[q][d].block_size
  BY DEF LiveSame
<1>1. CASE q # p
  BY <1>1 DEF Iterated, OthersSame
<1>2. CASE q = p
  BY <1>2 DEF Iterated, LiveBlocks
<1> QED BY <1>1, <1>2

(* A page without live blocks that is initialised anew. *)
LEMMA InitKeepsLive ==
  ASSUME NEW P, NEW pages, NEW p, NEW pages2, OthersSame(P, p, pages, pages2),
         LiveBlocks(pages[p]) = {}, \A d : d \notin LiveBlocks(pages2[p])
  PROVE  LiveSame(P, pages, pages2)
<1> SUFFICES ASSUME NEW q \in P
             PROVE  /\ LiveBlocks(pages2[q]) = LiveBlocks(pages[q])
                    /\ \A d \in LiveBlocks(pages[q]) :
                         pages2[q][d].block_size = pages[q][d].block_size
  BY DEF LiveSame
<1>1. CASE q # p
  BY <1>1 DEF OthersSame
<1>2. CASE q = p
  BY <1>2
<1> QED BY <1>1, <1>2

LEMMA LiveSameDiffer ==
  ASSUME NEW P, NEW pages, NEW less, LiveSame(P, pages, less),
         NEW p, NEW b, NEW more, LiveDiffer(P, less, p, b, more)
  PROVE  LiveDiffer(P, pages, p, b, more)
  BY DEF LiveSame, LiveDiffer

(* A loop over the blocks c of a page has reached block at: the blocks     *)
(* before it have taken their new base_address, the others keep the old    *)
(* one.                                                                    *)
Walked(c, at, base)   == \A d \in DOMAIN c : d < at => c[d].base_address = base
Unwalked(c, at, base) == \A d \in DOMAIN c : at <= d => c[d].base_address = base

LEMMA WalkBegins ==
  ASSUME NEW P, NEW pages, GoodPages(P, pages), NEW p \in P,
         FirstBlock \in DOMAIN pages[p]
  PROVE  /\ \A base : Walked(pages[p], FirstBlock, base)
         /\ \A base : BasedAt(pages[p], base) => Unwalked(pages[p], FirstBlock, base)
<1>1. \A d \in DOMAIN pages[p] : FirstBlock <= d /\ d \in Nat /\ ~(d < FirstBlock)
  BY UsedPage, PageLayout DEF FirstBlock
<1> QED BY <1>1 DEF Walked, Unwalked, BasedAt

(* The walk has gone on to block n, or has ended. *)
WalkedOn(pages, pages2, p, b, n, base) ==
  /\ n = NoBlock => BasedAt(pages2[p], base)
  /\ n # NoBlock => /\ n \in Nat /\ n \in DOMAIN pages2[p] /\ b < n
                    /\ Walked(pages2[p], n, base)
                    /\ \A rest : Unwalked(pages[p], b, rest) => Unwalked(pages2[p], n, rest)

LEMMA WalkAdvances ==
  ASSUME NEW P, NEW pages, GoodPages(P, pages), NEW p \in P, NEW b, b \in DOMAIN pages[p],
         NEW base, NEW pages2, Iterated(P, pages, p, b, base, pages2),
         Walked(pages[p], b, base),
         NEW n, n = pages[p][b].next_block
  PROVE  WalkedOn(pages, pages2, p, b, n, base)
<1> DEFINE c == pages[p]
           e == pages2[p]
<1>1. GoodChain(c) /\ b \in DOMAIN c /\ n = c[b].next_block
  BY UsedPage
<1>2. \A d \in DOMAIN c : d \in Nat
  BY UsedPage
<1>3. /\ DOMAIN e = DOMAIN c
      /\ e[b].base_address = base
      /\ \A d \in DOMAIN c : d # b => e[d].base_address = c[d].base_address
  BY DEF Iterated
<1>4. Walked(c, b, base)
  OBVIOUS
<1>5. CASE n = NoBlock
  <2>1. \A d \in DOMAIN c : d <= b
    BY <1>1, <1>5, LastBlock
  <2>2. \A d \in DOMAIN c : d # b => c[d].base_address = base
    BY <1>2, <1>4, <2>1, <1>1 DEF Walked
  <2> QED BY <1>3, <1>5, <2>2 DEF BasedAt, WalkedOn
<1>6. CASE n # NoBlock
  <2>1. n \in DOMAIN c /\ b < n /\ \A d \in DOMAIN c : d <= b \/ n <= d
    BY <1>1, <1>6, NextBlock
  <2>2. \A d \in DOMAIN c : /\ d < n /\ d # b => d < b
                            /\ n <= d => b <= d /\ d # b
    BY <1>1, <1>2, <2>1
  <2>3. Walked(e, n, base)
    BY <1>3, <1>4, <2>2 DEF Walked
  <2>4. ASSUME NEW rest, Unwalked(c, b, rest)
        PROVE  Unwalked(e, n, rest)
    BY <1>3, <2>2, <2>4 DEF Unwalked
  <2> QED BY <1>2, <1>3, <1>6, <2>1, <2>3, <2>4 DEF WalkedOn
<1> QED BY <1>5, <1>6

(* allocator_reinit at block b, which the list does not name yet: it does  *)
(* then, if the block is free.                                             *)
LEMMA ReinitIteration ==
  ASSUME NEW P, NEW pages, GoodPages(P, pages),
         NEW maps, NEW list, GoodQueue(P, pages, maps, list),
         NEW p \in P, p \in maps, p \in Nat, NEW b, b \in DOMAIN pages[p],
         ~Listed(list, <<p, b>>),
         NEW pages2, pages2 = WalkPages(pages, p, b, p),
         NEW list2, list2 = ReinitList(pages, list, p, b)
  PROVE  /\ SoundCall(P, pages, maps, list, pages2, maps, list2)
         /\ <<p, b>> \notin Forgotten(P, pages2, maps, list2)
         /\ \A x : Listed(list2, x) => x = <<p, b>> \/ Listed(list, x)
<1> DEFINE blk == <<p, b>>
<1>1. Iterated(P, pages, p, b, p, pages2)
  BY IterationFields
<1>2. b \in Nat /\ pages[p][b].is_free \in BOOLEAN
  BY UsedPage, ChainNumbers
<1>3. list2 = IF pages[p][b].is_free THEN PriorityInsert(pages2, list, blk) ELSE list
  BY DEF ReinitList
<1>4. ~Listed(list, blk)
  OBVIOUS
<1> HIDE DEF blk
<1>5. ASSUME NEW x, Listed(list, x)
      PROVE  /\ Entry(P, pages2, maps, x)
             /\ Bytes(pages2, x) = Bytes(pages, x)
  <2>1. Entry(P, pages, maps, x) /\ x # <<p, b>>
    BY <1>4, <1>5, ListedEntry DEF blk
  <2>2. PICK q \in P, y \in Nat :
          /\ x = <<q, y>>
          /\ q \in maps /\ y \in DOMAIN pages[q]
          /\ pages[q][y].is_free /\ pages[q][y].base_address = q
    BY <2>1, EntryParts
  <2>3. q = p => y # b
    BY <2>1, <2>2
  <2>4. y \in DOMAIN pages2[q] /\ pages2[q][y] = pages[q][y]
    BY <1>1, <2>2, <2>3 DEF Iterated, OthersSame
  <2>5. Entry(P, pages2, maps, x)
    BY <2>2, <2>4, EntryParts
  <2> QED BY <2>2, <2>4, <2>5 DEF Bytes
<1>6. GoodQueue(P, pages2, maps, list)
  BY <1>5, QueueKept
<1>7. /\ GoodQueue(P, pages2, maps, list2)
      /\ \A x : Listed(list2, x) <=> ((pages[p][b].is_free /\ x = blk) \/ Listed(list, x))
  <2>1. CASE ~pages[p][b].is_free
    BY <1>3, <1>6, <2>1
  <2>2. CASE pages[p][b].is_free
    <3>1. Entry(P, pages2, maps, blk)
      BY <1>1, <1>2, <2>2 DEF Entry, FreeBlocks, Iterated, blk
    <3>2. list2 = PriorityInsert(pages2, list, blk)
      BY <1>3, <2>2
    <3>3. /\ GoodQueue(P, pages2, maps, list2)
          /\ \A x : Listed(list2, x) <=> (x = blk \/ Listed(list, x))
      BY <1>1, <1>4, <1>6, <3>1, <3>2, QueueInserted DEF Iterated
    <3> QED BY <2>2, <3>3
  <2> QED BY <2>1, <2>2
<1>8. ASSUME NEW x, Entry(P, pages2, maps, x), ~Listed(list2, x)
      PROVE  Entry(P, pages, maps, x) /\ ~Listed(list, x) /\ x # blk
  <2>1. PICK q \in P, y \in Nat :
          /\ x = <<q, y>>
          /\ q \in maps /\ y \in DOMAIN pages2[q]
          /\ pages2[q][y].is_free /\ pages2[q][y].base_address = q
    BY <1>8, EntryParts
  <2>2. x # blk
    <3> SUFFICES ASSUME x = blk PROVE FALSE
      OBVIOUS
    <3>1. pages[p][b].is_free
      BY <1>1, <2>1 DEF Iterated, blk
    <3> QED BY <1>7, <1>8, <3>1
  <2>3. y \in DOMAIN pages[q] /\ pages2[q][y] = pages[q][y]
    BY <1>1, <2>1, <2>2 DEF Iterated, OthersSame, blk
  <2>4. Entry(P, pages, maps, x)
    BY <2>1, <2>3, EntryParts
  <2> QED BY <1>7, <1>8, <2>2, <2>4
<1>9. /\ Forgotten(P, pages2, maps, list2) \subseteq Forgotten(P, pages, maps, list)
      /\ blk \notin Forgotten(P, pages2, maps, list2)
  BY <1>8 DEF Forgotten
<1>10. \A x : Listed(list2, x) => x = blk \/ Listed(list, x)
  BY <1>7
<1>11. SoundCall(P, pages, maps, list, pages2, maps, list2)
  BY <1>1, <1>7, <1>9 DEF SoundCall, Iterated
<1> QED BY <1>9, <1>10, <1>11 DEF blk

(* allocator_deinit at block b, which leaves the list; the page may leave  *)
(* memory too when the list names no other block of it.                    *)
LEMMA DeinitIteration ==
  ASSUME NEW P, NEW pages, GoodPages(P, pages),
         NEW maps, NEW list, GoodQueue(P, pages, maps, list),
         NEW p \in P, p # Unbound, NEW b, b \in DOMAIN pages[p],
         NEW maps2, maps2 \subseteq maps,
         \A x : Listed(list, x) => x = <<p, b>> \/ x[1] \in maps2,
         NEW pages2, pages2 = WalkPages(pages, p, b, Unbound),
         NEW list2, list2 = DeinitList(pages, list, p, b)
  PROVE  /\ SoundCall(P, pages, maps, list, pages2, maps2, list2)
         /\ \A x : Listed(list2, x) => x # <<p, b>> /\ Listed(list, x)
<1> DEFINE blk == <<p, b>>
           cond == pages[p][b].is_free
<1>1. Iterated(P, pages, p, b, Unbound, pages2)
  BY IterationFields DEF Unbound
<1>2. cond \in BOOLEAN
  BY UsedPage, ChainNumbers
<1>3. list2 = RemoveIf(cond, list, blk)
  BY DEF DeinitList
<1> HIDE DEF blk, cond
<1>4. /\ GoodQueue(P, pages, maps, list2)
      /\ \A x : Listed(list2, x) <=> (Listed(list, x) /\ ~(cond /\ x = blk))
  BY <1>2, <1>3, QueueRemoved
<1>5. Listed(list, blk) => cond
  <2>1. Listed(list, blk) => Entry(P, pages, maps, blk)
    BY ListedEntry
  <2> QED BY <2>1 DEF Entry, FreeBlocks, blk, cond
<1>6. ASSUME NEW x, Listed(list2, x)
      PROVE  /\ Entry(P, pages2, maps2, x)
             /\ Bytes(pages2, x) = Bytes(pages, x)
             /\ x # blk
  <2>1. Entry(P, pages, maps, x) /\ x # blk /\ x[1] \in maps2
    BY <1>4, <1>5, <1>6, ListedEntry DEF blk
  <2>2. PICK q \in P, y \in Nat :
          /\ x = <<q, y>>
          /\ q \in maps /\ y \in DOMAIN pages[q]
          /\ pages[q][y].is_free /\ pages[q][y].base_address = q
    BY <2>1, EntryParts
  <2>3. (q = p => y # b) /\ q \in maps2
    BY <2>1, <2>2 DEF blk
  <2>4. y \in DOMAIN pages2[q] /\ pages2[q][y] = pages[q][y]
    BY <1>1, <2>2, <2>3 DEF Iterated, OthersSame
  <2>5. Entry(P, pages2, maps2, x)
    BY <2>2, <2>3, <2>4, EntryParts
  <2> QED BY <2>1, <2>2, <2>4, <2>5 DEF Bytes
<1>7. GoodQueue(P, pages2, maps2, list2)
  BY <1>4, <1>6, QueueKept
<1>8. ASSUME NEW x, Entry(P, pages2, maps2, x), ~Listed(list2, x)
      PROVE  Entry(P, pages, maps, x) /\ ~Listed(list, x)
  <2>1. PICK q \in P, y \in Nat :
          /\ x = <<q, y>>
          /\ q \in maps2 /\ y \in DOMAIN pages2[q]
          /\ pages2[q][y].is_free /\ pages2[q][y].base_address = q
    BY <1>8, EntryParts
  <2>2. x # blk
    BY <1>1, <2>1 DEF Iterated, blk
  <2>3. y \in DOMAIN pages[q] /\ pages2[q][y] = pages[q][y]
    BY <1>1, <2>1, <2>2 DEF Iterated, OthersSame, blk
  <2>4. Entry(P, pages, maps, x)
    BY <2>1, <2>3, EntryParts
  <2> QED BY <1>4, <1>8, <2>2, <2>4
<1>9. Forgotten(P, pages2, maps2, list2) \subseteq Forgotten(P, pages, maps, list)
  BY <1>8 DEF Forgotten
<1> QED BY <1>1, <1>4, <1>6, <1>7, <1>9 DEF SoundCall, Iterated, blk

-----------------------------------------------------------------------------
(* The objects in the pages: the bytes behind the meta data of live blocks. *)
ObjectAt(pages, p, b) == [page |-> p, addr |-> DataOf(b), len |-> pages[p][b].block_size]

ObjectsIn(P, pages) ==
  UNION {{ObjectAt(pages, p, b) : b \in LiveBlocks(pages[p])} : p \in P}

LEMMA ObjectsMember ==
  ASSUME NEW P, NEW pages, NEW o
  PROVE  o \in ObjectsIn(P, pages) <=>
           \E p, b : p \in P /\ b \in LiveBlocks(pages[p]) /\ o = ObjectAt(pages, p, b)
  BY DEF ObjectsIn

(* Calls that leave the live blocks alone leave the objects alone. *)
LEMMA ObjectsKept ==
  ASSUME NEW P, NEW pages, NEW pages2,
         LiveSame(P, pages, pages2)
  PROVE  ObjectsIn(P, pages2) = ObjectsIn(P, pages)
<1>1. \A p \in P : \A b \in LiveBlocks(pages[p]) :
        ObjectAt(pages2, p, b) = ObjectAt(pages, p, b)
  BY DEF ObjectAt, LiveSame
<1>2. \A o : o \in ObjectsIn(P, pages2) <=> o \in ObjectsIn(P, pages)
  BY <1>1, ObjectsMember DEF LiveSame
<1> QED BY <1>2

(* An object lies in its page, behind the page's header and its own meta   *)
(* data.                                                                   *)
LEMMA ObjectsFit ==
  ASSUME NEW P, NEW pages, GoodPages(P, pages), NEW o, o \in ObjectsIn(P, pages)
  PROVE  /\ o \in [page : P, addr : 0..DB_PAGE_DEF_SIZE, len : 0..DB_PAGE_DEF_SIZE]
         /\ PageHdrSize + MetaSize <= o.addr
         /\ o.addr + o.len <= DB_PAGE_DEF_SIZE
<1>1. PICK p, b : p \in P /\ b \in LiveBlocks(pages[p]) /\ o = ObjectAt(pages, p, b)
  BY ObjectsMember
<1> DEFINE c == pages[p]
<1>2. p \in P /\ b \in DOMAIN c
  BY <1>1 DEF LiveBlocks
<1>3. GoodChain(c) /\ TypedChain(c)
  BY <1>2, UsedPage
<1> HIDE DEF c
<1>4. /\ b \in Nat /\ c[b].block_size \in Nat /\ FirstBlock <= b
      /\ b + MetaSize + c[b].block_size <= LimitOf(c, b)
      /\ LimitOf(c, b) <= DB_PAGE_DEF_SIZE /\ LimitOf(c, b) \in Nat
  BY <1>2, <1>3, ChainNumbers DEF GoodChain, Linked
<1>5. o = [page |-> p, addr |-> b + MetaSize, len |-> c[b].block_size]
  BY <1>1 DEF ObjectAt, DataOf, c
<1>6. /\ b + MetaSize \in 0..DB_PAGE_DEF_SIZE
      /\ c[b].block_size \in 0..DB_PAGE_DEF_SIZE
      /\ PageHdrSize + MetaSize <= b + MetaSize
      /\ (b + MetaSize) + c[b].block_size <= DB_PAGE_DEF_SIZE
  BY <1>4, PageLayout DEF FirstBlock
<1> QED BY <1>2, <1>5, <1>6

(* Two objects share no byte. *)
LEMMA ObjectsApart ==
  ASSUME NEW P, NEW pages, GoodPages(P, pages),
         NEW o, o \in ObjectsIn(P, pages), NEW x, x \in ObjectsIn(P, pages), o # x
  PROVE  \/ o.page # x.page
         \/ o.addr < x.addr /\ o.addr + o.len <= x.addr
         \/ x.addr < o.addr /\ x.addr + x.len <= o.addr
<1>1. PICK p, b : p \in P /\ b \in LiveBlocks(pages[p]) /\ o = ObjectAt(pages, p, b)
  BY ObjectsMember
<1>2. PICK q, d : q \in P /\ d \in LiveBlocks(pages[q]) /\ x = ObjectAt(pages, q, d)
  BY ObjectsMember
<1>3. CASE p # q
  BY <1>1, <1>2, <1>3 DEF ObjectAt
<1>4. CASE p = q
  <2> DEFINE c == pages[p]
  <2>1. p \in P /\ b \in DOMAIN c /\ d \in DOMAIN c /\ b # d
    BY <1>1, <1>2, <1>4 DEF LiveBlocks
  <2>2. GoodChain(c) /\ TypedChain(c) /\ Linked(c)
    BY <2>1, UsedPage DEF GoodChain
  <2>3. /\ o = [page |-> p, addr |-> DataOf(b), len |-> c[b].block_size]
        /\ x = [page |-> p, addr |-> DataOf(d), len |-> c[d].block_size]
    BY <1>1, <1>2, <1>4 DEF ObjectAt
  <2> HIDE DEF c
  <2>4. /\ b \in Nat /\ d \in Nat /\ c[b].block_size \in Nat /\ c[d].block_size \in Nat
    BY <2>1, <2>2, ChainNumbers
  <2>5. CASE b < d
    <3>1. b + MetaSize + c[b].block_size <= d
      BY <2>1, <2>2, <2>5, BlocksDisjoint DEF EndOf, DataOf
    <3>2. /\ b + MetaSize < d + MetaSize
          /\ (b + MetaSize) + c[b].block_size <= d + MetaSize
      BY <2>4, <2>5, <3>1, PageLayout
    <3> QED BY <2>3, <3>2 DEF DataOf
  <2>6. CASE d < b
    <3>1. d + MetaSize + c[d].block_size <= b
      BY <2>1, <2>2, <2>6, BlocksDisjoint DEF EndOf, DataOf
    <3>2. /\ d + MetaSize < b + MetaSize
          /\ (d + MetaSize) + c[d].block_size <= b + MetaSize
      BY <2>4, <2>6, <3>1, PageLayout
    <3> QED BY <2>3, <3>2 DEF DataOf
  <2> QED BY <2>1, <2>4, <2>5, <2>6
<1> QED BY <1>3, <1>4

(* A call that makes a block live adds its object, one that makes it free  *)
(* takes it away.                                                          *)
LEMMA ObjectsDiffer ==
  ASSUME NEW P, NEW less, NEW more, GoodPages(P, more),
         NEW p, NEW b, LiveDiffer(P, less, p, b, more),
         NEW o, o = ObjectAt(more, p, b)
  PROVE  /\ o \notin ObjectsIn(P, less)
         /\ o \in ObjectsIn(P, more)
         /\ ObjectsIn(P, more) = ObjectsIn(P, less) \cup {o}
         /\ ObjectsIn(P, less) = ObjectsIn(P, more) \ {o}
<1>1. /\ p \in P /\ b \in LiveBlocks(more[p]) /\ b \notin LiveBlocks(less[p])
      /\ \A q \in P : \A d :
           d \in LiveBlocks(more[q]) <=> (d \in LiveBlocks(less[q]) \/ (q = p /\ d = b))
      /\ \A q \in P : \A d \in LiveBlocks(less[q]) :
           more[q][d].block_size = less[q][d].block_size
  BY DEF LiveDiffer
<1>2. \A q \in P : \A d \in LiveBlocks(less[q]) : ObjectAt(more, q, d) = ObjectAt(less, q, d)
  BY <1>1 DEF ObjectAt
<1>3. ASSUME NEW x
      PROVE  x \in ObjectsIn(P, more) <=> (x \in ObjectsIn(P, less) \/ x = o)
  <2>1. ASSUME x \in ObjectsIn(P, more) PROVE x \in ObjectsIn(P, less) \/ x = o
    <3>1. PICK q, d : q \in P /\ d \in LiveBlocks(more[q]) /\ x = ObjectAt(more, q, d)
      BY <2>1, ObjectsMember
    <3>2. CASE d \in LiveBlocks(less[q])
      <4>1. q \in P /\ x = ObjectAt(less, q, d)
        BY <1>2, <3>1, <3>2
      <4> QED BY <3>2, <4>1, ObjectsMember
    <3>3. CASE q = p /\ d = b
      BY <3>1, <3>3
    <3> QED BY <1>1, <3>1, <3>2, <3>3
  <2>2. ASSUME x \in ObjectsIn(P, less) PROVE x \in ObjectsIn(P, more)
    <3>1. PICK q, d : q \in P /\ d \in LiveBlocks(less[q]) /\ x = ObjectAt(less, q, d)
      BY <2>2, ObjectsMember
    <3>2. d \in LiveBlocks(more[q]) /\ x = ObjectAt(more, q, d)
      BY <1>1, <1>2, <3>1
    <3> QED BY <3>1, <3>2, ObjectsMember
  <2>3. o \in ObjectsIn(P, more)
    BY <1>1, ObjectsMember
  <2> QED BY <2>1, <2>2, <2>3
<1>4. o \notin ObjectsIn(P, less)
  <2> SUFFICES ASSUME o \in ObjectsIn(P, less) PROVE FALSE
    OBVIOUS
  <2>1. PICK q, d : q \in P /\ d \in LiveBlocks(less[q]) /\ o = ObjectAt(less, q, d)
    BY ObjectsMember
  <2>2. q = p /\ DataOf(d) = DataOf(b)
    BY <2>1 DEF ObjectAt
  <2>3. d \in LiveBlocks(more[p]) /\ d \in DOMAIN more[p] /\ b \in DOMAIN more[p]
    BY <1>1, <2>1, <2>2 DEF LiveBlocks
  <2>4. d \in Nat /\ b \in Nat
    BY <1>1, <2>3, UsedPage
  <2>5. d = b
    BY <2>2, <2>4, PageLayout DEF DataOf
  <2> QED BY <1>1, <2>1, <2>2, <2>5
<1> QED BY <1>3, <1>4

=============================================================================
