---------------------------- MODULE MemAllocator ----------------------------
(***************************************************************************)
(* mem_allocator.cpp: the allocator that hands out blocks of the pages     *)
(* that are in memory.  Its callers (mem.cpp and pager.cpp) bring pages in *)
(* and out; a page is initialised anew only when nobody holds an object in *)
(* it.  Mem models those callers; here any legal order of calls occurs.    *)
(* allocator_reinit and allocator_deinit walk over a page: one step is one *)
(* iteration of their loop.                                                *)
(***************************************************************************)
EXTENDS FreeList

CONSTANTS
  VmPages,     (* page numbers; the bytes of a page outlive its mapping *)
  ReqSizes     (* the sizes callers ask for                             *)

ASSUME PagesAndRequests ==
  /\ VmPages \subseteq Nat \ {Unbound}
  /\ ReqSizes \subseteq Nat

VARIABLES
  vm_page,          (* vm_page[p]: the blocks in page p                          *)
  free_block_list,  (* free_block_list_head                                      *)
  mapped,           (* the pages in memory; page p is mapped at the address p    *)
  walk              (* the loop that is running: its function, page, block_itr   *)

vars == <<vm_page, free_block_list, mapped, walk>>

NoWalk == [fn |-> "none", page |-> Unbound, block_itr |-> NoBlock]
Walk(fn, p, itr) == [fn |-> fn, page |-> p, block_itr |-> itr]

Used(p) == FirstBlock \in DOMAIN vm_page[p]

Init ==
  /\ vm_page = [p \in VmPages |-> NoChain]
  /\ free_block_list = <<>>
  /\ mapped = {}
  /\ walk = NoWalk

-----------------------------------------------------------------------------
(* allocator_init on a page that was just brought into memory. *)
AllocatorInit(p) ==
  /\ walk = NoWalk
  /\ p \notin mapped
  /\ LiveBlocks(vm_page[p]) = {}
  /\ vm_page' = InitPages(vm_page, p)
  /\ free_block_list' = InitList(vm_page, free_block_list, p)
  /\ mapped' = mapped \cup {p}
  /\ UNCHANGED walk

(* allocator_alloc_mem, when the first block is large enough. *)
AllocMem(size) ==
  /\ walk = NoWalk
  /\ free_block_list # <<>>
  /\ FirstFits(vm_page, free_block_list, size)
  /\ vm_page' = AllocPages(vm_page, free_block_list, size)
  /\ free_block_list' = AllocList(vm_page, free_block_list, size)
  /\ UNCHANGED <<mapped, walk>>

(* allocator_alloc_mem, when it returns NULL: the block it looked at is    *)
(* off the list for good.                                                  *)
AllocMemFails(size) ==
  /\ walk = NoWalk
  /\ free_block_list # <<>>
  /\ ~FirstFits(vm_page, free_block_list, size)
  /\ free_block_list' = Tail(free_block_list)
  /\ UNCHANGED <<vm_page, mapped, walk>>

(* allocator_free_mem on the object of block b. *)
FreeMem(p, b) ==
  /\ walk = NoWalk
  /\ p \in mapped
  /\ vm_page' = FreePages(vm_page, p, b)
  /\ free_block_list' = ListAfterFree(vm_page, free_block_list, p, b)
  /\ UNCHANGED <<mapped, walk>>

-----------------------------------------------------------------------------
(* The loop over the blocks of a page has reached block_itr: the block     *)
(* takes its new base_address and the loop goes on to the next block.      *)
StepTo(base) ==
  LET p == walk.page
      b == walk.block_itr
  IN  /\ vm_page' = WalkPages(vm_page, p, b, base)
      /\ walk' = IF vm_page[p][b].next_block = NoBlock THEN NoWalk
                 ELSE Walk(walk.fn, p, vm_page[p][b].next_block)

(* allocator_reinit: the page is mapped again, its free blocks are queued. *)
ReinitBegin(p) ==
  /\ walk = NoWalk
  /\ p \notin mapped
  /\ Used(p)
  /\ mapped' = mapped \cup {p}
  /\ walk' = Walk("reinit", p, FirstBlock)
  /\ UNCHANGED <<vm_page, free_block_list>>

ReinitStep ==
  /\ walk.fn = "reinit"
  /\ StepTo(walk.page)
  /\ free_block_list' = ReinitList(vm_page, free_block_list, walk.page, walk.block_itr)
  /\ UNCHANGED mapped

(* allocator_deinit: the free blocks leave the list, then the page leaves  *)
(* memory.                                                                 *)
DeinitBegin(p) ==
  /\ walk = NoWalk
  /\ p \in mapped
  /\ walk' = Walk("deinit", p, FirstBlock)
  /\ UNCHANGED <<vm_page, free_block_list, mapped>>

DeinitStep ==
  /\ walk.fn = "deinit"
  /\ StepTo(Unbound)
  /\ free_block_list' = DeinitList(vm_page, free_block_list, walk.page, walk.block_itr)
  /\ mapped' = IF walk' = NoWalk THEN mapped \ {walk.page} ELSE mapped

Next ==
  \/ \E p \in VmPages : \/ AllocatorInit(p)
                        \/ ReinitBegin(p)
                        \/ DeinitBegin(p)
                        \/ \E b \in LiveBlocks(vm_page[p]) : FreeMem(p, b)
  \/ \E size \in ReqSizes : AllocMem(size) \/ AllocMemFails(size)
  \/ ReinitStep
  \/ DeinitStep

Spec == Init /\ [][Next]_vars

-----------------------------------------------------------------------------
(* Every page in use holds a chain, the list names blocks, and a walk has  *)
(* a page in memory (the data structures of mem_allocator.h).              *)
TypeOK ==
  /\ DOMAIN vm_page = VmPages
  /\ vm_page = [p \in VmPages |-> vm_page[p]]
  /\ \A p \in VmPages : TypedChain(vm_page[p])
  /\ free_block_list \in Seq(VmPages \X Nat)
  /\ mapped \subseteq VmPages
  /\ \/ walk = NoWalk
     \/ /\ walk \in [fn : {"reinit", "deinit"}, page : mapped, block_itr : Nat]
        /\ walk.block_itr \in DOMAIN vm_page[walk.page]

(* The blocks of a page tile it: no two overlap, none lies outside the     *)
(* page, the links run both ways, free neighbours have been merged and a   *)
(* free block wastes nothing behind it.  Splitting, growing over the hard  *)
(* fragment and merging on both sides must together keep this.             *)
ChainsGood ==
  \A p \in VmPages : IF Used(p) THEN GoodChain(vm_page[p]) ELSE vm_page[p] = NoChain

(* The base_address of every block tells whether its page is in memory,    *)
(* also of blocks split off or merged since the page came in, and a walk   *)
(* has rewritten just the blocks before block_itr.                         *)
BasesFollowMapping ==
  \A p \in VmPages : \A b \in DOMAIN vm_page[p] :
    vm_page[p][b].base_address =
      IF IF walk.page = p THEN (b < walk.block_itr) = (walk.fn = "reinit")
                          ELSE p \in mapped
        THEN p ELSE Unbound

(* The list names only free blocks that are in memory, each once, so that  *)
(* the assert (is_free) of allocator_alloc_mem holds and no block is       *)
(* handed out twice or after its page left memory.                         *)
QueueSound ==
  /\ NoDuplicates(free_block_list)
  /\ \A i \in DOMAIN free_block_list :
       LET p == free_block_list[i][1]
           b == free_block_list[i][2]
       IN  /\ p \in mapped
           /\ b \in FreeBlocks(vm_page[p])
           /\ vm_page[p][b].base_address = p

(* The list stays sorted although blocks change their size while they are  *)
(* in it: its first block is the largest, and when that one is too small   *)
(* for a request no queued block would do.                                 *)
QueueSorted == LargestFirst(vm_page, free_block_list)

(* A page in which nobody holds an object is one free block again, however *)
(* its objects were freed: only so does allocator_is_vm_page_empty see it. *)
EmptyPageIsWhole ==
  \A p \in VmPages : Used(p) /\ LiveBlocks(vm_page[p]) = {} =>
    SpansPage(vm_page[p])

(* The free blocks in memory that the list does not name. *)
Unqueued ==
  {blk \in mapped \X (0..DB_PAGE_DEF_SIZE) :
     /\ blk[2] \in FreeBlocks(vm_page[blk[1]])
     /\ vm_page[blk[1]][blk[2]].base_address = blk[1]
     /\ \A i \in DOMAIN free_block_list : free_block_list[i] # blk}

(* Free memory is dropped from the list by a failing request only, one     *)
(* block at a time; every other call queues what it makes free and leaves  *)
(* the others queued.                                                      *)
OnlyFailureDropsBlocks ==
  [][ Unqueued' \subseteq Unqueued
      \/ \E size \in ReqSizes : AllocMemFails(size) ]_vars

(* The objects callers hold: the bytes behind the meta data of live blocks. *)
Objects ==
  UNION {{[page |-> p, addr |-> DataOf(b), len |-> vm_page[p][b].block_size] :
            b \in LiveBlocks(vm_page[p])} : p \in VmPages}

Store == INSTANCE ObjectStore
           WITH Pages <- VmPages, PageSize <- DB_PAGE_DEF_SIZE,
                Reserved <- PageHdrSize + MetaSize, objects <- Objects

(* The allocator implements the object store: an allocation adds one       *)
(* object in memory nobody else has, a free removes it, and merging,       *)
(* splitting and moving pages in and out leave every other object alone.   *)
ImplementsStore == Store!StoreSpec

=============================================================================
