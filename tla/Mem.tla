-------------------------------- MODULE Mem --------------------------------
(***************************************************************************)
(* mem.cpp over pager.cpp: objects in a database file.  uapi_mem_alloc     *)
(* takes a new page of the file when the list of free blocks is empty,     *)
(* uapi_mem_free gives an empty page back, uapi_get_vm_addr brings a page  *)
(* into memory.  Pages are mapped MAP_SHARED: what is written in them is   *)
(* in the file at once and survives the process, the list and the two      *)
(* hash tables do not.  The process may be killed, or abort at an assert,  *)
(* between any two steps; it is opened again on the same file.             *)
(*                                                                         *)
(* The address a page is mapped at is the page's number; offsets within a  *)
(* page are those of PageBlocks.  A disk address is <<page, offset>>.      *)
(* Swiping a page in or out walks over its blocks, one step an iteration.  *)
(***************************************************************************)
EXTENDS FreeList

CONSTANTS
  DB_FILE_DEF_PAGE_CNT,   (* pages in the file; page 0 holds db_file_hdr_t *)
  ReqSizes                (* the sizes callers ask for                     *)

ASSUME FileAndRequests ==
  /\ DB_FILE_DEF_PAGE_CNT \in Nat \ {0}
  /\ ReqSizes \subseteq Nat

DbPages == 1..DB_FILE_DEF_PAGE_CNT - 1

VARIABLES
  vm_page,              (* the file's pages                                      *)
  allocated_pg_bitmap,  (* the pages whose bit is set in db_file_hdr_t           *)
  free_block_list,      (* free_block_list_head                                  *)
  mapped,               (* the keys of pg_pgno_to_mapped_addr_ht                 *)
  proc,                 (* "closed", "open", "dead", or "wild" after undefined
                           behaviour                                             *)
  pc,                   (* the call in progress: its next step, page and size,
                           or block_itr of the loop that is running              *)
  result,               (* how the last call ended                               *)
  stale                 (* history: pages that were in memory when the process
                           died, and were not initialised again                  *)

file == <<vm_page, allocated_pg_bitmap>>
memory == <<free_block_list, mapped>>
vars == <<vm_page, allocated_pg_bitmap, free_block_list, mapped, proc, pc, result, stale>>

Idle == [step |-> "idle", page |-> 0, size |-> 0, block_itr |-> NoBlock]
At(step, p, size) == [step |-> step, page |-> p, size |-> size, block_itr |-> NoBlock]
WalkAt(step, p, b) == [step |-> step, page |-> p, size |-> 0, block_itr |-> b]

SwipingIn  == proc = "open" /\ pc.step = "swipe_in"
SwipingOut == proc = "open" /\ pc.step \in {"swipe_out", "destroy_page"}

(* db_page_memory_swipe_in enters the page in the hash tables at its end. *)
InMemory == IF SwipingIn THEN mapped \cup {pc.page} ELSE mapped

Ready == proc = "open" /\ pc = Idle

Used(p) == FirstBlock \in DOMAIN vm_page[p]

(* db_file_create_db_file has run; only page 0 is allocated. *)
Init ==
  /\ vm_page = [p \in DbPages |-> NoChain]
  /\ allocated_pg_bitmap = {}
  /\ free_block_list = <<>>
  /\ mapped = {}
  /\ proc = "closed"
  /\ pc = Idle
  /\ result = "ok"
  /\ stale = {}

(* The process is gone, and with it the list and the hash tables. *)
Die(how) ==
  /\ proc' = "dead"
  /\ pc' = Idle
  /\ result' = how
  /\ free_block_list' = <<>>
  /\ mapped' = {}

-----------------------------------------------------------------------------
(* The process dies: the pages in memory stay in the file as they are. *)
Abort(how) ==
  /\ Die(how)
  /\ stale' = stale \cup InMemory
  /\ UNCHANGED file

-----------------------------------------------------------------------------
(* Wrong Unmapped: the page stays in the hash tables. *)
UnmappedNot(p) == mapped

Unmapped(p) == mapped \ {p}

(* db_page_memory_swipe_out: allocator_deinit is at block pc.block_itr;    *)
(* after the last block the page leaves memory.  Then uapi_mem_free gives  *)
(* it back, or mem_mgr_destroy goes on to the next page.                   *)
SwipeOutStep ==
  LET p == pc.page
      b == pc.block_itr
      n == vm_page[p][b].next_block
  IN  /\ SwipingOut
      /\ vm_page' = WalkPages(vm_page, p, b, Unbound)
      /\ free_block_list' = DeinitList(vm_page, free_block_list, p, b)
      /\ mapped' = IF n = NoBlock THEN Unmapped(p) ELSE mapped
      /\ pc' = CASE n # NoBlock -> WalkAt(pc.step, p, n)
                 [] n = NoBlock /\ pc.step = "swipe_out" -> At("free_page", p, 0)
                 [] n = NoBlock /\ pc.step = "destroy_page" -> At("destroy", 0, 0)
      /\ UNCHANGED <<allocated_pg_bitmap, proc, result, stale>>

(* db_page_memory_swipe_in: allocator_reinit is at block pc.block_itr;     *)
(* after the last block the page is entered in the hash tables.            *)
SwipeInStep ==
  LET p == pc.page
      b == pc.block_itr
      n == vm_page[p][b].next_block
  IN  /\ SwipingIn
      /\ vm_page[p][b].base_address = Unbound
      /\ vm_page' = WalkPages(vm_page, p, b, p)
      /\ free_block_list' = ReinitList(vm_page, free_block_list, p, b)
      /\ IF n = NoBlock
           THEN /\ mapped' = mapped \cup {p}
                /\ pc' = Idle
                /\ result' = "offset without base"
           ELSE /\ pc' = WalkAt("swipe_in", p, n)
                /\ UNCHANGED <<mapped, result>>
      /\ UNCHANGED <<allocated_pg_bitmap, proc, stale>>

(* The assert of allocator_reinit: block_itr still has the address of an   *)
(* earlier process.                                                        *)
SwipeInAborts ==
  /\ SwipingIn
  /\ vm_page[pc.page][pc.block_itr].base_address # Unbound
  /\ Abort("base_address was set")

-----------------------------------------------------------------------------
(* uapi_mem_alloc, a free block being queued: the first one must do. *)
UapiMemAlloc(size) ==
  /\ Ready
  /\ free_block_list # <<>>
  /\ FirstFits(vm_page, free_block_list, size)
  /\ vm_page' = AllocPages(vm_page, free_block_list, size)
  /\ free_block_list' = AllocList(vm_page, free_block_list, size)
  /\ result' = "ok"
  /\ UNCHANGED <<allocated_pg_bitmap, mapped, proc, pc, stale>>

(* The assert on *ptr fails: allocator_alloc_mem returned NULL. *)
UapiMemAllocAborts(size) ==
  /\ Ready
  /\ free_block_list # <<>>
  /\ ~FirstFits(vm_page, free_block_list, size)
  /\ Abort("request did not fit")

(* Wrong FreeDbPages: every page that is not in memory is free. *)
FreeDbPagesNotMapped == DbPages \ mapped

(* uapi_mem_alloc, the list being empty: db_file_alloc_db_page sets the    *)
(* first zero bit ...                                                      *)
FreeDbPages == DbPages \ allocated_pg_bitmap

UapiMemAllocNewPage(size) ==
  /\ Ready
  /\ free_block_list = <<>>
  /\ FreeDbPages # {}
  /\ LET p == CHOOSE q \in FreeDbPages : \A r \in FreeDbPages : q <= r
     IN  /\ allocated_pg_bitmap' = allocated_pg_bitmap \cup {p}
         /\ pc' = At("init", p, size)
  /\ result' = "ok"
  /\ UNCHANGED <<vm_page, memory, proc, stale>>

(* ... or finds none: assert (db_pg != INVALID_DB_PG_NO). *)
UapiMemAllocFileFull ==
  /\ Ready
  /\ free_block_list = <<>>
  /\ FreeDbPages = {}
  /\ Abort("file full")

(* The new page is mapped, entered in the hash tables, initialised, and    *)
(* the request is tried on it.                                             *)
UapiMemAllocInit ==
  LET p     == pc.page
      pages == InitPages(vm_page, p)
      list  == InitList(vm_page, free_block_list, p)
  IN  /\ proc = "open"
      /\ pc.step = "init"
      /\ IF FirstFits(pages, list, pc.size)
           THEN /\ vm_page' = AllocPages(pages, list, pc.size)
                /\ free_block_list' = AllocList(pages, list, pc.size)
                /\ mapped' = mapped \cup {p}
                /\ result' = "ok"
                /\ pc' = Idle
                /\ stale' = stale \ {p}
                /\ UNCHANGED proc
           ELSE /\ vm_page' = pages
                /\ Die("request did not fit")
                /\ stale' = stale \cup mapped \cup {p}
      /\ UNCHANGED allocated_pg_bitmap

-----------------------------------------------------------------------------
(* Wrong IsVmPageEmpty: a free first block is taken for an empty page. *)
FirstBlockFree(pages, list, p) == pages[p][FirstBlock].is_free

(* allocator_is_vm_page_empty: the page is one free block, and that block  *)
(* is the only one in the list.                                            *)
IsVmPageEmpty(pages, list, p) ==
  SpansPage(pages[p]) /\ list = <<<<p, FirstBlock>>>>

(* uapi_mem_free of the object of block b, page p being in memory. *)
UapiMemFree(p, b) ==
  LET pages == FreePages(vm_page, p, b)
      list  == ListAfterFree(vm_page, free_block_list, p, b)
  IN  /\ Ready
      /\ p \in mapped
      /\ vm_page' = pages
      /\ free_block_list' = list
      /\ pc' = IF IsVmPageEmpty(pages, list, p) THEN WalkAt("swipe_out", p, FirstBlock)
                                                   ELSE Idle
      /\ result' = "ok"
      /\ UNCHANGED <<allocated_pg_bitmap, mapped, proc, stale>>

(* The empty page has left memory: db_file_free_db_page clears its bit. *)
UapiMemFreePage ==
  /\ proc = "open"
  /\ pc.step = "free_page"
  /\ allocated_pg_bitmap' = allocated_pg_bitmap \ {pc.page}
  /\ pc' = Idle
  /\ UNCHANGED <<vm_page, memory, proc, result, stale>>

(* uapi_mem_free, the page not being in memory: the page is mapped but not *)
(* reinitialised, and allocator_free_block follows links from the          *)
(* base_address in the block, which is 0 or of an earlier process.  From   *)
(* here on the behaviour is undefined, and the model ends.                 *)
UapiMemFreeUnmapped(p, b) ==
  /\ Ready
  /\ p \notin mapped
  /\ proc' = "wild"
  /\ result' = "followed a bad base_address"
  /\ UNCHANGED <<vm_page, allocated_pg_bitmap, memory, pc, stale>>

-----------------------------------------------------------------------------
(* uapi_get_vm_addr, the page being in memory. *)
UapiGetVmAddr(p) ==
  /\ Ready
  /\ p \in mapped
  /\ result' = "address"
  /\ UNCHANGED <<file, memory, proc, pc, stale>>

(* ... the page not being in memory: it is swiped in, but the address      *)
(* returned is NULL plus the offset within the page.                       *)
UapiGetVmAddrSwipeIn(p) ==
  /\ Ready
  /\ p \notin mapped
  /\ pc' = WalkAt("swipe_in", p, FirstBlock)
  /\ UNCHANGED <<file, memory, proc, result, stale>>

-----------------------------------------------------------------------------
(* db_file_open and db_file_close; mem_mgr_destroy swipes the pages out    *)
(* one by one, in the order of the hash table.                             *)
DbFileOpen ==
  /\ proc \in {"closed", "dead"}
  /\ proc' = "open"
  /\ result' = "ok"
  /\ UNCHANGED <<file, memory, pc, stale>>

DbFileClose ==
  /\ Ready
  /\ pc' = At("destroy", 0, 0)
  /\ result' = "ok"
  /\ UNCHANGED <<file, memory, proc, stale>>

MemMgrDestroyPage(p) ==
  /\ proc = "open"
  /\ pc.step = "destroy"
  /\ p \in mapped
  /\ pc' = WalkAt("destroy_page", p, FirstBlock)
  /\ UNCHANGED <<file, memory, proc, result, stale>>

MemMgrDestroyEnds ==
  /\ proc = "open"
  /\ pc.step = "destroy"
  /\ mapped = {}
  /\ proc' = "closed"
  /\ pc' = Idle
  /\ UNCHANGED <<file, memory, result, stale>>

(* The process is killed. *)
Kill ==
  /\ proc = "open"
  /\ Abort("killed")

Next ==
  \/ \E size \in ReqSizes : \/ UapiMemAlloc(size)
                            \/ UapiMemAllocAborts(size)
                            \/ UapiMemAllocNewPage(size)
  \/ UapiMemAllocFileFull
  \/ UapiMemAllocInit
  \/ \E p \in DbPages : \E b \in LiveBlocks(vm_page[p]) :
       \/ UapiMemFree(p, b)
       \/ UapiMemFreeUnmapped(p, b)
       \/ UapiGetVmAddr(p)
       \/ UapiGetVmAddrSwipeIn(p)
  \/ SwipeInStep
  \/ SwipeInAborts
  \/ SwipeOutStep
  \/ UapiMemFreePage
  \/ DbFileOpen
  \/ DbFileClose
  \/ \E p \in DbPages : MemMgrDestroyPage(p)
  \/ MemMgrDestroyEnds
  \/ Kill

(* A call that has begun goes on: the program is sequential. *)
Continue ==
  \/ UapiMemAllocInit
  \/ SwipeInStep
  \/ SwipeInAborts
  \/ SwipeOutStep
  \/ UapiMemFreePage
  \/ \E p \in DbPages : MemMgrDestroyPage(p)
  \/ MemMgrDestroyEnds

Spec == Init /\ [][Next]_vars

FairSpec == Spec /\ WF_vars(Continue)

-----------------------------------------------------------------------------
(* The file and the process's memory have their types. *)
TypeOK ==
  /\ DOMAIN vm_page = DbPages
  /\ \A p \in DbPages : TypedChain(vm_page[p])
  /\ free_block_list \in Seq(DbPages \X Nat)
  /\ allocated_pg_bitmap \subseteq DbPages
  /\ mapped \subseteq DbPages
  /\ stale \subseteq DbPages
  /\ proc \in {"closed", "open", "dead", "wild"}

(* A page with an object in it, or in memory, is marked as allocated in    *)
(* the file, so that db_file_alloc_db_page never hands it out again: also  *)
(* when the process dies between swiping an empty page out and clearing    *)
(* its bit, or between setting the bit and initialising the page.          *)
PagesInUseAllocated ==
  \A p \in DbPages :
    p \in mapped \/ LiveBlocks(vm_page[p]) # {} => p \in allocated_pg_bitmap

(* The free blocks of page p that must be queued: all, but for those that  *)
(* a walk over the page has not reached yet, or has passed.                *)
ToQueue(p) ==
  {b \in FreeBlocks(vm_page[p]) :
     /\ SwipingIn /\ p = pc.page => b < pc.block_itr
     /\ SwipingOut /\ p = pc.page => b >= pc.block_itr}

(* The list is rebuilt from the pages as they come into memory and is all  *)
(* the free memory in them: it names every free block of every page in     *)
(* memory, once, and nothing else.  The allocations' only way to a page is *)
(* this list, and a block left in it when its page is unmapped is a        *)
(* dangling pointer.                                                       *)
QueueIsFreeMemory ==
  /\ TypeOK
  /\ NoDuplicates(free_block_list)
  /\ {free_block_list[i] : i \in DOMAIN free_block_list} =
       UNION {{<<p, b>> : b \in ToQueue(p)} : p \in InMemory}

(* The assert of allocator_deinit holds, and that of allocator_reinit can  *)
(* fail only for a page that was in memory when a process died: every page *)
(* that left memory regularly was left so that it can be swiped in again,  *)
(* whatever was split, merged or handed out while it was in memory.        *)
CleanPagesCanReturn ==
  /\ SwipingOut => vm_page[pc.page][pc.block_itr].base_address = pc.page
  /\ proc # "wild" =>
       \A p \in DbPages \ (InMemory \cup stale) : BasedAt(vm_page[p], Unbound)

(* The objects in the file. *)
Objects ==
  UNION {{[page |-> p, addr |-> DataOf(b), len |-> vm_page[p][b].block_size] :
            b \in LiveBlocks(vm_page[p])} : p \in DbPages}

Store == INSTANCE ObjectStore
           WITH Pages <- DbPages, PageSize <- DB_PAGE_DEF_SIZE,
                Reserved <- PageHdrSize + MetaSize, objects <- Objects

(* Objects persist: whatever pages come and go, however often the file is  *)
(* closed and opened, the process killed or aborted in between, an object  *)
(* keeps its place and its size in the file until it is freed, and no      *)
(* other object gets its bytes.                                            *)
FileKeepsObjects == Store!StoreSpec

(* uapi_mem_free and db_file_close end, db_file_close with every page out  *)
(* of memory, unless the process dies.                                     *)
CallsEnd == /\ (pc.step # "idle") ~> (pc.step = "idle")
            /\ (pc.step = "destroy") ~> (proc \in {"closed", "dead"})

=============================================================================
