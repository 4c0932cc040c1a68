----------------------------- MODULE MemProofs -----------------------------
(***************************************************************************)
(* Safety of the pages of a database file, for a file of any size, pages   *)
(* of any size and any requests: the inductive invariant IInv, the         *)
(* theorems it gives, and that the file keeps its objects whenever the     *)
(* process dies.  The second half is about the hash table, which Mem uses  *)
(* for its pages and reads as a function: every entry is in the chain of   *)
(* its hash and the count is right, however often the table has grown; the *)
(* iterator meets every entry that stays, whatever it removes on its way;  *)
(* and the calls are steps of a map.                                       *)
(***************************************************************************)
EXTENDS Mem, HashTable, AllocatorCalls, FiniteSetTheorems

(* Where the calls stand.  The list is empty and nothing is mapped while   *)
(* no process runs; a walk is on a block of its page; a page that is given *)
(* back or initialised holds no object.                                    *)
StepOK ==
  /\ proc \in {"closed", "open", "dead", "wild"}
  /\ proc # "open" => pc = Idle
  /\ proc \in {"closed", "dead"} => free_block_list = <<>> /\ mapped = {}
  /\ pc.step \in {"idle", "init", "swipe_in", "swipe_out", "destroy_page",
                  "free_page", "destroy"}
  /\ pc.step = "idle" => pc = Idle
  /\ pc.step = "init" =>
       /\ pc.page \in allocated_pg_bitmap \ mapped
       /\ LiveBlocks(vm_page[pc.page]) = {}
       /\ pc.size \in Nat
       /\ free_block_list = <<>>
  /\ pc.step = "free_page" =>
       /\ pc.page \in DbPages \ mapped
       /\ LiveBlocks(vm_page[pc.page]) = {}
  /\ pc.step \in {"swipe_out", "destroy_page"} => pc.page \in mapped
  /\ pc.step = "swipe_out" => LiveBlocks(vm_page[pc.page]) = {}
  /\ pc.step = "swipe_in" => pc.page \in allocated_pg_bitmap \ mapped
  /\ SwipingIn \/ SwipingOut => /\ pc.block_itr \in Nat
                                /\ pc.block_itr \in DOMAIN vm_page[pc.page]

(* Which pages are allocated, and the base_address of their blocks.  A     *)
(* page that was in memory when a process died may hold any.               *)
PageOK(p) ==
  /\ p \in mapped => p \in allocated_pg_bitmap /\ Used(p)
  /\ LiveBlocks(vm_page[p]) # {} => p \in allocated_pg_bitmap
  /\ p \in mapped /\ ~(SwipingOut /\ p = pc.page) => BasedAt(vm_page[p], p)
  /\ p \notin InMemory \cup stale => BasedAt(vm_page[p], Unbound)
  /\ SwipingOut /\ p = pc.page => /\ Walked(vm_page[p], pc.block_itr, Unbound)
                                  /\ Unwalked(vm_page[p], pc.block_itr, p)
  /\ SwipingIn /\ p = pc.page =>
       /\ Walked(vm_page[p], pc.block_itr, p)
       /\ p \notin stale => Unwalked(vm_page[p], pc.block_itr, Unbound)

(* The list names every free block in memory, but for those that a walk    *)
(* into memory has still to reach.                                         *)
ListOK ==
  /\ GoodQueue(DbPages, vm_page, InMemory, free_block_list)
  /\ \A p \in InMemory : \A b \in DOMAIN vm_page[p] :
       Entry(DbPages, vm_page, InMemory, <<p, b>>) =>
         (Listed(free_block_list, <<p, b>>)
            <=> ~(SwipingIn /\ p = pc.page /\ b >= pc.block_itr))

IInv ==
  /\ GoodPages(DbPages, vm_page)
  /\ allocated_pg_bitmap \subseteq DbPages
  /\ mapped \subseteq DbPages
  /\ stale \subseteq DbPages
  /\ StepOK
  /\ \A p \in DbPages : PageOK(p)
  /\ ListOK

-----------------------------------------------------------------------------
LEMMA DbPage ==
  /\ DbPages \subseteq Nat
  /\ \A p \in DbPages : p \in Nat /\ p # Unbound
  BY FileAndRequests DEF DbPages, Unbound

LEMMA SmallestOf ==
  ASSUME NEW T, T \subseteq Nat, T # {}
  PROVE  \E p \in T : \A r \in T : p <= r
<1>1. PICK p \in T : \A r \in T : ~(<<r, p>> \in OpToRel(<, Nat))
  BY WFMin, NatLessThanWellFounded
<1>2. \A r \in T : ~(r < p)
  BY <1>1 DEF OpToRel
<1> QED BY <1>2

LEMMA PcFields ==
  /\ Idle.step = "idle"
  /\ \A s, p, z : /\ At(s, p, z).step = s /\ At(s, p, z).page = p /\ At(s, p, z).size = z
                  /\ WalkAt(s, p, z).step = s /\ WalkAt(s, p, z).page = p
                  /\ WalkAt(s, p, z).block_itr = z
  BY DEF Idle, At, WalkAt

(* While no page is swiped in, the list names all the free memory. *)
LEMMA ListComplete ==
  ASSUME IInv, ~SwipingIn
  PROVE  /\ InMemory = mapped
         /\ GoodQueue(DbPages, vm_page, mapped, free_block_list)
         /\ \A x : x \notin Forgotten(DbPages, vm_page, mapped, free_block_list)
<1>1. InMemory = mapped
  BY DEF InMemory
<1>2. ASSUME NEW x, x \in Forgotten(DbPages, vm_page, mapped, free_block_list)
      PROVE  FALSE
  <2>1. Entry(DbPages, vm_page, mapped, x) /\ ~Listed(free_block_list, x)
    BY <1>2 DEF Forgotten
  <2>2. PICK q \in DbPages, y \in Nat :
          x = <<q, y>> /\ q \in mapped /\ y \in DOMAIN vm_page[q]
    BY <2>1, EntryParts
  <2> QED BY <1>1, <2>1, <2>2 DEF IInv, ListOK
<1> QED BY <1>1, <1>2 DEF IInv, ListOK

LEMMA NothingForgotten ==
  ASSUME NEW pages, NEW maps, NEW list, GoodQueue(DbPages, pages, maps, list),
         \A x : x \notin Forgotten(DbPages, pages, maps, list)
  PROVE  \A p \in maps : \A b \in DOMAIN pages[p] :
           Entry(DbPages, pages, maps, <<p, b>>) => Listed(list, <<p, b>>)
  BY DEF Forgotten, Entry

(* A list of nothing in memory is empty. *)
LEMMA NoMemoryNoList ==
  ASSUME NEW pages, NEW maps, NEW list, GoodQueue(DbPages, pages, maps, list),
         \A p : p \notin maps
  PROVE  list = <<>>
  BY DEF GoodQueue, Entry

(* An empty page holds no object. *)
LEMMA SpannedPage ==
  ASSUME NEW c, GoodChain(c), SpansPage(c)
  PROVE  LiveBlocks(c) = {}
<1>1. FirstBlock \in DOMAIN c /\ c[FirstBlock].is_free
  BY DEF GoodChain, Linked, SpansPage
<1>2. ASSUME NEW d \in DOMAIN c, d # FirstBlock PROVE FALSE
  <2>1. /\ EndOf(c, FirstBlock) = DB_PAGE_DEF_SIZE
        /\ EndOf(c, FirstBlock) <= LimitOf(c, FirstBlock)
        /\ FirstBlock <= d
        /\ d <= FirstBlock \/ LimitOf(c, FirstBlock) <= d
        /\ EndOf(c, d) <= LimitOf(c, d) /\ LimitOf(c, d) <= DB_PAGE_DEF_SIZE
    <3>1. FirstBlock + MetaSize + c[FirstBlock].block_size = DB_PAGE_DEF_SIZE
      BY <1>1, ChainNumbers, PageLayout DEF SpansPage, FirstBlock, GoodChain
    <3>2. EndOf(c, FirstBlock) = DB_PAGE_DEF_SIZE
      BY <1>1, <3>1, ChainNumbers DEF GoodChain
    <3> QED BY <1>1, <1>2, <3>2 DEF GoodChain, Linked
  <2>2. /\ d \in Nat /\ FirstBlock \in Nat /\ c[d].block_size \in Nat
        /\ EndOf(c, d) = d + MetaSize + c[d].block_size
        /\ LimitOf(c, FirstBlock) \in Nat /\ LimitOf(c, d) \in Nat
    BY <1>1, ChainNumbers DEF GoodChain
  <2> QED BY <1>2, <2>1, <2>2, PageLayout
<1> QED BY <1>1, <1>2 DEF LiveBlocks

LEMMA InitIInv == Init => IInv
<1> SUFFICES ASSUME Init PROVE IInv
  OBVIOUS
<1>1. GoodPages(DbPages, vm_page)
  BY DEF Init, GoodPages
<1>2. ~SwipingIn /\ ~SwipingOut /\ InMemory = {}
  BY DEF Init, SwipingIn, SwipingOut, InMemory
<1>3. ListOK
  BY <1>2 DEF Init, ListOK, GoodQueue, NoDuplicates, LargestFirst
<1>4. \A p \in DbPages : PageOK(p)
  <2>1. \A p \in DbPages : LiveBlocks(vm_page[p]) = {} /\ BasedAt(vm_page[p], Unbound)
    BY DEF Init, NoChain, LiveBlocks, BasedAt
  <2> QED BY <1>2, <2>1 DEF Init, PageOK
<1>5. StepOK
  BY <1>2, PcFields DEF Init, StepOK
<1> QED BY <1>1, <1>3, <1>4, <1>5 DEF IInv, Init

-----------------------------------------------------------------------------
(* Steps that touch neither pages nor list, before, between and after the  *)
(* loops.                                                                  *)
LEMMA CallStep ==
  ASSUME IInv, UNCHANGED <<vm_page, free_block_list, mapped, stale>>,
         ~SwipingIn, ~SwipingOut, ~SwipingIn', ~SwipingOut',
         StepOK', allocated_pg_bitmap' \subseteq DbPages,
         \A p \in DbPages : p \in mapped \/ LiveBlocks(vm_page[p]) # {}
                              => p \in allocated_pg_bitmap'
  PROVE  IInv'
<1>1. InMemory = mapped /\ InMemory' = mapped
  BY DEF InMemory
<1>2. ListOK'
  BY <1>1 DEF ListOK, IInv
<1>3. (\A p \in DbPages : PageOK(p))'
  <2> SUFFICES ASSUME NEW p \in DbPages PROVE PageOK(p)'
    OBVIOUS
  <2>1. PageOK(p)
    BY DEF IInv
  <2> QED BY <1>1, <2>1 DEF PageOK, Used
<1> QED BY <1>2, <1>3 DEF IInv

LEMMA NewPageStep ==
  ASSUME IInv, NEW size \in ReqSizes, UapiMemAllocNewPage(size)
  PROVE  IInv'
<1>1. \E p \in FreeDbPages : \A r \in FreeDbPages : p <= r
  <2>1. FreeDbPages \subseteq Nat /\ FreeDbPages # {}
    BY DbPage DEF UapiMemAllocNewPage, FreeDbPages
  <2> QED BY <2>1, SmallestOf
<1>2. PICK p \in FreeDbPages :
        /\ allocated_pg_bitmap' = allocated_pg_bitmap \cup {p}
        /\ pc' = At("init", p, size)
  BY <1>1 DEF UapiMemAllocNewPage
<1>3. /\ proc = "open" /\ pc = Idle /\ free_block_list = <<>> /\ proc' = proc
      /\ UNCHANGED <<vm_page, free_block_list, mapped, stale>>
  BY DEF UapiMemAllocNewPage, Ready, memory
<1>4. /\ pc'.step = "init" /\ pc'.page = p /\ pc'.size = size /\ pc.step = "idle"
  BY <1>2, <1>3, PcFields
<1>5. ~SwipingIn /\ ~SwipingOut /\ ~SwipingIn' /\ ~SwipingOut'
  BY <1>4 DEF SwipingIn, SwipingOut
<1>6. p \in DbPages /\ p \notin allocated_pg_bitmap
  BY DEF FreeDbPages
<1>7. p \notin mapped /\ LiveBlocks(vm_page[p]) = {}
  BY <1>6 DEF IInv, PageOK
<1>8. StepOK'
  BY <1>2, <1>3, <1>4, <1>5, <1>6, <1>7, FileAndRequests DEF StepOK
<1>9. allocated_pg_bitmap' \subseteq DbPages
  BY <1>2, <1>6 DEF IInv
<1> QED BY <1>2, <1>3, <1>5, <1>8, <1>9, CallStep DEF IInv, PageOK

(* The bit of an empty page is cleared. *)
LEMMA FreePageStep ==
  ASSUME IInv, UapiMemFreePage
  PROVE  IInv'
<1>1. /\ pc.step = "free_page" /\ pc' = Idle /\ proc = "open" /\ proc' = proc
      /\ allocated_pg_bitmap' = allocated_pg_bitmap \ {pc.page}
      /\ UNCHANGED <<vm_page, free_block_list, mapped, stale>>
  BY DEF UapiMemFreePage, memory
<1>2. ~SwipingIn /\ ~SwipingOut /\ ~SwipingIn' /\ ~SwipingOut'
  BY <1>1, PcFields DEF SwipingIn, SwipingOut
<1>3. pc.page \notin mapped /\ LiveBlocks(vm_page[pc.page]) = {}
  BY <1>1 DEF IInv, StepOK
<1>4. StepOK'
  BY <1>1, <1>2, PcFields DEF StepOK
<1> QED BY <1>1, <1>2, <1>3, <1>4, CallStep DEF IInv, PageOK

LEMMA FreeUnmappedStep ==
  ASSUME IInv, NEW p, NEW b, UapiMemFreeUnmapped(p, b)
  PROVE  IInv'
<1>1. /\ pc = Idle /\ pc' = pc /\ proc = "open" /\ proc' = "wild"
      /\ UNCHANGED <<vm_page, allocated_pg_bitmap, free_block_list, mapped, stale>>
  BY DEF UapiMemFreeUnmapped, memory, Ready
<1>2. ~SwipingIn /\ ~SwipingOut /\ ~SwipingIn' /\ ~SwipingOut'
  BY <1>1, PcFields DEF SwipingIn, SwipingOut
<1>3. StepOK'
  BY <1>1, <1>2, PcFields DEF StepOK
<1> QED BY <1>1, <1>2, <1>3, CallStep DEF IInv, PageOK

LEMMA GetVmAddrStep ==
  ASSUME IInv, NEW p, UapiGetVmAddr(p)
  PROVE  IInv'
<1>1. /\ pc = Idle /\ pc' = pc /\ proc = "open" /\ proc' = proc
      /\ UNCHANGED <<vm_page, allocated_pg_bitmap, free_block_list, mapped, stale>>
  BY DEF UapiGetVmAddr, file, memory, Ready
<1>2. ~SwipingIn /\ ~SwipingOut /\ ~SwipingIn' /\ ~SwipingOut'
  BY <1>1, PcFields DEF SwipingIn, SwipingOut
<1>3. StepOK'
  BY <1>1, <1>2, PcFields DEF StepOK
<1> QED BY <1>1, <1>2, <1>3, CallStep DEF IInv, PageOK

LEMMA OpenStep ==
  ASSUME IInv, DbFileOpen
  PROVE  IInv'
<1>1. /\ proc \in {"closed", "dead"} /\ proc' = "open" /\ pc' = pc
      /\ UNCHANGED <<vm_page, allocated_pg_bitmap, free_block_list, mapped, stale>>
  BY DEF DbFileOpen, file, memory
<1>2. pc = Idle
  BY <1>1 DEF IInv, StepOK
<1>3. ~SwipingIn /\ ~SwipingOut /\ ~SwipingIn' /\ ~SwipingOut'
  BY <1>1, <1>2, PcFields DEF SwipingIn, SwipingOut
<1>4. StepOK'
  BY <1>1, <1>2, <1>3, PcFields DEF StepOK
<1> QED BY <1>1, <1>3, <1>4, CallStep DEF IInv, PageOK

LEMMA CloseStep ==
  ASSUME IInv, DbFileClose
  PROVE  IInv'
<1>1. /\ proc = "open" /\ proc' = proc /\ pc = Idle /\ pc' = At("destroy", 0, 0)
      /\ UNCHANGED <<vm_page, allocated_pg_bitmap, free_block_list, mapped, stale>>
  BY DEF DbFileClose, file, memory, Ready
<1>2. pc.step = "idle" /\ pc'.step = "destroy"
  BY <1>1, PcFields
<1>3. ~SwipingIn /\ ~SwipingOut /\ ~SwipingIn' /\ ~SwipingOut'
  BY <1>2 DEF SwipingIn, SwipingOut
<1>4. StepOK'
  BY <1>1, <1>2, <1>3 DEF StepOK
<1> QED BY <1>1, <1>3, <1>4, CallStep DEF IInv, PageOK

LEMMA DestroyEndsStep ==
  ASSUME IInv, MemMgrDestroyEnds
  PROVE  IInv'
<1>1. /\ proc = "open" /\ proc' = "closed" /\ pc' = Idle /\ pc.step = "destroy"
      /\ mapped = {}
      /\ UNCHANGED <<vm_page, allocated_pg_bitmap, free_block_list, mapped, stale>>
  BY DEF MemMgrDestroyEnds, file, memory
<1>2. ~SwipingIn /\ ~SwipingOut /\ ~SwipingIn' /\ ~SwipingOut'
  BY <1>1, PcFields DEF SwipingIn, SwipingOut
<1>3. free_block_list = <<>>
  BY <1>1, <1>2, ListComplete, NoMemoryNoList
<1>4. StepOK'
  BY <1>1, <1>2, <1>3, PcFields DEF StepOK
<1> QED BY <1>1, <1>2, <1>4, CallStep DEF IInv, PageOK

(* mem_mgr_destroy turns to the next page. *)
LEMMA DestroyPageStep ==
  ASSUME IInv, NEW p \in DbPages, MemMgrDestroyPage(p)
  PROVE  IInv'
<1>1. /\ proc = "open" /\ proc' = proc /\ pc.step = "destroy" /\ p \in mapped
      /\ pc' = WalkAt("destroy_page", p, FirstBlock)
      /\ UNCHANGED <<vm_page, allocated_pg_bitmap, free_block_list, mapped, stale>>
  BY DEF MemMgrDestroyPage, file, memory
<1>2. pc'.step = "destroy_page" /\ pc'.page = p /\ pc'.block_itr = FirstBlock
  BY <1>1, PcFields
<1>3. /\ ~SwipingIn /\ ~SwipingOut /\ ~SwipingIn' /\ SwipingOut'
      /\ InMemory = mapped /\ InMemory' = mapped
  BY <1>1, <1>2 DEF SwipingIn, SwipingOut, InMemory
<1>4. GoodPages(DbPages, vm_page) /\ FirstBlock \in DOMAIN vm_page[p] /\ BasedAt(vm_page[p], p)
  BY <1>1, <1>3 DEF IInv, PageOK, Used
<1>5. /\ Walked(vm_page[p], FirstBlock, Unbound)
      /\ Unwalked(vm_page[p], FirstBlock, p)
  BY <1>4, WalkBegins
<1>6. StepOK'
  BY <1>1, <1>2, <1>3, <1>4, PageLayout DEF StepOK, FirstBlock
<1>7. (\A q \in DbPages : PageOK(q))'
  <2> SUFFICES ASSUME NEW q \in DbPages PROVE PageOK(q)'
    OBVIOUS
  <2>1. PageOK(q)
    BY DEF IInv
  <2> QED BY <1>1, <1>2, <1>3, <1>5, <2>1 DEF PageOK, Used
<1>8. ListOK'
  BY <1>1, <1>3 DEF IInv, ListOK
<1> QED BY <1>1, <1>6, <1>7, <1>8 DEF IInv

(* uapi_get_vm_addr finds the page not in memory; the page holds an        *)
(* object, so it is allocated.                                             *)
LEMMA SwipeInBegins ==
  ASSUME IInv, NEW p \in DbPages, NEW b \in LiveBlocks(vm_page[p]), UapiGetVmAddrSwipeIn(p)
  PROVE  IInv'
<1>1. /\ proc = "open" /\ proc' = proc /\ pc = Idle /\ p \notin mapped
      /\ pc' = WalkAt("swipe_in", p, FirstBlock)
      /\ UNCHANGED <<vm_page, allocated_pg_bitmap, free_block_list, mapped, stale>>
  BY DEF UapiGetVmAddrSwipeIn, file, memory, Ready
<1>2. pc'.step = "swipe_in" /\ pc'.page = p /\ pc'.block_itr = FirstBlock /\ pc.step = "idle"
  BY <1>1, PcFields
<1>3. /\ ~SwipingIn /\ ~SwipingOut /\ SwipingIn' /\ ~SwipingOut'
      /\ InMemory = mapped /\ InMemory' = mapped \cup {p}
  BY <1>1, <1>2 DEF SwipingIn, SwipingOut, InMemory
<1>4. /\ GoodPages(DbPages, vm_page) /\ FirstBlock \in DOMAIN vm_page[p]
      /\ p \in allocated_pg_bitmap
      /\ p \notin stale => BasedAt(vm_page[p], Unbound)
  <2>1. GoodPages(DbPages, vm_page) /\ b \in DOMAIN vm_page[p]
    BY DEF IInv, LiveBlocks
  <2>2. FirstBlock \in DOMAIN vm_page[p]
    BY <2>1, UsedPage
  <2> QED BY <1>1, <1>3, <2>1, <2>2 DEF IInv, PageOK
<1>5. /\ Walked(vm_page[p], FirstBlock, p)
      /\ p \notin stale => Unwalked(vm_page[p], FirstBlock, Unbound)
  BY <1>4, WalkBegins
<1>6. StepOK'
  BY <1>1, <1>2, <1>3, <1>4, PageLayout DEF StepOK, FirstBlock
<1>7. (\A q \in DbPages : PageOK(q))'
  <2> SUFFICES ASSUME NEW q \in DbPages PROVE PageOK(q)'
    OBVIOUS
  <2>1. PageOK(q)
    BY DEF IInv
  <2> QED BY <1>1, <1>2, <1>3, <1>5, <2>1 DEF PageOK, Used
<1>8. ListOK'
  <2>1. /\ GoodQueue(DbPages, vm_page, mapped, free_block_list)
        /\ \A q \in mapped : \A d \in DOMAIN vm_page[q] :
             Entry(DbPages, vm_page, mapped, <<q, d>>) => Listed(free_block_list, <<q, d>>)
    BY <1>3, ListComplete, NothingForgotten
  <2>2. GoodQueue(DbPages, vm_page, InMemory', free_block_list)
    <3>1. \A x : Entry(DbPages, vm_page, mapped, x) => Entry(DbPages, vm_page, InMemory', x)
      BY <1>3 DEF Entry
    <3> QED BY <2>1, <3>1 DEF GoodQueue
  <2>3. ASSUME NEW q \in InMemory', NEW d \in DOMAIN vm_page[q],
               Entry(DbPages, vm_page, InMemory', <<q, d>>)
        PROVE  Listed(free_block_list, <<q, d>>) <=> ~(q = p /\ d >= FirstBlock)
    <3>1. CASE q = p
      <4>1. ~Listed(free_block_list, <<q, d>>)
        BY <1>1, <2>1, <3>1, ListedEntry DEF Entry
      <4>2. d >= FirstBlock
        BY <1>4, <3>1, UsedPage, PageLayout DEF FirstBlock
      <4> QED BY <3>1, <4>1, <4>2
    <3>2. CASE q # p
      BY <1>3, <2>1, <2>3, <3>2 DEF Entry
    <3> QED BY <3>1, <3>2
  <2> QED BY <1>1, <1>2, <1>3, <2>2, <2>3 DEF ListOK
<1> QED BY <1>1, <1>6, <1>7, <1>8 DEF IInv

-----------------------------------------------------------------------------
(* The process dies: what was in memory is in the file as it was, and the  *)
(* pages that may hold old addresses are stale.                            *)
LEMMA AbortStep ==
  ASSUME IInv, NEW how, Abort(how)
  PROVE  IInv'
<1>1. /\ proc' = "dead" /\ pc' = Idle /\ free_block_list' = <<>> /\ mapped' = {}
      /\ stale' = stale \cup InMemory
      /\ UNCHANGED <<vm_page, allocated_pg_bitmap>>
  BY DEF Abort, Die, file
<1>2. ~SwipingIn' /\ ~SwipingOut' /\ InMemory' = {}
  BY <1>1 DEF SwipingIn, SwipingOut, InMemory
<1>3. InMemory \subseteq DbPages
  BY DEF InMemory, IInv, StepOK, SwipingIn
<1>4. StepOK'
  BY <1>1, <1>2, PcFields DEF StepOK
<1>5. (\A q \in DbPages : PageOK(q))'
  <2> SUFFICES ASSUME NEW q \in DbPages PROVE PageOK(q)'
    OBVIOUS
  <2>1. PageOK(q)
    BY DEF IInv
  <2> QED BY <1>1, <1>2, <2>1 DEF PageOK
<1>6. ListOK'
  BY <1>1, <1>2 DEF ListOK, GoodQueue, NoDuplicates, LargestFirst
<1> QED BY <1>1, <1>3, <1>4, <1>5, <1>6 DEF IInv

-----------------------------------------------------------------------------
(* uapi_mem_alloc on the first queued block. *)
LEMMA MemAllocStep ==
  ASSUME IInv, NEW size \in ReqSizes, UapiMemAlloc(size)
  PROVE  /\ IInv'
         /\ \E p, b : LiveDiffer(DbPages, vm_page, p, b, vm_page')
<1> DEFINE pages == vm_page'
           list == free_block_list'
           p == Head(free_block_list)[1]
           b == Head(free_block_list)[2]
<1>1. /\ proc = "open" /\ proc' = proc /\ pc = Idle /\ pc' = pc
      /\ free_block_list # <<>> /\ FirstFits(vm_page, free_block_list, size)
      /\ pages = AllocPages(vm_page, free_block_list, size)
      /\ list = AllocList(vm_page, free_block_list, size)
      /\ UNCHANGED <<allocated_pg_bitmap, mapped, stale>>
  BY DEF UapiMemAlloc, Ready
<1>2. p = Head(free_block_list)[1] /\ b = Head(free_block_list)[2] /\ size \in Nat
  BY FileAndRequests
<1> HIDE DEF pages, list, p, b
<1>3. /\ ~SwipingIn /\ ~SwipingOut /\ ~SwipingIn' /\ ~SwipingOut'
      /\ InMemory = mapped /\ InMemory' = mapped
  BY <1>1, PcFields DEF SwipingIn, SwipingOut, InMemory
<1>4. /\ GoodPages(DbPages, vm_page)
      /\ GoodQueue(DbPages, vm_page, mapped, free_block_list)
      /\ \A x : x \notin Forgotten(DbPages, vm_page, mapped, free_block_list)
  BY <1>3, ListComplete DEF IInv
<1>5. /\ SoundCall(DbPages, vm_page, mapped, free_block_list, pages, mapped, list)
      /\ OthersSame(DbPages, p, vm_page, pages)
      /\ p \in DbPages /\ p \in mapped
      /\ LiveDiffer(DbPages, vm_page, p, b, pages)
      /\ FirstBlock \in DOMAIN pages[p]
      /\ \A base : BasedAt(vm_page[p], base) => BasedAt(pages[p], base)
  BY <1>1, <1>2, <1>4, AllocCall
<1>6. StepOK'
  BY <1>1, <1>3, PcFields DEF StepOK
<1>7. (\A q \in DbPages : PageOK(q))'
  <2> SUFFICES ASSUME NEW q \in DbPages PROVE PageOK(q)'
    OBVIOUS
  <2>1. PageOK(q)
    BY DEF IInv
  <2>2. CASE q # p
    BY <1>1, <1>3, <1>5, <2>1, <2>2 DEF PageOK, Used, OthersSame, pages
  <2>3. CASE q = p
    BY <1>1, <1>3, <1>5, <2>1, <2>3 DEF PageOK, Used, pages
  <2> QED BY <2>2, <2>3
<1>8. ListOK'
  <2>1. /\ GoodQueue(DbPages, pages, mapped, list)
        /\ \A x : x \notin Forgotten(DbPages, pages, mapped, list)
    BY <1>4, <1>5 DEF SoundCall
  <2>2. \A q \in mapped : \A d \in DOMAIN pages[q] :
          Entry(DbPages, pages, mapped, <<q, d>>) => Listed(list, <<q, d>>)
    BY <2>1, NothingForgotten
  <2> QED BY <1>3, <2>1, <2>2 DEF ListOK, pages, list
<1> QED BY <1>1, <1>5, <1>6, <1>7, <1>8 DEF IInv, SoundCall, pages

(* uapi_mem_free; the page may turn out empty, and is swiped out then. *)
LEMMA MemFreeStep ==
  ASSUME IInv, NEW p \in DbPages, NEW b \in LiveBlocks(vm_page[p]), UapiMemFree(p, b)
  PROVE  /\ IInv'
         /\ LiveDiffer(DbPages, vm_page', p, b, vm_page)
<1> DEFINE pages == vm_page'
           list == free_block_list'
<1>1. /\ proc = "open" /\ proc' = proc /\ pc = Idle /\ p \in mapped
      /\ pages = FreePages(vm_page, p, b)
      /\ list = ListAfterFree(vm_page, free_block_list, p, b)
      /\ pc' = IF IsVmPageEmpty(pages, list, p) THEN WalkAt("swipe_out", p, FirstBlock)
                                                ELSE Idle
      /\ UNCHANGED <<allocated_pg_bitmap, mapped, stale>>
  BY DEF UapiMemFree, Ready
<1>2. /\ ~SwipingIn /\ ~SwipingOut /\ InMemory = mapped
  BY <1>1, PcFields DEF SwipingIn, SwipingOut, InMemory
<1>3. /\ GoodPages(DbPages, vm_page) /\ BasedAt(vm_page[p], p)
      /\ GoodQueue(DbPages, vm_page, mapped, free_block_list)
      /\ \A x : x \notin Forgotten(DbPages, vm_page, mapped, free_block_list)
  BY <1>1, <1>2, ListComplete DEF IInv, PageOK
<1> HIDE DEF pages, list
<1>4. /\ SoundCall(DbPages, vm_page, mapped, free_block_list, pages, mapped, list)
      /\ OthersSame(DbPages, p, vm_page, pages)
      /\ LiveDiffer(DbPages, pages, p, b, vm_page)
      /\ FirstBlock \in DOMAIN pages[p]
      /\ BasedAt(pages[p], p)
  BY <1>1, <1>3, FreeCall
<1>5. ~SwipingIn' /\ InMemory' = mapped
  BY <1>1, PcFields DEF SwipingIn, InMemory
<1>6. SwipingOut' => /\ pc'.step = "swipe_out" /\ pc'.page = p
                     /\ pc'.block_itr = FirstBlock
                     /\ LiveBlocks(pages[p]) = {}
  <2> SUFFICES ASSUME SwipingOut'
               PROVE  /\ pc'.step = "swipe_out" /\ pc'.page = p
                      /\ pc'.block_itr = FirstBlock
                      /\ LiveBlocks(pages[p]) = {}
    OBVIOUS
  <2>1. IsVmPageEmpty(pages, list, p)
    BY <1>1, PcFields DEF SwipingOut
  <2>2. GoodChain(pages[p])
    BY <1>4, UsedPage DEF SoundCall
  <2>3. LiveBlocks(pages[p]) = {}
    BY <2>1, <2>2, SpannedPage DEF IsVmPageEmpty
  <2> QED BY <1>1, <2>1, <2>3, PcFields
<1>7. /\ Walked(pages[p], FirstBlock, Unbound)
      /\ Unwalked(pages[p], FirstBlock, p)
  BY <1>4, WalkBegins DEF SoundCall
<1>8. StepOK'
  <2>1. CASE SwipingOut'
    BY <1>1, <1>4, <1>5, <1>6, <2>1, PageLayout DEF StepOK, FirstBlock, pages
  <2>2. CASE ~SwipingOut'
    <3>1. pc' = Idle
      BY <1>1, <2>2, PcFields DEF SwipingOut
    <3> QED BY <1>1, <1>5, <2>2, <3>1, PcFields DEF StepOK
  <2> QED BY <2>1, <2>2
<1>9. (\A q \in DbPages : PageOK(q))'
  <2> SUFFICES ASSUME NEW q \in DbPages PROVE PageOK(q)'
    OBVIOUS
  <2>1. PageOK(q)
    BY DEF IInv
  <2>2. CASE q # p
    BY <1>1, <1>2, <1>4, <1>5, <1>6, <2>1, <2>2 DEF PageOK, Used, OthersSame, pages
  <2>3. CASE q = p
    BY <1>1, <1>2, <1>4, <1>5, <1>6, <1>7, <2>1, <2>3 DEF PageOK, Used, pages
  <2> QED BY <2>2, <2>3
<1>10. ListOK'
  <2>1. /\ GoodQueue(DbPages, pages, mapped, list)
        /\ \A x : x \notin Forgotten(DbPages, pages, mapped, list)
    BY <1>3, <1>4 DEF SoundCall
  <2>2. \A q \in mapped : \A d \in DOMAIN pages[q] :
          Entry(DbPages, pages, mapped, <<q, d>>) => Listed(list, <<q, d>>)
    BY <2>1, NothingForgotten
  <2> QED BY <1>5, <2>1, <2>2 DEF ListOK, pages, list
<1> QED BY <1>1, <1>4, <1>8, <1>9, <1>10 DEF IInv, SoundCall, pages

(* The new page is initialised, and the request is served from it or the   *)
(* process aborts.                                                         *)
LEMMA AllocInitStep ==
  ASSUME IInv, UapiMemAllocInit
  PROVE  /\ IInv'
         /\ \/ LiveSame(DbPages, vm_page, vm_page')
            \/ \E p, b : LiveDiffer(DbPages, vm_page, p, b, vm_page')
<1> DEFINE p == pc.page
           size == pc.size
           pages == InitPages(vm_page, p)
           list == InitList(vm_page, free_block_list, p)
           maps == mapped \cup {p}
<1>1. proc = "open" /\ pc.step = "init" /\ allocated_pg_bitmap' = allocated_pg_bitmap
  BY DEF UapiMemAllocInit
<1>2. \/ /\ FirstFits(pages, list, size)
         /\ vm_page' = AllocPages(pages, list, size)
         /\ free_block_list' = AllocList(pages, list, size)
         /\ mapped' = maps /\ pc' = Idle /\ stale' = stale \ {p} /\ proc' = proc
      \/ /\ vm_page' = pages
         /\ proc' = "dead" /\ pc' = Idle /\ free_block_list' = <<>> /\ mapped' = {}
         /\ stale' = stale \cup mapped \cup {p}
  BY DEF UapiMemAllocInit, Die
<1>3. /\ ~SwipingIn /\ ~SwipingOut /\ ~SwipingIn' /\ ~SwipingOut'
      /\ InMemory = mapped /\ InMemory' = mapped'
  BY <1>1, <1>2, PcFields DEF SwipingIn, SwipingOut, InMemory
<1>4. /\ GoodPages(DbPages, vm_page)
      /\ GoodQueue(DbPages, vm_page, mapped, free_block_list)
      /\ \A x : x \notin Forgotten(DbPages, vm_page, mapped, free_block_list)
      /\ mapped \subseteq DbPages /\ stale \subseteq DbPages
      /\ allocated_pg_bitmap \subseteq DbPages
  BY <1>3, ListComplete DEF IInv
<1>5. /\ p \in DbPages /\ p \in Nat /\ p \notin mapped /\ p \in allocated_pg_bitmap
      /\ LiveBlocks(vm_page[p]) = {} /\ size \in Nat
  BY <1>1, <1>4, DbPage DEF IInv, StepOK
<1>6. /\ pages = InitPages(vm_page, p) /\ list = InitList(vm_page, free_block_list, p)
      /\ maps = MappedToo(mapped, p)
  BY DEF MappedToo
<1> HIDE DEF p, size, pages, list
<1>7. /\ SoundCall(DbPages, vm_page, mapped, free_block_list, pages, maps, list)
      /\ OthersSame(DbPages, p, vm_page, pages)
      /\ FirstBlock \in DOMAIN pages[p]
      /\ BasedAt(pages[p], p)
      /\ \A d : d \notin LiveBlocks(pages[p])
      /\ list # <<>>
  <2> HIDE DEF maps
  <2> QED BY <1>4, <1>5, <1>6, InitCall
<1>8. LiveSame(DbPages, vm_page, pages)
  BY <1>5, <1>7, InitKeepsLive
<1>9. GoodPages(DbPages, pages) /\ GoodQueue(DbPages, pages, maps, list)
  BY <1>7 DEF SoundCall
<1>10. \A x : x \notin Forgotten(DbPages, pages, maps, list)
  BY <1>4, <1>7 DEF SoundCall
<1>11. \A q \in DbPages :
         /\ q \in maps => /\ FirstBlock \in DOMAIN pages[q]
                          /\ BasedAt(pages[q], q)
                          /\ q \in allocated_pg_bitmap
         /\ LiveBlocks(pages[q]) # {} => q \in allocated_pg_bitmap
         /\ q \notin maps \cup stale => BasedAt(pages[q], Unbound)
  <2> SUFFICES ASSUME NEW q \in DbPages
               PROVE  /\ q \in maps => /\ FirstBlock \in DOMAIN pages[q]
                                       /\ BasedAt(pages[q], q)
                                       /\ q \in allocated_pg_bitmap
                      /\ LiveBlocks(pages[q]) # {} => q \in allocated_pg_bitmap
                      /\ q \notin maps \cup stale => BasedAt(pages[q], Unbound)
    OBVIOUS
  <2>1. PageOK(q)
    BY DEF IInv
  <2>2. CASE q # p
    <3>1. pages[q] = vm_page[q]
      BY <1>7, <2>2 DEF OthersSame
    <3> QED BY <1>3, <2>1, <2>2, <3>1 DEF PageOK, Used
  <2>3. CASE q = p
    BY <1>5, <1>7, <2>3
  <2> QED BY <2>2, <2>3
<1>12. CASE proc' = "dead"
  <2>1. /\ vm_page' = pages /\ pc' = Idle /\ free_block_list' = <<>> /\ mapped' = {}
        /\ stale' = stale \cup maps
    BY <1>1, <1>2, <1>12
  <2>2. StepOK'
    BY <1>3, <1>12, <2>1, PcFields DEF StepOK
  <2>3. (\A q \in DbPages : PageOK(q))'
    <3> SUFFICES ASSUME NEW q \in DbPages PROVE PageOK(q)'
      OBVIOUS
    <3> QED BY <1>1, <1>3, <1>11, <2>1 DEF PageOK
  <2>4. ListOK'
    BY <1>3, <2>1 DEF ListOK, GoodQueue, NoDuplicates, LargestFirst
  <2>5. stale' \subseteq DbPages
    BY <1>4, <1>5, <2>1
  <2> QED BY <1>1, <1>4, <1>8, <1>9, <2>1, <2>2, <2>3, <2>4, <2>5 DEF IInv
<1>13. CASE proc' # "dead"
  <2> DEFINE pages2 == vm_page'
             list2 == free_block_list'
             q0 == Head(list)[1]
             b0 == Head(list)[2]
  <2>1. /\ FirstFits(pages, list, size)
        /\ pages2 = AllocPages(pages, list, size)
        /\ list2 = AllocList(pages, list, size)
        /\ mapped' = maps /\ pc' = Idle /\ stale' = stale \ {p} /\ proc' = "open"
    BY <1>1, <1>2, <1>13
  <2>2. q0 = Head(list)[1] /\ b0 = Head(list)[2]
    OBVIOUS
  <2> HIDE DEF pages2, list2, q0, b0, maps
  <2>3. /\ SoundCall(DbPages, pages, maps, list, pages2, maps, list2)
        /\ OthersSame(DbPages, q0, pages, pages2)
        /\ q0 \in DbPages /\ q0 \in maps
        /\ LiveDiffer(DbPages, pages, q0, b0, pages2)
        /\ FirstBlock \in DOMAIN pages2[q0]
        /\ \A base : BasedAt(pages[q0], base) => BasedAt(pages2[q0], base)
    BY <1>5, <1>7, <1>9, <2>1, <2>2, AllocCall
  <2>4. StepOK'
    BY <1>3, <2>1, PcFields DEF StepOK
  <2>5. (\A q \in DbPages : PageOK(q))'
    <3> SUFFICES ASSUME NEW q \in DbPages PROVE PageOK(q)'
      OBVIOUS
    <3>1. CASE q # q0
      <4>1. pages2[q] = pages[q]
        BY <2>3, <3>1 DEF OthersSame
      <4>2. q \notin maps \cup stale' => q \notin maps \cup stale
        BY <1>6, <2>1 DEF MappedToo
      <4> QED BY <1>1, <1>3, <1>11, <2>1, <4>1, <4>2 DEF PageOK, Used, pages2
    <3>2. CASE q = q0
      BY <1>1, <1>3, <1>11, <2>1, <2>3, <3>2 DEF PageOK, Used, pages2
    <3> QED BY <3>1, <3>2
  <2>6. ListOK'
    <3>1. /\ GoodQueue(DbPages, pages2, maps, list2)
          /\ \A x : x \notin Forgotten(DbPages, pages2, maps, list2)
      BY <1>10, <2>3 DEF SoundCall
    <3>2. \A q \in maps : \A d \in DOMAIN pages2[q] :
            Entry(DbPages, pages2, maps, <<q, d>>) => Listed(list2, <<q, d>>)
      BY <3>1, NothingForgotten
    <3> QED BY <1>3, <2>1, <3>1, <3>2 DEF ListOK, pages2, list2
  <2>7. maps \subseteq DbPages /\ stale' \subseteq DbPages
    BY <1>4, <1>5, <2>1 DEF maps
  <2>8. LiveDiffer(DbPages, vm_page, q0, b0, pages2)
    BY <1>8, <2>3, LiveSameDiffer
  <2> QED BY <1>1, <1>4, <2>1, <2>3, <2>4, <2>5, <2>6, <2>7, <2>8 DEF IInv, SoundCall, pages2
<1> QED BY <1>12, <1>13

-----------------------------------------------------------------------------
(* An iteration of allocator_reinit: the block had no base_address, so it  *)
(* was not listed; afterwards only blocks behind it are still forgotten.   *)
LEMMA SwipeInIteration ==
  ASSUME IInv, SwipeInStep
  PROVE  /\ IInv'
         /\ LiveSame(DbPages, vm_page, vm_page')
<1> DEFINE p == pc.page
           b == pc.block_itr
           n == vm_page[p][b].next_block
           pages == vm_page'
           list == free_block_list'
           maps == mapped \cup {p}
<1>1. /\ proc = "open" /\ proc' = proc /\ pc.step = "swipe_in"
      /\ vm_page[p][b].base_address = Unbound
      /\ pages = WalkPages(vm_page, p, b, p)
      /\ list = ReinitList(vm_page, free_block_list, p, b)
      /\ \/ n = NoBlock /\ mapped' = maps /\ pc' = Idle
         \/ n # NoBlock /\ mapped' = mapped /\ pc' = WalkAt("swipe_in", p, n)
      /\ UNCHANGED <<allocated_pg_bitmap, stale>>
  BY DEF SwipeInStep, SwipingIn
<1>2. SwipingIn /\ ~SwipingOut /\ InMemory = maps
  BY <1>1 DEF SwipingIn, SwipingOut, InMemory
<1>3. ~SwipingOut' /\ InMemory' = maps
  BY <1>1, PcFields DEF SwipingIn, SwipingOut, InMemory
<1>4. /\ GoodPages(DbPages, vm_page) /\ ListOK
      /\ allocated_pg_bitmap \subseteq DbPages /\ mapped \subseteq DbPages
      /\ p \in allocated_pg_bitmap /\ p \notin mapped /\ p \in DbPages
      /\ b \in Nat /\ b \in DOMAIN vm_page[p]
  BY <1>1, <1>2 DEF IInv, StepOK
<1>5. p \in Nat /\ p # Unbound
  BY <1>4, DbPage
<1>6. PageOK(p)
  BY <1>4 DEF IInv
<1>7. n = vm_page[p][b].next_block /\ p \in maps
  OBVIOUS
<1>8. GoodQueue(DbPages, vm_page, maps, free_block_list)
  BY <1>2, <1>4 DEF ListOK
<1>9. \A q \in maps : \A d \in DOMAIN vm_page[q] :
        Entry(DbPages, vm_page, maps, <<q, d>>) =>
          (Listed(free_block_list, <<q, d>>) <=> ~(q = p /\ d >= b))
  BY <1>2, <1>4 DEF ListOK
<1>10. /\ Walked(vm_page[p], b, p)
       /\ p \notin stale => Unwalked(vm_page[p], b, Unbound)
  BY <1>2, <1>6 DEF PageOK
<1>11. \A q \in maps : q = p \/ q \in mapped
  OBVIOUS
<1>12. maps \subseteq DbPages
  BY <1>4
<1> HIDE DEF p, b, n, pages, list, maps
<1>13. ~Listed(free_block_list, <<p, b>>)
  BY <1>1, <1>5, <1>8, ListedEntry DEF Entry
<1>14. /\ SoundCall(DbPages, vm_page, maps, free_block_list, pages, maps, list)
       /\ <<p, b>> \notin Forgotten(DbPages, pages, maps, list)
       /\ \A x : Listed(list, x) => x = <<p, b>> \/ Listed(free_block_list, x)
  BY <1>1, <1>4, <1>5, <1>7, <1>8, <1>13, ReinitIteration
<1>15. Iterated(DbPages, vm_page, p, b, p, pages)
  BY <1>1, <1>4, <1>5, IterationFields
<1>16. /\ n = NoBlock => BasedAt(pages[p], p)
       /\ n # NoBlock => /\ n \in Nat /\ n \in DOMAIN pages[p] /\ b < n
                         /\ Walked(pages[p], n, p)
                         /\ p \notin stale => Unwalked(pages[p], n, Unbound)
  <2>1. WalkedOn(vm_page, pages, p, b, n, p)
    BY <1>4, <1>5, <1>7, <1>10, <1>15, WalkAdvances
  <2> QED BY <1>10, <2>1 DEF WalkedOn
<1>17. LiveSame(DbPages, vm_page, pages)
  BY <1>15, IterationKeepsLive
<1>18. n # NoBlock => SwipingIn' /\ pc'.page = p /\ pc'.block_itr = n
  BY <1>1, PcFields DEF SwipingIn
<1>19. n = NoBlock => ~SwipingIn'
  BY <1>1, PcFields DEF SwipingIn
<1>20. FirstBlock \in DOMAIN pages[p]
  <2>1. b \in DOMAIN pages[p] /\ GoodPages(DbPages, pages)
    BY <1>4, <1>15 DEF Iterated
  <2> QED BY <1>4, <2>1, UsedPage
<1>21. StepOK'
  <2>1. CASE n = NoBlock
    <3>1. pc' = Idle /\ proc' = "open"
      BY <1>1, <2>1
    <3> QED BY <1>3, <1>19, <2>1, <3>1, PcFields DEF StepOK
  <2>2. CASE n # NoBlock
    <3>1. /\ pc'.step = "swipe_in" /\ pc'.page = p /\ pc'.block_itr = n
          /\ proc' = "open" /\ mapped' = mapped /\ allocated_pg_bitmap' = allocated_pg_bitmap
      BY <1>1, <2>2, PcFields
    <3> QED BY <1>3, <1>4, <1>16, <2>2, <3>1 DEF StepOK, pages
  <2> QED BY <2>1, <2>2
<1>22. (\A q \in DbPages : PageOK(q))'
  <2> SUFFICES ASSUME NEW q \in DbPages PROVE PageOK(q)'
    OBVIOUS
  <2>1. PageOK(q) /\ allocated_pg_bitmap' = allocated_pg_bitmap /\ stale' = stale
    BY <1>1 DEF IInv
  <2>2. CASE q # p
    <3>1. pages[q] = vm_page[q]
      BY <1>15, <2>2 DEF Iterated, OthersSame
    <3>2. q \in mapped' <=> q \in mapped
      BY <1>1, <2>2 DEF maps
    <3>3. ~(SwipingIn' /\ q = pc'.page)
      BY <1>18, <1>19, <2>2
    <3> QED BY <1>2, <1>3, <2>1, <3>1, <3>2, <3>3 DEF PageOK, Used, pages
  <2>3. CASE q = p
    <3>1. q \in InMemory' /\ q \in allocated_pg_bitmap'
      BY <1>3, <1>4, <1>7, <2>1, <2>3
    <3>2. q \in mapped' => n = NoBlock
      BY <1>1, <1>4, <2>3
    <3> QED BY <1>3, <1>16, <1>18, <1>19, <1>20, <2>1, <2>3, <3>1, <3>2
         DEF PageOK, Used, pages
  <2> QED BY <2>2, <2>3
<1>23. ListOK'
  <2>1. GoodQueue(DbPages, pages, maps, list)
    BY <1>14 DEF SoundCall
  <2>2. ASSUME NEW q \in maps, NEW d \in DOMAIN pages[q],
               Entry(DbPages, pages, maps, <<q, d>>)
        PROVE  Listed(list, <<q, d>>) <=> ~(SwipingIn' /\ q = pc'.page /\ d >= pc'.block_itr)
    <3>1. q \in DbPages /\ d \in DOMAIN vm_page[q] /\ d \in Nat
      <4>1. q \in DbPages /\ GoodPages(DbPages, pages)
        BY <1>12, <1>15 DEF Iterated
      <4>2. d \in DOMAIN vm_page[q]
        BY <1>15, <4>1 DEF Iterated, OthersSame
      <4> QED BY <4>1, <4>2, UsedPage
    <3>2. ASSUME ~Listed(list, <<q, d>>)
          PROVE  SwipingIn' /\ q = pc'.page /\ d >= pc'.block_itr
      <4>1. <<q, d>> \in Forgotten(DbPages, pages, maps, list)
        BY <2>2, <3>2 DEF Forgotten, Entry
      <4>2. /\ Entry(DbPages, vm_page, maps, <<q, d>>)
            /\ ~Listed(free_block_list, <<q, d>>)
            /\ <<q, d>> # <<p, b>>
        BY <1>14, <4>1 DEF SoundCall, Forgotten
      <4>3. q = p /\ d >= b /\ d # b
        BY <1>9, <3>1, <4>2
      <4>4. GoodChain(vm_page[p])
        BY <1>4, UsedPage
      <4>5. CASE n = NoBlock
        <5>1. d <= b
          BY <1>4, <1>7, <3>1, <4>3, <4>4, <4>5, LastBlock
        <5> QED BY <1>4, <3>1, <4>3, <5>1
      <4>6. CASE n # NoBlock
        <5>1. d <= b \/ n <= d
          BY <1>4, <1>7, <3>1, <4>3, <4>4, <4>6, NextBlock
        <5> QED BY <1>4, <1>16, <1>18, <3>1, <4>3, <4>6, <5>1
      <4> QED BY <4>5, <4>6
    <3>3. ASSUME Listed(list, <<q, d>>), SwipingIn', q = pc'.page, d >= pc'.block_itr
          PROVE  FALSE
      <4>1. n # NoBlock /\ q = p /\ d >= n /\ b < n /\ n \in Nat
        BY <1>16, <1>18, <1>19, <3>3
      <4>2. Listed(free_block_list, <<q, d>>)
        <5>1. d # b
          BY <1>4, <3>1, <4>1
        <5> QED BY <1>14, <3>3, <5>1
      <4>3. Entry(DbPages, vm_page, maps, <<q, d>>)
        BY <1>8, <4>2, ListedEntry
      <4> QED BY <1>4, <1>9, <3>1, <4>1, <4>2, <4>3
    <3> QED BY <3>2, <3>3
  <2> QED BY <1>3, <2>1, <2>2 DEF ListOK, pages, list
<1>24. mapped' \subseteq DbPages
  BY <1>1, <1>4, <1>12
<1> QED BY <1>1, <1>14, <1>17, <1>21, <1>22, <1>23, <1>24 DEF IInv, SoundCall, pages

(* An iteration of allocator_deinit: the block leaves the list; after the  *)
(* last block the list names none of the page, and it leaves memory.       *)
LEMMA SwipeOutIteration ==
  ASSUME IInv, SwipeOutStep
  PROVE  /\ IInv'
         /\ LiveSame(DbPages, vm_page, vm_page')
<1> DEFINE p == pc.page
           b == pc.block_itr
           n == vm_page[p][b].next_block
           pages == vm_page'
           list == free_block_list'
           maps == mapped'
<1>1. /\ proc = "open" /\ proc' = proc /\ pc.step \in {"swipe_out", "destroy_page"}
      /\ pages = WalkPages(vm_page, p, b, Unbound)
      /\ list = DeinitList(vm_page, free_block_list, p, b)
      /\ maps = IF n = NoBlock THEN mapped \ {p} ELSE mapped
      /\ pc' = CASE n # NoBlock -> WalkAt(pc.step, p, n)
                 [] n = NoBlock /\ pc.step = "swipe_out" -> At("free_page", p, 0)
                 [] n = NoBlock /\ pc.step = "destroy_page" -> At("destroy", 0, 0)
      /\ UNCHANGED <<allocated_pg_bitmap, stale>>
  BY DEF SwipeOutStep, SwipingOut, Unmapped
<1>2. SwipingOut /\ ~SwipingIn
  BY <1>1 DEF SwipingIn, SwipingOut
<1>3. /\ n # NoBlock => /\ pc'.step = pc.step /\ pc'.page = p /\ pc'.block_itr = n
                        /\ maps = mapped
      /\ n = NoBlock /\ pc.step = "swipe_out" => pc'.step = "free_page" /\ pc'.page = p
      /\ n = NoBlock /\ pc.step = "destroy_page" => pc'.step = "destroy"
      /\ n = NoBlock => maps = mapped \ {p}
  <2>1. ASSUME n # NoBlock
        PROVE  pc'.step = pc.step /\ pc'.page = p /\ pc'.block_itr = n /\ maps = mapped
    <3>1. pc' = WalkAt(pc.step, p, n) /\ maps = mapped
      BY <1>1, <2>1
    <3> QED BY <3>1, PcFields
  <2>2. ASSUME n = NoBlock, pc.step = "swipe_out"
        PROVE  pc'.step = "free_page" /\ pc'.page = p
    <3>1. pc' = At("free_page", p, 0)
      BY <1>1, <2>2
    <3> QED BY <3>1, PcFields
  <2>3. ASSUME n = NoBlock, pc.step = "destroy_page"
        PROVE  pc'.step = "destroy"
    <3>1. pc' = At("destroy", 0, 0)
      BY <1>1, <2>3
    <3> QED BY <3>1, PcFields
  <2>4. n = NoBlock => maps = mapped \ {p}
    BY <1>1
  <2> QED BY <2>1, <2>2, <2>3, <2>4
<1>4. /\ GoodPages(DbPages, vm_page) /\ mapped \subseteq DbPages
      /\ p \in mapped /\ p \in DbPages /\ p # Unbound
      /\ b \in Nat /\ b \in DOMAIN vm_page[p]
      /\ pc.step = "swipe_out" => LiveBlocks(vm_page[p]) = {}
  BY <1>1, <1>2, DbPage DEF IInv, StepOK
<1>5. /\ InMemory = mapped
      /\ GoodQueue(DbPages, vm_page, mapped, free_block_list)
      /\ \A x : x \notin Forgotten(DbPages, vm_page, mapped, free_block_list)
  BY <1>2, ListComplete
<1>6. PageOK(p)
  BY <1>4 DEF IInv
<1>7. /\ Walked(vm_page[p], b, Unbound) /\ Unwalked(vm_page[p], b, p)
      /\ p \in allocated_pg_bitmap
  BY <1>2, <1>4, <1>6 DEF PageOK
<1>8. n = vm_page[p][b].next_block
  OBVIOUS
<1> HIDE DEF p, b, n, pages, list, maps
<1>9. \A x : Listed(free_block_list, x) => x = <<p, b>> \/ x[1] \in maps
  <2> SUFFICES ASSUME NEW x, Listed(free_block_list, x), x[1] \notin maps
               PROVE  x = <<p, b>>
    OBVIOUS
  <2>1. PICK q \in DbPages, y \in Nat :
          /\ x = <<q, y>>
          /\ q \in mapped /\ y \in DOMAIN vm_page[q]
          /\ vm_page[q][y].base_address = q
    BY <1>5, ListedEntry, EntryParts
  <2>2. q = p /\ n = NoBlock
    BY <1>3, <2>1
  <2>3. ~(y < b)
    BY <1>4, <1>7, <2>1, <2>2 DEF Walked
  <2>4. GoodChain(vm_page[p])
    BY <1>4, UsedPage
  <2>5. y <= b
    BY <1>4, <1>8, <2>1, <2>2, <2>4, LastBlock
  <2> QED BY <1>4, <2>1, <2>2, <2>3, <2>5
<1>10. SoundCall(DbPages, vm_page, mapped, free_block_list, pages, maps, list)
  <2>1. maps \subseteq mapped
    BY <1>3
  <2> QED BY <1>1, <1>4, <1>5, <1>9, <2>1, DeinitIteration
<1>11. Iterated(DbPages, vm_page, p, b, Unbound, pages)
  BY <1>1, <1>4, IterationFields DEF Unbound
<1>12. LiveSame(DbPages, vm_page, pages)
  BY <1>11, IterationKeepsLive
<1>13. /\ n = NoBlock => BasedAt(pages[p], Unbound)
       /\ n # NoBlock => /\ n \in Nat /\ n \in DOMAIN pages[p]
                         /\ Walked(pages[p], n, Unbound)
                         /\ Unwalked(pages[p], n, p)
  <2>1. WalkedOn(vm_page, pages, p, b, n, Unbound)
    <3>1. /\ GoodPages(DbPages, vm_page) /\ p \in DbPages /\ b \in DOMAIN vm_page[p]
          /\ Walked(vm_page[p], b, Unbound)
      BY <1>4, <1>7
    <3> QED BY <1>8, <1>11, <3>1, WalkAdvances
  <2> QED BY <1>7, <2>1 DEF WalkedOn
<1>14. /\ ~SwipingIn' /\ InMemory' = maps
       /\ SwipingOut' <=> n # NoBlock
  BY <1>1, <1>3 DEF SwipingIn, SwipingOut, InMemory, maps
<1>15. FirstBlock \in DOMAIN pages[p]
  <2>1. b \in DOMAIN pages[p] /\ GoodPages(DbPages, pages)
    BY <1>4, <1>11 DEF Iterated
  <2> QED BY <1>4, <2>1, UsedPage
<1>16. LiveBlocks(pages[p]) = LiveBlocks(vm_page[p])
  BY <1>4, <1>12 DEF LiveSame
<1>17. StepOK'
  <2>1. CASE n # NoBlock
    BY <1>1, <1>3, <1>4, <1>13, <1>14, <1>16, <2>1 DEF StepOK, pages, maps
  <2>2. CASE n = NoBlock
    BY <1>1, <1>3, <1>4, <1>14, <1>16, <2>2 DEF StepOK, pages, maps
  <2> QED BY <2>1, <2>2
<1>18. (\A q \in DbPages : PageOK(q))'
  <2> SUFFICES ASSUME NEW q \in DbPages PROVE PageOK(q)'
    OBVIOUS
  <2>1. PageOK(q) /\ allocated_pg_bitmap' = allocated_pg_bitmap /\ stale' = stale
    BY <1>1 DEF IInv
  <2>2. CASE q # p
    <3>1. pages[q] = vm_page[q]
      BY <1>11, <2>2 DEF Iterated, OthersSame
    <3>2. q \in maps <=> q \in mapped
      BY <1>3, <2>2
    <3>3. ~(SwipingOut' /\ q = pc'.page)
      BY <1>3, <1>14, <2>2
    <3>4. ~(SwipingOut /\ q = pc.page)
      BY <2>2 DEF p
    <3> QED BY <1>2, <1>5, <1>14, <2>1, <3>1, <3>2, <3>3, <3>4 DEF PageOK, Used, pages, maps
  <2>3. CASE q = p
    BY <1>3, <1>4, <1>7, <1>13, <1>14, <1>15, <2>1, <2>3 DEF PageOK, Used, pages, maps
  <2> QED BY <2>2, <2>3
<1>19. ListOK'
  <2>1. /\ GoodQueue(DbPages, pages, maps, list)
        /\ \A x : x \notin Forgotten(DbPages, pages, maps, list)
    BY <1>5, <1>10 DEF SoundCall
  <2>2. \A q \in maps : \A d \in DOMAIN pages[q] :
          Entry(DbPages, pages, maps, <<q, d>>) => Listed(list, <<q, d>>)
    BY <2>1, NothingForgotten
  <2> QED BY <1>14, <2>1, <2>2 DEF ListOK, pages, list, maps
<1>20. maps \subseteq DbPages
  BY <1>3, <1>4
<1> QED BY <1>1, <1>10, <1>12, <1>17, <1>18, <1>19, <1>20 DEF IInv, SoundCall, pages, maps

LEMMA StutterStep ==
  ASSUME IInv, UNCHANGED vars
  PROVE  IInv'
<1>1. /\ UNCHANGED <<vm_page, allocated_pg_bitmap, free_block_list, mapped, stale>>
      /\ proc' = proc /\ pc' = pc
  BY DEF vars
<1>2. (SwipingIn' <=> SwipingIn) /\ (SwipingOut' <=> SwipingOut)
  BY <1>1 DEF SwipingIn, SwipingOut
<1>3. InMemory' = InMemory
  BY <1>1, <1>2 DEF InMemory
<1>4. StepOK'
  BY <1>1, <1>2 DEF IInv, StepOK
<1>5. (\A p \in DbPages : PageOK(p))'
  <2> SUFFICES ASSUME NEW p \in DbPages PROVE PageOK(p)'
    OBVIOUS
  <2>1. PageOK(p)
    BY DEF IInv
  <2> QED BY <1>1, <1>2, <1>3, <2>1 DEF PageOK, Used
<1>6. ListOK'
  BY <1>1, <1>2, <1>3 DEF IInv, ListOK
<1> QED BY <1>1, <1>4, <1>5, <1>6 DEF IInv

-----------------------------------------------------------------------------
(* Every step keeps the invariant, and adds an object, removes one or      *)
(* leaves all objects as they are.                                         *)
ObjectsStep ==
  \/ LiveSame(DbPages, vm_page, vm_page')
  \/ \E p, b : LiveDiffer(DbPages, vm_page, p, b, vm_page')
  \/ \E p, b : LiveDiffer(DbPages, vm_page', p, b, vm_page)

LEMMA FileUntouched ==
  ASSUME vm_page' = vm_page
  PROVE  ObjectsStep
  BY DEF ObjectsStep, LiveSame

LEMMA NextStep ==
  ASSUME IInv, [Next]_vars
  PROVE  IInv' /\ ObjectsStep
<1>1. ASSUME NEW size \in ReqSizes, UapiMemAlloc(size) PROVE IInv' /\ ObjectsStep
  BY <1>1, MemAllocStep DEF ObjectsStep
<1>2. ASSUME NEW size \in ReqSizes, UapiMemAllocAborts(size) PROVE IInv' /\ ObjectsStep
  <2>1. Abort("request did not fit") /\ vm_page' = vm_page
    BY <1>2 DEF UapiMemAllocAborts, Abort, file
  <2> QED BY <2>1, AbortStep, FileUntouched
<1>3. ASSUME NEW size \in ReqSizes, UapiMemAllocNewPage(size) PROVE IInv' /\ ObjectsStep
  <2>1. vm_page' = vm_page
    BY <1>3 DEF UapiMemAllocNewPage
  <2> QED BY <1>3, <2>1, NewPageStep, FileUntouched
<1>4. CASE UapiMemAllocFileFull
  <2>1. Abort("file full") /\ vm_page' = vm_page
    BY <1>4 DEF UapiMemAllocFileFull, Abort, file
  <2> QED BY <2>1, AbortStep, FileUntouched
<1>5. CASE UapiMemAllocInit
  BY <1>5, AllocInitStep DEF ObjectsStep
<1>6. ASSUME NEW p \in DbPages, NEW b \in LiveBlocks(vm_page[p]), UapiMemFree(p, b)
      PROVE  IInv' /\ ObjectsStep
  BY <1>6, MemFreeStep DEF ObjectsStep
<1>7. ASSUME NEW p \in DbPages, NEW b \in LiveBlocks(vm_page[p]), UapiMemFreeUnmapped(p, b)
      PROVE  IInv' /\ ObjectsStep
  <2>1. vm_page' = vm_page
    BY <1>7 DEF UapiMemFreeUnmapped
  <2> QED BY <1>7, <2>1, FreeUnmappedStep, FileUntouched
<1>8. ASSUME NEW p \in DbPages, UapiGetVmAddr(p) PROVE IInv' /\ ObjectsStep
  <2>1. vm_page' = vm_page
    BY <1>8 DEF UapiGetVmAddr, file
  <2> QED BY <1>8, <2>1, GetVmAddrStep, FileUntouched
<1>9. ASSUME NEW p \in DbPages, NEW b \in LiveBlocks(vm_page[p]), UapiGetVmAddrSwipeIn(p)
      PROVE  IInv' /\ ObjectsStep
  <2>1. vm_page' = vm_page
    BY <1>9 DEF UapiGetVmAddrSwipeIn, file
  <2> QED BY <1>9, <2>1, SwipeInBegins, FileUntouched
<1>10. CASE SwipeInStep
  BY <1>10, SwipeInIteration DEF ObjectsStep
<1>11. CASE SwipeInAborts
  <2>1. Abort("base_address was set") /\ vm_page' = vm_page
    BY <1>11 DEF SwipeInAborts, Abort, file
  <2> QED BY <2>1, AbortStep, FileUntouched
<1>12. CASE SwipeOutStep
  BY <1>12, SwipeOutIteration DEF ObjectsStep
<1>13. CASE UapiMemFreePage
  <2>1. vm_page' = vm_page
    BY <1>13 DEF UapiMemFreePage
  <2> QED BY <1>13, <2>1, FreePageStep, FileUntouched
<1>14. CASE DbFileOpen
  <2>1. vm_page' = vm_page
    BY <1>14 DEF DbFileOpen, file
  <2> QED BY <1>14, <2>1, OpenStep, FileUntouched
<1>15. CASE DbFileClose
  <2>1. vm_page' = vm_page
    BY <1>15 DEF DbFileClose, file
  <2> QED BY <1>15, <2>1, CloseStep, FileUntouched
<1>16. ASSUME NEW p \in DbPages, MemMgrDestroyPage(p) PROVE IInv' /\ ObjectsStep
  <2>1. vm_page' = vm_page
    BY <1>16 DEF MemMgrDestroyPage, file
  <2> QED BY <1>16, <2>1, DestroyPageStep, FileUntouched
<1>17. CASE MemMgrDestroyEnds
  <2>1. vm_page' = vm_page
    BY <1>17 DEF MemMgrDestroyEnds, file
  <2> QED BY <1>17, <2>1, DestroyEndsStep, FileUntouched
<1>18. CASE Kill
  <2>1. Abort("killed") /\ vm_page' = vm_page
    BY <1>18 DEF Kill, Abort, file
  <2> QED BY <2>1, AbortStep, FileUntouched
<1>19. CASE UNCHANGED vars
  <2>1. vm_page' = vm_page
    BY <1>19 DEF vars
  <2> QED BY <1>19, <2>1, StutterStep, FileUntouched
<1> QED BY <1>1, <1>2, <1>3, <1>4, <1>5, <1>6, <1>7, <1>8, <1>9, <1>10, <1>11, <1>12,
           <1>13, <1>14, <1>15, <1>16, <1>17, <1>18, <1>19 DEF Next

(* The invariant holds in every reachable state. *)
THEOREM Inductive == Spec => []IInv
<1>1. Init => IInv
  BY InitIInv
<1>2. IInv /\ [Next]_vars => IInv'
  BY NextStep
<1> QED BY <1>1, <1>2, PTL DEF Spec

(* db_file_alloc_db_page never hands out a page that is in memory or holds *)
(* an object, wherever a process was killed before: uapi_mem_free clears   *)
(* the bit of a page only after it has left memory empty.                  *)
THEOREM PagesStayAllocated == Spec => []PagesInUseAllocated
<1>1. IInv => PagesInUseAllocated
  BY DEF IInv, PageOK, PagesInUseAllocated
<1> QED BY <1>1, Inductive, PTL

(* The address each block in memory has, by how far a walk has come. *)
LEMMA QueuedBase ==
  ASSUME IInv, NEW p \in InMemory, NEW b \in FreeBlocks(vm_page[p])
  PROVE  /\ b \in ToQueue(p) => vm_page[p][b].base_address = p
         /\ SwipingOut /\ p = pc.page /\ vm_page[p][b].base_address = p
              => b >= pc.block_itr
<1>1. p \in DbPages /\ b \in DOMAIN vm_page[p]
  BY DEF IInv, StepOK, InMemory, SwipingIn, FreeBlocks
<1>2. PageOK(p) /\ b \in Nat /\ p # Unbound
  BY <1>1, UsedPage, DbPage DEF IInv
<1>3. CASE SwipingIn /\ p = pc.page
  <2>1. ~SwipingOut
    BY <1>3 DEF SwipingIn, SwipingOut
  <2> QED BY <1>1, <1>2, <1>3, <2>1 DEF PageOK, Walked, ToQueue
<1>4. CASE SwipingOut /\ p = pc.page
  <2>1. pc.block_itr \in Nat
    BY <1>4 DEF IInv, StepOK
  <2> QED BY <1>1, <1>2, <1>4, <2>1 DEF PageOK, Walked, Unwalked, ToQueue
<1>5. CASE ~(SwipingIn /\ p = pc.page) /\ ~(SwipingOut /\ p = pc.page)
  <2>1. p \in mapped
    BY <1>5 DEF InMemory
  <2> QED BY <1>1, <1>2, <1>5, <2>1 DEF PageOK, BasedAt
<1> QED BY <1>3, <1>4, <1>5

(* The list is all the free memory: no free block of a page in memory is   *)
(* lost to the allocations, none is in the list twice, and none stays in   *)
(* it when its page leaves memory, also while allocator_reinit and         *)
(* allocator_deinit are walking over a page.                               *)
THEOREM QueueStaysComplete == Spec => []QueueIsFreeMemory
<1>1. IInv => QueueIsFreeMemory
  <2> SUFFICES ASSUME IInv PROVE QueueIsFreeMemory
    OBVIOUS
  <2>1. TypeOK
    <3>1. \A p \in DbPages : TypedChain(vm_page[p])
      <4>1. TypedChain(NoChain)
        BY DEF TypedChain, NoChain
      <4> QED BY <4>1 DEF IInv, GoodPages, GoodChain
    <3>2. /\ DOMAIN vm_page = DbPages
          /\ free_block_list \in Seq(DbPages \X Nat)
          /\ proc \in {"closed", "open", "dead", "wild"}
      BY DEF IInv, GoodPages, ListOK, GoodQueue, StepOK
    <3> QED BY <3>1, <3>2 DEF IInv, TypeOK
  <2>2. /\ NoDuplicates(free_block_list)
        /\ GoodQueue(DbPages, vm_page, InMemory, free_block_list)
        /\ GoodPages(DbPages, vm_page)
    BY DEF IInv, ListOK, GoodQueue
  <2>3. ASSUME NEW x, Listed(free_block_list, x)
        PROVE  \E p \in InMemory : \E b \in ToQueue(p) : x = <<p, b>>
    <3>1. PICK p \in DbPages, b \in Nat :
            /\ x = <<p, b>>
            /\ p \in InMemory /\ b \in DOMAIN vm_page[p]
            /\ vm_page[p][b].is_free /\ vm_page[p][b].base_address = p
      BY <2>2, <2>3, ListedEntry, EntryParts
    <3>2. b \in FreeBlocks(vm_page[p])
      BY <3>1 DEF FreeBlocks
    <3>3. SwipingIn /\ p = pc.page => b < pc.block_itr
      <4>1. Entry(DbPages, vm_page, InMemory, <<p, b>>)
        BY <3>1, EntryParts
      <4>2. ~(SwipingIn /\ p = pc.page /\ b >= pc.block_itr)
        BY <2>3, <3>1, <4>1 DEF IInv, ListOK
      <4>3. SwipingIn => pc.block_itr \in Nat
        BY DEF IInv, StepOK
      <4> QED BY <3>1, <4>2, <4>3
    <3>4. b \in ToQueue(p)
      BY <3>1, <3>2, <3>3, QueuedBase DEF ToQueue
    <3> QED BY <3>1, <3>4
  <2>4. ASSUME NEW p \in InMemory, NEW b \in ToQueue(p)
        PROVE  Listed(free_block_list, <<p, b>>)
    <3>1. p \in DbPages /\ b \in FreeBlocks(vm_page[p]) /\ b \in DOMAIN vm_page[p]
      BY DEF IInv, StepOK, InMemory, SwipingIn, ToQueue, FreeBlocks
    <3>2. b \in Nat /\ vm_page[p][b].is_free
      BY <2>2, <3>1, UsedPage DEF FreeBlocks
    <3>3. Entry(DbPages, vm_page, InMemory, <<p, b>>)
      BY <3>1, <3>2, QueuedBase DEF Entry
    <3>4. SwipingIn => pc.block_itr \in Nat
      BY DEF IInv, StepOK
    <3>5. ~(SwipingIn /\ p = pc.page /\ b >= pc.block_itr)
      BY <3>2, <3>4 DEF ToQueue
    <3> QED BY <3>1, <3>3, <3>5 DEF IInv, ListOK
  <2>5. \A x : x \in {free_block_list[i] : i \in DOMAIN free_block_list}
                 <=> Listed(free_block_list, x)
    BY DEF Listed
  <2>6. \A x : x \in UNION {{<<p, b>> : b \in ToQueue(p)} : p \in InMemory}
                 <=> \E p \in InMemory : \E b \in ToQueue(p) : x = <<p, b>>
    OBVIOUS
  <2>7. {free_block_list[i] : i \in DOMAIN free_block_list} =
          UNION {{<<p, b>> : b \in ToQueue(p)} : p \in InMemory}
    BY <2>3, <2>4, <2>5, <2>6
  <2> QED BY <2>1, <2>2, <2>7 DEF QueueIsFreeMemory
<1> QED BY <1>1, Inductive, PTL

(* The assert of allocator_deinit never fails, and that of                 *)
(* allocator_reinit only for a page that was in memory when a process      *)
(* died.                                                                   *)
THEOREM CleanPagesReturn == Spec => []CleanPagesCanReturn
<1>1. IInv => CleanPagesCanReturn
  <2> SUFFICES ASSUME IInv PROVE CleanPagesCanReturn
    OBVIOUS
  <2>1. SwipingOut => vm_page[pc.page][pc.block_itr].base_address = pc.page
    <3> SUFFICES ASSUME SwipingOut
                 PROVE  vm_page[pc.page][pc.block_itr].base_address = pc.page
      OBVIOUS
    <3>1. /\ pc.page \in DbPages /\ pc.block_itr \in Nat
          /\ pc.block_itr \in DOMAIN vm_page[pc.page]
      BY DEF IInv, StepOK, SwipingOut
    <3> QED BY <3>1 DEF IInv, PageOK, Unwalked
  <2>2. \A p \in DbPages \ (InMemory \cup stale) : BasedAt(vm_page[p], Unbound)
    BY DEF IInv, PageOK
  <2> QED BY <2>1, <2>2 DEF CleanPagesCanReturn
<1> QED BY <1>1, Inductive, PTL

-----------------------------------------------------------------------------
LEMMA ObjectsNamed ==
  /\ Objects = ObjectsIn(DbPages, vm_page)
  /\ Objects' = ObjectsIn(DbPages, vm_page')
  BY DEF Objects, ObjectsIn, ObjectAt

LEMMA ObjectsStepIsStoreStep ==
  ASSUME IInv, IInv', ObjectsStep
  PROVE  Store!StoreNext \/ Objects' = Objects
<1>1. CASE LiveSame(DbPages, vm_page, vm_page')
  BY <1>1, ObjectsKept, ObjectsNamed
<1>2. ASSUME NEW p, NEW b, LiveDiffer(DbPages, vm_page, p, b, vm_page')
      PROVE  Store!StoreNext
  <2> DEFINE o == ObjectAt(vm_page', p, b)
  <2>1. GoodPages(DbPages, vm_page') /\ o = ObjectAt(vm_page', p, b)
    BY DEF IInv
  <2> HIDE DEF o
  <2>2. /\ o \notin Objects /\ o \in Objects' /\ Objects' = Objects \cup {o}
    BY <1>2, <2>1, ObjectsDiffer, ObjectsNamed
  <2>3. /\ o \in [page : DbPages, addr : 0..DB_PAGE_DEF_SIZE, len : 0..DB_PAGE_DEF_SIZE]
        /\ PageHdrSize + MetaSize <= o.addr
        /\ o.addr + o.len <= DB_PAGE_DEF_SIZE
    BY <2>1, <2>2, ObjectsFit, ObjectsNamed
  <2>4. \A x \in Objects : Store!Disjoint(o, x)
    BY <2>1, <2>2, ObjectsApart, ObjectsNamed DEF Store!Disjoint
  <2>5. Store!StoreAlloc(o) /\ o \in Store!Object
    BY <2>2, <2>3, <2>4 DEF Store!StoreAlloc, Store!WithinPage, Store!Object
  <2> QED BY <2>5 DEF Store!StoreNext
<1>3. ASSUME NEW p, NEW b, LiveDiffer(DbPages, vm_page', p, b, vm_page)
      PROVE  Store!StoreNext
  <2> DEFINE o == ObjectAt(vm_page, p, b)
  <2>1. GoodPages(DbPages, vm_page) /\ o = ObjectAt(vm_page, p, b)
    BY DEF IInv
  <2> HIDE DEF o
  <2>2. /\ o \in Objects /\ Objects' = Objects \ {o}
    BY <1>3, <2>1, ObjectsDiffer, ObjectsNamed
  <2> QED BY <2>2 DEF Store!StoreFree, Store!StoreNext
<1> QED BY <1>1, <1>2, <1>3 DEF ObjectsStep

(* The file keeps its objects: whatever pages come and go, and wherever    *)
(* the process is killed or aborts, also in the middle of a walk over a    *)
(* page, an object keeps its place and its size until it is freed, and no  *)
(* later object gets its bytes.                                            *)
THEOREM FileIsStore == Spec => FileKeepsObjects
<1>1. Init => Store!StoreInit
  <2> SUFFICES ASSUME Init PROVE Objects = {}
    BY DEF Store!StoreInit
  <2>1. \A p \in DbPages : LiveBlocks(vm_page[p]) = {}
    BY DEF Init, NoChain, LiveBlocks
  <2> QED BY <2>1 DEF Objects
<1>2. IInv /\ IInv' /\ [Next]_vars => [Store!StoreNext]_Objects
  BY NextStep, ObjectsStepIsStoreStep
<1> QED BY <1>1, <1>2, Inductive, PTL DEF Spec, FileKeepsObjects, Store!StoreSpec

-----------------------------------------------------------------------------

(* The hash table. *)

OrNull == Key \cup {NULL}

Iterators == [on : BOOLEAN, e : OrNull, parent : OrNull, index : Nat, link : OrNull]

(* A table of n slots that holds the keys of S, each in its own chain. *)
GoodTable(t, n, S) ==
  /\ n \in Nat /\ n # 0 /\ S \subseteq Key
  /\ t \in [0 .. n - 1 -> Seq(Key)]
  /\ \A i \in 0 .. n - 1 :
       /\ IsInjective(t[i])
       /\ \A k \in Key : k \in ToSet(t[i]) <=> (k \in S /\ IndexFor(n, k) = i)

(* What lies before an iterator at the entry e of slot i. *)
BehindIn(t, e, i) ==
  (IF e = NULL THEN {} ELSE ToSet(After(t[i], e)))
    \cup UNION {ToSet(t[j]) : j \in {l \in DOMAIN t : l > i}}

(* An iterator that is not at a freed entry, and what it has yet to meet. *)
GoodWalk(t, n, S, w, d) ==
  /\ w \in Iterators /\ w.on
  /\ w.e = NULL => d = {}
  /\ w.e # NULL =>
       /\ w.e \in S /\ w.index = IndexFor(n, w.e)
       /\ d = BehindIn(t, w.e, w.index)
       /\ w.parent = NULL \/ w.parent \in S => w.parent = PreviousIn(t[w.index], w.e)

(* An iterator whose entry has been freed: its link says where to go on. *)
GoodRest(t, n, S, w, d) ==
  /\ w \in Iterators /\ w.on
  /\ w.e # NULL /\ w.e \notin S
  /\ w.index \in 0 .. n - 1
  /\ w.link # NULL => w.link \in S /\ IndexFor(n, w.link) = w.index
  /\ d = BehindIn(t, w.link, w.index) \cup ({w.link} \ {NULL})

Slots == Primes[primeindex]

(* The values of the entries, and their count. *)
GoodContents(v, count) ==
  /\ DOMAIN v \subseteq Key /\ IsFiniteSet(DOMAIN v)
  /\ v = [k \in DOMAIN v |-> v[k]]
  /\ \A k \in DOMAIN v : v[k] \in Value
  /\ count = Cardinality(DOMAIN v)

GoodIterator(t, n, S, w, d) ==
  /\ w \in Iterators
  /\ w.e # NULL => w.on
  /\ w.on => GoodWalk(t, n, S, w, d) \/ GoodRest(t, n, S, w, d)

HashIInv ==
  /\ primeindex \in DOMAIN Primes
  /\ outcome \in {"inserted", "done", "undefined"}
  /\ GoodContents(value, entrycount)
  /\ IF Exists THEN GoodTable(table, Slots, DOMAIN value)
     ELSE (\A k : k \notin DOMAIN value) /\ ~itr.on
  /\ GoodIterator(table, Slots, DOMAIN value, itr, due)

-----------------------------------------------------------------------------
(* Chains. *)

Chains == {c \in Seq(Key) : IsInjective(c)}

LEMMA ChainFacts ==
  ASSUME NEW c \in Chains
  PROVE  /\ c \in Seq(Key) /\ Len(c) \in Nat /\ DOMAIN c = 1 .. Len(c)
         /\ \A p \in 1 .. Len(c) : c[p] \in Key
         /\ \A p, q \in 1 .. Len(c) : c[p] = c[q] => p = q
         /\ \A k : k \in ToSet(c) <=> \E p \in 1 .. Len(c) : c[p] = k
  BY DEF Chains, IsInjective, ToSet

(* An entry has one position. *)
LEMMA PositionIs ==
  ASSUME NEW c \in Chains, NEW p \in 1 .. Len(c)
  PROVE  Position(c, c[p]) = p
  BY ChainFacts DEF Position

LEMMA PositionExists ==
  ASSUME NEW c \in Chains, NEW k \in ToSet(c)
  PROVE  Position(c, k) \in 1 .. Len(c) /\ c[Position(c, k)] = k
<1>1. PICK p \in 1 .. Len(c) : c[p] = k
  BY ChainFacts
<1> QED BY <1>1, PositionIs

(* What lies behind an entry. *)
LEMMA AfterIs ==
  ASSUME NEW c \in Chains, NEW p \in 1 .. Len(c), NEW a, a = After(c, c[p])
  PROVE  /\ a \in Chains
         /\ Len(a) = Len(c) - p
         /\ \A q \in 1 .. Len(c) - p : a[q] = c[p + q]
         /\ \A k : k \in ToSet(a) <=> \E q \in p + 1 .. Len(c) : c[q] = k
<1>1. a = SubSeq(c, p + 1, Len(c)) /\ Len(c) \in Nat
  BY PositionIs, ChainFacts DEF After
<1>2. \A q \in p + 1 .. Len(c) : c[q] \in Key
  BY ChainFacts
<1>3. /\ a \in Seq(Key)
      /\ Len(a) = Len(c) - p
      /\ \A q \in 1 .. Len(c) - p : a[q] = c[p + q]
  <2>1. /\ a \in Seq(Key)
        /\ Len(a) = IF p + 1 <= Len(c) THEN Len(c) - (p + 1) + 1 ELSE 0
        /\ \A q \in 1 .. Len(c) - (p + 1) + 1 : a[q] = c[p + 1 + q - 1]
    BY <1>1, <1>2, SubSeqProperties
  <2> QED BY <1>1, <2>1
<1>4. DOMAIN a = 1 .. Len(c) - p
  BY <1>3
<1>5. IsInjective(a)
  BY <1>1, <1>3, <1>4, ChainFacts, SMTT(40) DEF IsInjective
<1>6. ASSUME NEW k
      PROVE  k \in ToSet(a) <=> \E q \in p + 1 .. Len(c) : c[q] = k
  <2>1. k \in ToSet(a) <=> \E q \in 1 .. Len(c) - p : a[q] = k
    BY <1>4 DEF ToSet
  <2>2. ASSUME NEW q \in 1 .. Len(c) - p, a[q] = k
        PROVE  \E r \in p + 1 .. Len(c) : c[r] = k
    <3>1. p + q \in p + 1 .. Len(c) /\ c[p + q] = k
      BY <1>1, <1>3, <2>2
    <3> QED BY <3>1
  <2>3. ASSUME NEW r \in p + 1 .. Len(c), c[r] = k
        PROVE  \E q \in 1 .. Len(c) - p : a[q] = k
    <3>1. r - p \in 1 .. Len(c) - p /\ p + (r - p) = r
      BY <1>1
    <3>2. a[r - p] = k
      BY <1>3, <2>3, <3>1
    <3> QED BY <3>1, <3>2
  <2> QED BY <2>1, <2>2, <2>3
<1> QED BY <1>3, <1>5, <1>6 DEF Chains

LEMMA AfterAt ==
  ASSUME NEW c \in Chains, NEW p \in 1 .. Len(c), NEW k, k = c[p]
  PROVE  \A j : j \in ToSet(After(c, k)) <=> \E q \in p + 1 .. Len(c) : c[q] = j
<1> DEFINE a == After(c, c[p])
<1>1. \A j : j \in ToSet(a) <=> \E q \in p + 1 .. Len(c) : c[q] = j
  <2> HIDE DEF a
  <2> QED BY AfterIs DEF a
<1> QED BY <1>1

(* The links from an entry and to it. *)
LEMMA NextIs ==
  ASSUME NEW c \in Chains, NEW p \in 1 .. Len(c)
  PROVE  NextIn(c, c[p]) = IF p = Len(c) THEN NULL ELSE c[p + 1]
<1> DEFINE a == After(c, c[p])
<1>1. /\ a \in Chains /\ Len(a) = Len(c) - p /\ Len(c) \in Nat
      /\ \A q \in 1 .. Len(c) - p : a[q] = c[p + q]
  BY AfterIs, ChainFacts
<1>2. NextIn(c, c[p]) = IF a = << >> THEN NULL ELSE Head(a)
  BY DEF NextIn
<1> HIDE DEF a
<1>3. CASE p = Len(c)
  BY <1>1, <1>2, <1>3 DEF Chains
<1>4. CASE p # Len(c)
  <2>1. a \in Seq(Key) /\ a # << >> /\ 1 \in 1 .. Len(c) - p
    BY <1>1, <1>4 DEF Chains
  <2>2. Head(a) = a[1]
    BY <2>1
  <2> QED BY <1>1, <1>2, <1>4, <2>1, <2>2
<1> QED BY <1>3, <1>4

LEMMA PreviousIs ==
  ASSUME NEW c \in Chains, NEW p \in 1 .. Len(c)
  PROVE  PreviousIn(c, c[p]) = IF p = 1 THEN NULL ELSE c[p - 1]
  BY PositionIs DEF PreviousIn

(* What lies behind an entry is the next one and what lies behind that. *)
LEMMA AfterSplits ==
  ASSUME NEW c \in Chains, NEW k \in ToSet(c), NEW n, n = NextIn(c, k)
  PROVE  /\ n = NULL => \A j : j \notin ToSet(After(c, k))
         /\ n # NULL => /\ n \in ToSet(c) /\ n # k
                        /\ PreviousIn(c, n) = k
                        /\ n \notin ToSet(After(c, n))
                        /\ \A j : j \in ToSet(After(c, k)) <=> (j = n \/ j \in ToSet(After(c, n)))
<1>1. PICK p \in 1 .. Len(c) : c[p] = k
  BY ChainFacts
<1>2. /\ Len(c) \in Nat
      /\ \A j : j \in ToSet(After(c, k)) <=> \E q \in p + 1 .. Len(c) : c[q] = j
      /\ n = IF p = Len(c) THEN NULL ELSE c[p + 1]
  <2>1. \A j : j \in ToSet(After(c, k)) <=> \E q \in p + 1 .. Len(c) : c[q] = j
    BY <1>1, AfterAt
  <2> QED BY <1>1, <2>1, ChainFacts, NextIs
<1>3. CASE p = Len(c)
  BY <1>2, <1>3
<1>4. CASE p # Len(c)
  <2>1. p + 1 \in 1 .. Len(c) /\ n = c[p + 1] /\ n \in Key /\ n # NULL
    BY <1>2, <1>4, ChainFacts, HashAssumption
  <2>2. \A j : j \in ToSet(After(c, n)) <=> \E q \in p + 1 + 1 .. Len(c) : c[q] = j
    BY <2>1, AfterAt
  <2>3. PreviousIn(c, n) = k
    BY <1>1, <2>1, PreviousIs
  <2>4. n \in ToSet(c) /\ n # k
    BY <1>1, <2>1, ChainFacts
  <2>5. n \notin ToSet(After(c, n))
    BY <1>2, <2>1, <2>2, ChainFacts
  <2>6. ASSUME NEW j
        PROVE  j \in ToSet(After(c, k)) <=> (j = n \/ j \in ToSet(After(c, n)))
    BY <1>2, <2>1, <2>2
  <2> QED BY <2>1, <2>3, <2>4, <2>5, <2>6
<1> QED BY <1>3, <1>4

LEMMA HeadSplits ==
  ASSUME NEW c \in Chains, c # << >>, NEW h, h = Head(c)
  PROVE  /\ h \in ToSet(c) /\ PreviousIn(c, h) = NULL
         /\ h \notin ToSet(After(c, h))
         /\ \A j : j \in ToSet(c) <=> (j = h \/ j \in ToSet(After(c, h)))
<1>1. PICK p \in 1 .. Len(c) : p = 1 /\ h = c[p] /\ Len(c) \in Nat
  BY ChainFacts
<1>2. PreviousIn(c, h) = NULL
  BY <1>1, PreviousIs
<1>3. \A j : j \in ToSet(After(c, h)) <=> \E q \in p + 1 .. Len(c) : c[q] = j
  BY <1>1, AfterAt, ZenonT(60)
<1>4. h \in ToSet(c) /\ h \notin ToSet(After(c, h))
  BY <1>1, <1>3, ChainFacts
<1>5. ASSUME NEW j
      PROVE  j \in ToSet(c) <=> (j = h \/ j \in ToSet(After(c, h)))
  <2>1. j \in ToSet(c) <=> \E q \in 1 .. Len(c) : c[q] = j
    BY ChainFacts
  <2>2. \A q \in 1 .. Len(c) : q = 1 \/ q \in p + 1 .. Len(c)
    BY <1>1
  <2> QED BY <1>1, <1>3, <2>1, <2>2
<1> QED BY <1>2, <1>4, <1>5

(* A chain without one of its entries: the others keep their order. *)
LEMMA WithoutIs ==
  ASSUME NEW c \in Chains, NEW k \in ToSet(c), NEW d, d = RemoveAt(c, Position(c, k))
  PROVE  /\ d \in Chains
         /\ \A j : j \in ToSet(d) <=> (j \in ToSet(c) /\ j # k)
         /\ \A j \in ToSet(d) :
              /\ \A l : l \in ToSet(After(d, j)) <=> (l \in ToSet(After(c, j)) /\ l # k)
              /\ PreviousIn(d, j) = IF PreviousIn(c, j) = k THEN PreviousIn(c, k)
                                    ELSE PreviousIn(c, j)
<1>1. PICK p \in 1 .. Len(c) : p = Position(c, k) /\ c[p] = k /\ Len(c) \in Nat
  BY PositionExists, ChainFacts
<1>2. /\ d \in Seq(Key) /\ Len(d) = Len(c) - 1
      /\ \A q \in 1 .. Len(c) - 1 : d[q] = IF q < p THEN c[q] ELSE c[q + 1]
  <2>1. d = RemoveAt(c, p) /\ c \in Seq(Key)
    BY <1>1, ChainFacts
  <2>2. d \in Seq(Key) /\ OmitsAt(d, c, p)
    BY <2>1, RemoveAtElements
  <2> QED BY <2>2 DEF OmitsAt
<1>3. DOMAIN d = 1 .. Len(c) - 1
  BY <1>2
<1>4. IsInjective(d)
  <2>1. ASSUME NEW a \in 1 .. Len(c) - 1, NEW b \in 1 .. Len(c) - 1, d[a] = d[b]
        PROVE  a = b
    <3> DEFINE x == IF a < p THEN a ELSE a + 1
               y == IF b < p THEN b ELSE b + 1
    <3>1. x \in 1 .. Len(c) /\ y \in 1 .. Len(c) /\ (x = y => a = b)
      BY <1>1
    <3>2. d[a] = c[x] /\ d[b] = c[y]
      <4>1. d[a] = IF a < p THEN c[a] ELSE c[a + 1]
        BY <1>2
      <4>2. d[b] = IF b < p THEN c[b] ELSE c[b + 1]
        BY <1>2
      <4> QED BY <4>1, <4>2
    <3> HIDE DEF x, y
    <3>3. c[x] = c[y]
      BY <2>1, <3>2
    <3> QED BY <3>1, <3>3, ChainFacts
  <2> QED BY <1>3, <2>1 DEF IsInjective
<1>5. d \in Chains
  BY <1>2, <1>4 DEF Chains
<1>6. ASSUME NEW j
      PROVE  j \in ToSet(d) <=> (j \in ToSet(c) /\ j # k)
  <2>1. ASSUME NEW q \in 1 .. Len(c) - 1, d[q] = j
        PROVE  j \in ToSet(c) /\ j # k
    <3>1. CASE q < p
      BY <1>1, <1>2, <2>1, <3>1, ChainFacts
    <3>2. CASE ~(q < p)
      <4>1. q + 1 \in 1 .. Len(c) /\ q + 1 # p /\ j = c[q + 1]
        BY <1>1, <1>2, <2>1, <3>2
      <4> QED BY <1>1, <4>1, ChainFacts
    <3> QED BY <3>1, <3>2
  <2>2. ASSUME NEW r \in 1 .. Len(c), c[r] = j, j # k
        PROVE  \E q \in 1 .. Len(c) - 1 : d[q] = j
    <3>1. CASE r < p
      <4>1. r \in 1 .. Len(c) - 1 /\ d[r] = j
        BY <1>1, <1>2, <2>2, <3>1
      <4> QED BY <4>1
    <3>2. CASE r > p
      <4>1. r - 1 \in 1 .. Len(c) - 1 /\ ~(r - 1 < p) /\ r - 1 + 1 = r
        BY <1>1, <3>2
      <4>2. d[r - 1] = j
        BY <1>2, <2>2, <4>1
      <4> QED BY <4>1, <4>2
    <3>3. r # p
      BY <1>1, <2>2
    <3> QED BY <1>1, <3>1, <3>2, <3>3
  <2>3. j \in ToSet(d) <=> \E q \in 1 .. Len(c) - 1 : d[q] = j
    BY <1>3 DEF ToSet
  <2>4. j \in ToSet(c) <=> \E q \in 1 .. Len(c) : c[q] = j
    BY ChainFacts
  <2> QED BY <2>1, <2>2, <2>3, <2>4
<1>7. ASSUME NEW j \in ToSet(d)
      PROVE  /\ \A l : l \in ToSet(After(d, j)) <=> (l \in ToSet(After(c, j)) /\ l # k)
             /\ PreviousIn(d, j) = IF PreviousIn(c, j) = k THEN PreviousIn(c, k)
                                   ELSE PreviousIn(c, j)
  <2>1. PICK q \in 1 .. Len(d) : d[q] = j
    BY <1>5, ChainFacts
  <2> DEFINE r == IF q < p THEN q ELSE q + 1
  <2>2. /\ q \in 1 .. Len(c) - 1
        /\ r \in 1 .. Len(c) /\ r # p /\ c[r] = j
        /\ q < p => r = q
        /\ q >= p => r = q + 1
    BY <1>1, <1>2, <2>1
  <2> HIDE DEF r
  <2>3. /\ \A l : l \in ToSet(After(d, j)) <=> \E x \in q + 1 .. Len(c) - 1 : d[x] = l
        /\ \A l : l \in ToSet(After(c, j)) <=> \E x \in r + 1 .. Len(c) : c[x] = l
    <3>1. /\ Len(d) = Len(c) - 1 /\ j = d[q] /\ j = c[r]
      BY <1>2, <2>1, <2>2
    <3>2. \A l : l \in ToSet(After(d, j)) <=> \E x \in q + 1 .. Len(d) : d[x] = l
      BY <1>5, <3>1, AfterAt, ZenonT(60)
    <3>3. \A l : l \in ToSet(After(c, j)) <=> \E x \in r + 1 .. Len(c) : c[x] = l
      BY <2>2, <3>1, AfterAt
    <3> QED BY <3>1, <3>2, <3>3
  <2>4. ASSUME NEW l
        PROVE  l \in ToSet(After(d, j)) <=> (l \in ToSet(After(c, j)) /\ l # k)
    <3>1. ASSUME NEW x \in q + 1 .. Len(c) - 1, d[x] = l
          PROVE  (\E y \in r + 1 .. Len(c) : c[y] = l) /\ l # k
      <4>1. CASE x < p
        <5>1. x \in r + 1 .. Len(c) /\ x # p /\ c[x] = l
          BY <1>1, <1>2, <2>2, <3>1, <4>1
        <5>2. x \in 1 .. Len(c)
          BY <2>2, <5>1
        <5> QED BY <1>1, <5>1, <5>2, ChainFacts
      <4>2. CASE ~(x < p)
        <5>1. x + 1 \in r + 1 .. Len(c) /\ x + 1 # p /\ c[x + 1] = l
          BY <1>1, <1>2, <2>2, <3>1, <4>2
        <5>2. x + 1 \in 1 .. Len(c)
          BY <2>2, <5>1
        <5> QED BY <1>1, <5>1, <5>2, ChainFacts
      <4> QED BY <4>1, <4>2
    <3>2. ASSUME NEW y \in r + 1 .. Len(c), c[y] = l, l # k
          PROVE  \E x \in q + 1 .. Len(c) - 1 : d[x] = l
      <4>1. y # p /\ y \in 1 .. Len(c)
        BY <1>1, <2>2, <3>2
      <4>2. CASE y < p
        <5>1. y \in q + 1 .. Len(c) - 1 /\ d[y] = l
          BY <1>1, <1>2, <2>2, <3>2, <4>1, <4>2
        <5> QED BY <5>1
      <4>3. CASE y > p
        <5>1. y - 1 \in q + 1 .. Len(c) - 1 /\ ~(y - 1 < p) /\ y - 1 + 1 = y /\ y - 1 \in 1 .. Len(c) - 1
          BY <1>1, <2>2, <3>2, <4>1, <4>3
        <5>2. d[y - 1] = l
          BY <1>2, <3>2, <5>1
        <5> QED BY <5>1, <5>2
      <4> QED BY <1>1, <4>1, <4>2, <4>3
    <3> QED BY <2>3, <3>1, <3>2
  <2>5. PreviousIn(d, j) = IF PreviousIn(c, j) = k THEN PreviousIn(c, k) ELSE PreviousIn(c, j)
    <3>1. /\ PreviousIn(d, j) = IF q = 1 THEN NULL ELSE d[q - 1]
          /\ PreviousIn(c, j) = IF r = 1 THEN NULL ELSE c[r - 1]
          /\ PreviousIn(c, k) = IF p = 1 THEN NULL ELSE c[p - 1]
      BY <1>1, <1>5, <2>1, <2>2, PreviousIs
    <3>2. k \in Key /\ k # NULL
      BY <1>1, ChainFacts, HashAssumption
    <3>3. CASE q < p
      <4>1. r = q /\ (q # 1 => q - 1 \in 1 .. Len(c) /\ d[q - 1] = c[q - 1] /\ c[q - 1] # k)
        <5>1. r = q /\ (q # 1 => /\ q - 1 \in 1 .. Len(c) /\ q - 1 # p
                                /\ q - 1 \in 1 .. Len(c) - 1 /\ q - 1 < p)
          BY <1>1, <2>2, <3>3
        <5>2. q # 1 => d[q - 1] = c[q - 1]
          BY <1>2, <5>1
        <5>3. q # 1 => c[q - 1] # k
          BY <1>1, <5>1, ChainFacts
        <5> QED BY <5>1, <5>2, <5>3
      <4> QED BY <3>1, <3>2, <4>1
    <3>4. CASE q = p
      <4>1. r = q + 1 /\ c[r - 1] = k /\ r # 1 /\ (q # 1 => d[q - 1] = c[q - 1])
        BY <1>1, <1>2, <2>2, <3>4
      <4> QED BY <3>1, <3>2, <3>4, <4>1
    <3>5. CASE q > p
      <4>1. /\ r = q + 1 /\ q # 1 /\ r # 1
            /\ r - 1 = q /\ q \in 1 .. Len(c) /\ d[q - 1] = c[q] /\ c[q] # k
        BY <1>1, <1>2, <2>2, <3>5, ChainFacts
      <4> QED BY <3>1, <3>2, <4>1
    <3> QED BY <1>1, <2>2, <3>3, <3>4, <3>5
  <2> QED BY <2>4, <2>5
<1> QED BY <1>5, <1>6, <1>7

(* A chain with a new head. *)
LEMMA LinkedIs ==
  ASSUME NEW c \in Chains, NEW k \in Key, k \notin ToSet(c), NEW d, d = <<k>> \o c
  PROVE  /\ d \in Chains
         /\ \A j : j \in ToSet(d) <=> (j \in ToSet(c) \/ j = k)
<1>1. /\ d \in Seq(Key) /\ Len(d) = Len(c) + 1 /\ Len(c) \in Nat
      /\ \A q \in 1 .. Len(c) + 1 : d[q] = IF q = 1 THEN k ELSE c[q - 1]
  BY ChainFacts
<1>2. DOMAIN d = 1 .. Len(c) + 1
  BY <1>1
<1>3. \A q \in 1 .. Len(c) : c[q] # k
  BY ChainFacts
<1>4. ASSUME NEW a \in 1 .. Len(c) + 1, NEW b \in 1 .. Len(c) + 1, d[a] = d[b]
      PROVE  a = b
  <2>1. a # 1 => a - 1 \in 1 .. Len(c)
    BY <1>1
  <2>2. b # 1 => b - 1 \in 1 .. Len(c)
    BY <1>1
  <2>3. ASSUME a # 1, b # 1 PROVE a - 1 = b - 1
    <3>1. c[a - 1] = c[b - 1]
      BY <1>1, <1>4, <2>3
    <3> QED BY <2>1, <2>2, <2>3, <3>1, ChainFacts
  <2> QED BY <1>1, <1>3, <1>4, <2>1, <2>2, <2>3
<1>5. d \in Chains
  BY <1>1, <1>2, <1>4 DEF Chains, IsInjective
<1>6. ASSUME NEW j
      PROVE  j \in ToSet(d) <=> (j \in ToSet(c) \/ j = k)
  <2>1. j \in ToSet(d) <=> \E q \in 1 .. Len(c) + 1 : d[q] = j
    BY <1>2 DEF ToSet
  <2>2. j \in ToSet(c) <=> \E q \in 1 .. Len(c) : c[q] = j
    BY ChainFacts
  <2>3. ASSUME NEW q \in 1 .. Len(c), c[q] = j
        PROVE  \E x \in 1 .. Len(c) + 1 : d[x] = j
    <3>1. q + 1 \in 1 .. Len(c) + 1 /\ d[q + 1] = j
      BY <1>1, <2>3
    <3> QED BY <3>1
  <2>4. 1 \in 1 .. Len(c) + 1 /\ d[1] = k
    BY <1>1
  <2>5. ASSUME NEW x \in 1 .. Len(c) + 1, d[x] = j, j # k
        PROVE  \E q \in 1 .. Len(c) : c[q] = j
    <3>1. x - 1 \in 1 .. Len(c) /\ c[x - 1] = j
      BY <1>1, <2>5
    <3> QED BY <3>1
  <2> QED BY <2>1, <2>2, <2>3, <2>4, <2>5
<1> QED BY <1>5, <1>6

-----------------------------------------------------------------------------
(* The order in which hashtable_expand fills a new chain. *)

StrictOrder(S, R) ==
  /\ \A j, k \in S : j # k => <<j, k>> \in R \/ <<k, j>> \in R
  /\ \A k \in S : <<k, k>> \notin R
  /\ \A i, j, k \in S : <<i, j>> \in R /\ <<j, k>> \in R => <<i, k>> \in R

Precede(S, R, k) == {j \in S : <<j, k>> \in R}

(* Of two, the first has less before it. *)
LEMMA PrecedeGrows ==
  ASSUME NEW S, IsFiniteSet(S), NEW R, StrictOrder(S, R),
         NEW j \in S, NEW k \in S, <<j, k>> \in R
  PROVE  /\ Cardinality(Precede(S, R, j)) \in Nat /\ Cardinality(Precede(S, R, k)) \in Nat
         /\ Cardinality(Precede(S, R, j)) < Cardinality(Precede(S, R, k))
         /\ Cardinality(Precede(S, R, k)) < Cardinality(S)
<1> DEFINE A == Precede(S, R, j)
           B == Precede(S, R, k)
<1>1. /\ A \subseteq B /\ j \in B /\ j \notin A
      /\ B \subseteq S /\ k \in S /\ k \notin B
  BY DEF Precede, StrictOrder
<1> HIDE DEF A, B
<1>2. /\ IsFiniteSet(B) /\ Cardinality(B) <= Cardinality(S)
      /\ (Cardinality(S) = Cardinality(B) => S = B)
  <2>1. B \in SUBSET S
    BY <1>1
  <2> QED BY <2>1, FS_Subset
<1>3. /\ IsFiniteSet(A) /\ Cardinality(A) <= Cardinality(B)
      /\ (Cardinality(B) = Cardinality(A) => B = A)
  <2>1. A \in SUBSET B
    BY <1>1
  <2> QED BY <1>2, <2>1, FS_Subset
<1>4. Cardinality(A) \in Nat /\ Cardinality(B) \in Nat /\ Cardinality(S) \in Nat
  BY <1>2, <1>3, FS_CardinalityType
<1>5. Cardinality(A) < Cardinality(B) /\ Cardinality(B) < Cardinality(S)
  BY <1>1, <1>2, <1>3, <1>4
<1> QED BY <1>4, <1>5 DEF A, B

(* A finite set can be put in any strict order. *)
LEMMA OrderExists ==
  ASSUME NEW S, IsFiniteSet(S), NEW R, StrictOrder(S, R)
  PROVE  \E c \in SetToSeqs(S) : \A p, q \in DOMAIN c : p < q => <<c[p], c[q]>> \in R
<1> DEFINE n == Cardinality(S)
           f == [k \in S |-> Cardinality(Precede(S, R, k)) + 1]
           c == [p \in 1 .. n |-> CHOOSE k \in S : f[k] = p]
<1>1. n \in Nat
  BY FS_CardinalityType
<1>2. ASSUME NEW k \in S
      PROVE  f[k] \in 1 .. n
  <2>1. Precede(S, R, k) \subseteq S /\ k \notin Precede(S, R, k)
    BY DEF Precede, StrictOrder
  <2>2. /\ IsFiniteSet(Precede(S, R, k)) /\ Cardinality(Precede(S, R, k)) <= n
        /\ (n = Cardinality(Precede(S, R, k)) => S = Precede(S, R, k))
    <3>1. Precede(S, R, k) \in SUBSET S
      BY <2>1
    <3> QED BY <3>1, FS_Subset
  <2>3. Cardinality(Precede(S, R, k)) \in Nat
    BY <2>2, FS_CardinalityType
  <2> HIDE DEF n
  <2>4. f[k] = Cardinality(Precede(S, R, k)) + 1
    OBVIOUS
  <2> QED BY <1>1, <2>1, <2>2, <2>3, <2>4
<1>3. ASSUME NEW j \in S, NEW k \in S, <<j, k>> \in R
      PROVE  f[j] < f[k]
  <2>1. f[j] = Cardinality(Precede(S, R, j)) + 1 /\ f[k] = Cardinality(Precede(S, R, k)) + 1
    OBVIOUS
  <2>2. /\ Cardinality(Precede(S, R, j)) \in Nat /\ Cardinality(Precede(S, R, k)) \in Nat
        /\ Cardinality(Precede(S, R, j)) < Cardinality(Precede(S, R, k))
    BY <1>3, PrecedeGrows
  <2> QED BY <2>1, <2>2
<1>4. f \in [S -> 1 .. n]
  <2>1. f = [k \in S |-> f[k]]
    OBVIOUS
  <2> HIDE DEF f, n
  <2> QED BY <1>2, <2>1
<1> HIDE DEF f
<1>5. IsInjective(f)
  <2>1. ASSUME NEW j \in S, NEW k \in S, f[j] = f[k], j # k
        PROVE  FALSE
    <3>1. f[j] < f[k] \/ f[k] < f[j]
      BY <1>3, <2>1 DEF StrictOrder
    <3> QED BY <1>1, <1>2, <2>1, <3>1
  <2>2. DOMAIN f = S
    BY <1>4
  <2> QED BY <2>1, <2>2 DEF IsInjective
<1>6. f \in Surjection(S, 1 .. n)
  <2>1. f \in Injection(S, 1 .. n)
    BY <1>4, <1>5 DEF Injection
  <2>2. IsFiniteSet(1 .. n) /\ Cardinality(1 .. n) = n
    <3> HIDE DEF n
    <3> QED BY <1>1, FS_Interval
  <2> QED BY <2>1, <2>2, FS_Injection
<1>7. ASSUME NEW p \in 1 .. n
      PROVE  c[p] \in S /\ f[c[p]] = p
  <2>1. \E k \in S : f[k] = p
    BY <1>6 DEF Surjection
  <2>2. c[p] = CHOOSE k \in S : f[k] = p
    OBVIOUS
  <2> QED BY <2>1, <2>2
<1>8. c = [p \in 1 .. n |-> c[p]] /\ DOMAIN c = 1 .. n
  OBVIOUS
<1> HIDE DEF c
<1>9. c \in [1 .. n -> S]
  BY <1>7, <1>8
<1>10. c \in SetToSeqs(S)
  <2>1. \A i, j \in 1 .. n : i # j => c[i] # c[j]
    BY <1>7
  <2> QED BY <1>9, <2>1 DEF SetToSeqs
<1>11. ASSUME NEW p \in DOMAIN c, NEW q \in DOMAIN c, p < q
       PROVE  <<c[p], c[q]>> \in R
  <2>1. c[p] \in S /\ f[c[p]] = p /\ c[q] \in S /\ f[c[q]] = q /\ p \in 1 .. n /\ q \in 1 .. n
    BY <1>7, <1>8
  <2>2. c[p] # c[q]
    BY <1>11, <2>1
  <2>3. <<c[q], c[p]>> \notin R
    BY <1>1, <1>3, <1>11, <2>1
  <2> QED BY <2>1, <2>2, <2>3 DEF StrictOrder
<1> QED BY <1>10, <1>11

-----------------------------------------------------------------------------
(* Good tables. *)

LEMMA SlotInRange ==
  ASSUME NEW n \in Nat, n # 0, NEW k \in Key
  PROVE  IndexFor(n, k) \in 0 .. n - 1 /\ IndexFor(n, k) \in Nat
<1>1. HashOf[k] \in Nat
  BY HashAssumption
<1> QED BY <1>1 DEF IndexFor

(* The chain c is the one for slot i of n, if the table's keys are S. *)
Holds(c, n, S, i) == \A k : k \in ToSet(c) <=> (k \in S /\ IndexFor(n, k) = i)

SameElsewhere(S, S2, n, i) == \A k \in Key : IndexFor(n, k) # i => (k \in S <=> k \in S2)

LEMMA TableFacts ==
  ASSUME NEW n, NEW S, NEW t, GoodTable(t, n, S)
  PROVE  /\ DOMAIN t = 0 .. n - 1 /\ t # << >>
         /\ Cardinality(DOMAIN t) = n
         /\ \A i \in 0 .. n - 1 :
              /\ t[i] \in Chains
              /\ \A k : k \in ToSet(t[i]) <=> (k \in S /\ IndexFor(n, k) = i)
         /\ \A k \in S : IndexFor(n, k) \in 0 .. n - 1 /\ k \in ToSet(t[IndexFor(n, k)])
<1> USE DEF GoodTable
<1>1. DOMAIN t = 0 .. n - 1
  OBVIOUS
<1>2. t # << >>
  <2>1. 0 \in DOMAIN t
    BY <1>1
  <2> QED BY <2>1
<1>3. Cardinality(DOMAIN t) = n
  <2>1. Cardinality(0 .. n - 1) = IF 0 > n - 1 THEN 0 ELSE n - 1 - 0 + 1
    BY FS_Interval
  <2> QED BY <1>1, <2>1
<1>4. ASSUME NEW i \in 0 .. n - 1
      PROVE  /\ t[i] \in Chains
             /\ \A k : k \in ToSet(t[i]) <=> (k \in S /\ IndexFor(n, k) = i)
  <2>1. t[i] \in Chains
    BY DEF GoodTable, Chains
  <2>2. PICK c \in Chains : c = t[i]
    BY <2>1
  <2>3. ASSUME NEW k, k \in ToSet(c)
        PROVE  k \in Key
    <3>1. PICK p \in 1 .. Len(c) : c[p] = k
      BY <2>3, ChainFacts
    <3> QED BY <3>1, ChainFacts
  <2> QED BY <2>1, <2>2, <2>3 DEF GoodTable
<1>5. \A k \in S : IndexFor(n, k) \in 0 .. n - 1
  BY SlotInRange DEF GoodTable
<1> QED BY <1>1, <1>2, <1>3, <1>4, <1>5

LEMMA SlotGood ==
  ASSUME NEW n, NEW S, NEW t, GoodTable(t, n, S),
         NEW i, i \in 0 .. n - 1
  PROVE  t[i] \in Chains /\ Holds(t[i], n, S, i)
  BY TableFacts DEF Holds

WithChain(t, i, c) == [t EXCEPT ![i] = c]

Replaced(t, t2, n, i, c) == t2[i] = c /\ \A j \in 0 .. n - 1 : j # i => t2[j] = t[j]

(* A table in which one chain is replaced. *)
LEMMA ChainReplaced ==
  ASSUME NEW n, NEW S, NEW t, GoodTable(t, n, S),
         NEW S2, S2 \subseteq Key, NEW i, i \in 0 .. n - 1, NEW c \in Chains,
         Holds(c, n, S2, i), SameElsewhere(S, S2, n, i),
         NEW t2, t2 = WithChain(t, i, c)
  PROVE  GoodTable(t2, n, S2) /\ Replaced(t, t2, n, i, c)
<1>1. /\ DOMAIN t2 = 0 .. n - 1 /\ t2[i] = c
      /\ \A j \in 0 .. n - 1 : j # i => t2[j] = t[j]
      /\ t2 = [j \in 0 .. n - 1 |-> t2[j]]
  BY TableFacts DEF WithChain
<1>2. ASSUME NEW j \in 0 .. n - 1
      PROVE  /\ t2[j] \in Seq(Key) /\ IsInjective(t2[j])
             /\ \A k \in Key : k \in ToSet(t2[j]) <=> (k \in S2 /\ IndexFor(n, k) = j)
  <2>1. CASE j = i
    BY <1>1, <2>1 DEF Chains, Holds
  <2>2. CASE j # i
    <3>1. t2[j] = t[j] /\ t[j] \in Chains /\ Holds(t[j], n, S, j)
      BY <1>1, <2>2, SlotGood
    <3> QED BY <2>2, <3>1 DEF Chains, Holds, SameElsewhere
  <2> QED BY <2>1, <2>2
<1>3. t2 \in [0 .. n - 1 -> Seq(Key)]
  BY <1>1, <1>2
<1> QED BY <1>1, <1>2, <1>3 DEF GoodTable, Replaced

(* A table from which one entry is taken. *)
LEMMA EntryTaken ==
  ASSUME NEW n, NEW S, NEW t, GoodTable(t, n, S),
         NEW k \in S, NEW i, i = IndexFor(n, k),
         NEW c, c = RemoveAt(t[i], Position(t[i], k)),
         NEW t2, t2 = WithChain(t, i, c), NEW S2, S2 = S \ {k}
  PROVE  GoodTable(t2, n, S2) /\ Replaced(t, t2, n, i, c)
<1>1. i \in 0 .. n - 1 /\ t[i] \in Chains /\ k \in ToSet(t[i])
      /\ \A j : j \in ToSet(t[i]) <=> (j \in S /\ IndexFor(n, j) = i)
  <2>1. i \in 0 .. n - 1
    BY SlotInRange DEF GoodTable
  <2>2. t[i] \in Chains /\ Holds(t[i], n, S, i)
    BY <2>1, SlotGood
  <2> QED BY <2>1, <2>2 DEF Holds
<1>2. c \in Chains /\ \A j : j \in ToSet(c) <=> (j \in ToSet(t[i]) /\ j # k)
  BY <1>1, WithoutIs
<1>3. S2 \subseteq Key /\ Holds(c, n, S2, i) /\ SameElsewhere(S, S2, n, i)
  BY <1>1, <1>2 DEF Holds, SameElsewhere, GoodTable
<1>4. c \in Chains
  BY <1>2
<1> QED BY <1>1, <1>3, <1>4, ChainReplaced

(* A table to which one entry is added. *)
LEMMA EntryLinked ==
  ASSUME NEW n, NEW S, NEW t, GoodTable(t, n, S),
         NEW k \in Key, k \notin S, NEW t2, t2 = Link(t, k),
         NEW S2, S2 = S \cup {k}
  PROVE  GoodTable(t2, n, S2)
<1>1. PICK i \in 0 .. n - 1 : i = IndexFor(n, k)
  BY SlotInRange DEF GoodTable
<1>2. /\ t[i] \in Chains /\ DOMAIN t = 0 .. n - 1 /\ Cardinality(DOMAIN t) = n
      /\ \A j : j \in ToSet(t[i]) <=> (j \in S /\ IndexFor(n, j) = i)
  BY SlotGood, TableFacts DEF Holds
<1>3. PICK c \in Chains : /\ c = <<k>> \o t[i]
                          /\ \A j : j \in ToSet(c) <=> (j \in ToSet(t[i]) \/ j = k)
  <2>1. k \notin ToSet(t[i])
    BY <1>2
  <2> DEFINE d == <<k>> \o t[i]
  <2>2. d \in Chains /\ \A j : j \in ToSet(d) <=> (j \in ToSet(t[i]) \/ j = k)
    <3>1. d = <<k>> \o t[i]
      OBVIOUS
    <3> HIDE DEF d
    <3> QED BY <1>2, <2>1, <3>1, LinkedIs, ZenonT(60)
  <2> QED BY <2>2
<1>4. t2 = WithChain(t, i, c)
  BY <1>1, <1>2, <1>3 DEF Link, WithChain
<1>5. S2 \subseteq Key /\ Holds(c, n, S2, i) /\ SameElsewhere(S, S2, n, i)
  BY <1>1, <1>2, <1>3 DEF Holds, SameElsewhere, GoodTable
<1> QED BY <1>4, <1>5, ChainReplaced

(* The slots of an empty table. *)
LEMMA EmptyGood ==
  ASSUME NEW n \in Nat, n # 0, NEW t, t = EmptyTable(n), NEW S, \A k : k \notin S
  PROVE  GoodTable(t, n, S)
<1>1. t \in [0 .. n - 1 -> Seq(Key)] /\ \A i \in 0 .. n - 1 : t[i] = << >>
  BY DEF EmptyTable
<1>2. IsInjective(<< >>) /\ \A k : k \notin ToSet(<< >>)
  BY DEF IsInjective, ToSet
<1> QED BY <1>1, <1>2 DEF GoodTable

-----------------------------------------------------------------------------
(* hashtable_expand. *)

LEMMA TakenInOrder ==
  ASSUME NEW n, NEW S, GoodTable(table, n, S),
         NEW T, T \subseteq S, NEW R, R = {jk \in T \X T : TakenAfter(jk[1], jk[2])}
  PROVE  StrictOrder(T, R)
<1>1. Length = n
  BY TableFacts DEF Length
<1> DEFINE slot(k) == IndexFor(n, k)
           pos(k) == Position(table[slot(k)], k)
<1>2. ASSUME NEW k \in T
      PROVE  slot(k) \in Nat /\ pos(k) \in Nat
  <2>1. slot(k) \in 0 .. n - 1 /\ table[slot(k)] \in Chains /\ k \in ToSet(table[slot(k)])
    BY TableFacts
  <2> HIDE DEF slot
  <2>2. pos(k) \in 1 .. Len(table[slot(k)]) /\ Len(table[slot(k)]) \in Nat
    BY <2>1, PositionExists, ChainFacts
  <2> QED BY <2>1, <2>2
<1>3. ASSUME NEW j \in T, NEW k \in T, j # k, slot(j) = slot(k)
      PROVE  pos(j) # pos(k)
  <2>1. /\ slot(k) \in 0 .. n - 1 /\ table[slot(k)] \in Chains
        /\ k \in ToSet(table[slot(k)]) /\ j \in ToSet(table[slot(k)])
    BY <1>3, TableFacts
  <2> HIDE DEF slot
  <2> QED BY <1>3, <2>1, PositionExists
<1>4. ASSUME NEW j \in T, NEW k \in T
      PROVE  <<j, k>> \in R <=> (slot(j) > slot(k) \/ (slot(j) = slot(k) /\ pos(j) > pos(k)))
  <2>1. <<j, k>> \in R <=> TakenAfter(j, k)
    OBVIOUS
  <2> QED BY <1>1, <2>1 DEF TakenAfter, Chain
<1> HIDE DEF slot, pos
<1>5. ASSUME NEW j \in T, NEW k \in T, j # k
      PROVE  <<j, k>> \in R \/ <<k, j>> \in R
  BY <1>2, <1>3, <1>4, <1>5
<1>6. ASSUME NEW k \in T
      PROVE  <<k, k>> \notin R
  BY <1>2, <1>4
<1>7. ASSUME NEW i \in T, NEW j \in T, NEW k \in T, <<i, j>> \in R, <<j, k>> \in R
      PROVE  <<i, k>> \in R
  <2>1. slot(i) \in Nat /\ slot(j) \in Nat /\ slot(k) \in Nat
        /\ pos(i) \in Nat /\ pos(j) \in Nat /\ pos(k) \in Nat
    BY <1>2
  <2>2. slot(i) > slot(j) \/ (slot(i) = slot(j) /\ pos(i) > pos(j))
    BY <1>4, <1>7
  <2>3. slot(j) > slot(k) \/ (slot(j) = slot(k) /\ pos(j) > pos(k))
    BY <1>4, <1>7
  <2>4. slot(i) > slot(k) \/ (slot(i) = slot(k) /\ pos(i) > pos(k))
    BY <2>1, <2>2, <2>3
  <2> QED BY <1>4, <2>4
<1> QED BY <1>5, <1>6, <1>7 DEF StrictOrder

LEMMA NewChain ==
  ASSUME NEW n, NEW S, GoodTable(table, n, S), IsFiniteSet(S), NEW T, T \subseteq S, NEW c, c = LastTakenFirst(T)
  PROVE  c \in Chains /\ \A k : k \in ToSet(c) <=> k \in T
<1> DEFINE R == {jk \in T \X T : TakenAfter(jk[1], jk[2])}
<1>1. IsFiniteSet(T)
  <2>1. T \in SUBSET S
    OBVIOUS
  <2> QED BY <2>1, FS_Subset
<1>2. StrictOrder(T, R)
  <2> HIDE DEF R
  <2> QED BY TakenInOrder DEF R
<1>3. \A j, k \in T : <<j, k>> \in R <=> TakenAfter(j, k)
  OBVIOUS
<1> HIDE DEF R
<1>4. PICK d \in SetToSeqs(T) : \A p, q \in DOMAIN d : p < q => <<d[p], d[q]>> \in R
  BY <1>1, <1>2, OrderExists
<1>5. \A d2 \in SetToSeqs(T) : \A p \in DOMAIN d2 : d2[p] \in T
  BY DEF SetToSeqs
<1>6. \A p, q \in DOMAIN d : p < q => TakenAfter(d[p], d[q])
  BY <1>3, <1>4, <1>5
<1>7. c \in SetToSeqs(T)
  BY <1>4, <1>6 DEF LastTakenFirst
<1> DEFINE m == Cardinality(T)
<1>8. m \in Nat /\ Cardinality(1 .. m) = m /\ IsFiniteSet(1 .. m)
  <2>1. m \in Nat
    BY <1>1, FS_CardinalityType
  <2>2. Cardinality(1 .. m) = IF 1 > m THEN 0 ELSE m - 1 + 1
    <3> HIDE DEF m
    <3> QED BY <2>1, FS_Interval
  <2> HIDE DEF m
  <2> QED BY <2>1, <2>2, FS_Interval
<1>9. c \in [1 .. m -> T] /\ \A i, j \in 1 .. m : i # j => c[i] # c[j]
  BY <1>7 DEF SetToSeqs
<1> HIDE DEF m
<1>10. DOMAIN c = 1 .. m
  BY <1>9
<1>11. IsInjective(c)
  BY <1>9, <1>10 DEF IsInjective
<1>12. c \in Surjection(1 .. m, T)
  <2>1. c \in Injection(1 .. m, T)
    BY <1>9, <1>11 DEF Injection
  <2> QED BY <1>1, <1>8, <2>1, FS_Injection DEF m
<1>13. c \in Seq(Key)
  <2>1. T \subseteq Key
    BY DEF GoodTable
  <2>2. c \in [1 .. m -> Key]
    BY <1>9, <2>1
  <2> QED BY <1>8, <2>2, SeqDef
<1>14. c \in Chains
  BY <1>11, <1>13 DEF Chains
<1>15. ASSUME NEW k
       PROVE  k \in ToSet(c) <=> k \in T
  <2>1. k \in ToSet(c) <=> \E p \in 1 .. m : c[p] = k
    BY <1>10 DEF ToSet
  <2>2. k \in T => \E p \in 1 .. m : c[p] = k
    BY <1>12 DEF Surjection
  <2> QED BY <1>9, <2>1, <2>2
<1> QED BY <1>14, <1>15

(* However the old table was filled, the new one has each entry in its chain. *)
LEMMA RehashedGood ==
  ASSUME NEW n, NEW S, GoodTable(table, n, S), IsFiniteSet(S),
         NEW m \in Nat, m # 0, NEW t, t = Rehashed(m)
  PROVE  GoodTable(t, m, S)
<1> DEFINE T(i) == {k \in Entries : IndexFor(m, k) = i}
<1>1. \A k : k \in Entries <=> k \in S
  <2>1. DOMAIN table = 0 .. n - 1
    BY TableFacts
  <2>2. \A i \in 0 .. n - 1 : \A k : k \in ToSet(table[i]) <=> (k \in S /\ IndexFor(n, k) = i)
    BY TableFacts
  <2>3. \A k \in S : IndexFor(n, k) \in 0 .. n - 1
    BY SlotInRange DEF GoodTable
  <2> QED BY <2>1, <2>2, <2>3 DEF Entries
<1>2. t = [i \in 0 .. m - 1 |-> LastTakenFirst(T(i))]
  BY DEF Rehashed
<1>3. ASSUME NEW i \in 0 .. m - 1
      PROVE  t[i] \in Chains /\ \A k : k \in ToSet(t[i]) <=> k \in T(i)
  <2>1. t[i] = LastTakenFirst(T(i)) /\ T(i) \subseteq S
    BY <1>1, <1>2
  <2> HIDE DEF T
  <2> QED BY <2>1, NewChain
<1>4. \A i \in 0 .. m - 1 : t[i] \in Seq(Key) /\ IsInjective(t[i])
  BY <1>3 DEF Chains
<1>5. t \in [0 .. m - 1 -> Seq(Key)]
  BY <1>2, <1>4
<1>6. ASSUME NEW i \in 0 .. m - 1, NEW k \in Key
      PROVE  k \in ToSet(t[i]) <=> (k \in S /\ IndexFor(m, k) = i)
  BY <1>1, <1>3
<1> QED BY <1>4, <1>5, <1>6 DEF GoodTable

-----------------------------------------------------------------------------
(* Walks. *)

LEMMA BehindMembers ==
  ASSUME NEW n, NEW S, NEW t, GoodTable(t, n, S), NEW e, NEW i, NEW j
  PROVE  j \in BehindIn(t, e, i) <=> \/ e # NULL /\ j \in ToSet(After(t[i], e))
                                     \/ j \in S /\ IndexFor(n, j) > i
<1>1. DOMAIN t = 0 .. n - 1
  BY TableFacts
<1>2. \A l \in 0 .. n - 1 : j \in ToSet(t[l]) <=> (j \in S /\ IndexFor(n, j) = l)
  BY SlotGood DEF Holds
<1>3. j \in S => IndexFor(n, j) \in 0 .. n - 1
  BY SlotInRange DEF GoodTable
<1> QED BY <1>1, <1>2, <1>3 DEF BehindIn

LEMMA IteratorFields ==
  ASSUME NEW e \in OrNull, NEW parent \in OrNull, NEW i \in Nat
  PROVE  /\ Iterator(e, parent, i) \in Iterators
         /\ Iterator(e, parent, i).on /\ Iterator(e, parent, i).e = e
         /\ Iterator(e, parent, i).parent = parent /\ Iterator(e, parent, i).index = i
  BY DEF Iterator, Iterators, OrNull

(* The entries of d are those in slot i and later. *)
FromSlot(n, S, i, d) == \A k : k \in d <=> (k \in S /\ IndexFor(n, k) >= i)

(* The iterator goes to the first of the entries that lie in slot i or later. *)
LEMMA HeadFromGood ==
  ASSUME NEW n, NEW S, NEW t, GoodTable(t, n, S), NEW i \in Nat, NEW w, w = HeadFrom(t, i),
         NEW d, FromSlot(n, S, i, d), NEW d2, d2 = d \ {w.e}
  PROVE  GoodWalk(t, n, S, w, d2) /\ w.parent = NULL
<1> DEFINE filled == {j \in i .. n - 1 : t[j] # << >>}
<1>1. n \in Nat /\ n # 0 /\ Cardinality(DOMAIN t) = n /\ NULL \notin S
  BY TableFacts, HashAssumption DEF GoodTable
<1>2. \A j \in 0 .. n - 1 : t[j] \in Chains /\ \A k : k \in ToSet(t[j]) <=> (k \in S /\ IndexFor(n, k) = j)
  BY SlotGood DEF Holds
<1>3. CASE filled = {}
  <2>1. w = Iterator(NULL, NULL, n)
    BY <1>1, <1>3 DEF HeadFrom
  <2>2. w \in Iterators /\ w.on /\ w.e = NULL /\ w.parent = NULL
    BY <1>1, <2>1, IteratorFields DEF OrNull
  <2>3. ASSUME NEW k \in S, IndexFor(n, k) >= i
        PROVE  FALSE
    <3>1. IndexFor(n, k) \in 0 .. n - 1
      BY SlotInRange DEF GoodTable
    <3>2. IndexFor(n, k) \in i .. n - 1 /\ k \in ToSet(t[IndexFor(n, k)])
      BY <1>2, <2>3, <3>1
    <3>3. t[IndexFor(n, k)] = << >>
      BY <1>3, <3>2
    <3> QED BY <3>2, <3>3 DEF ToSet
  <2>4. d2 = {}
    BY <2>3 DEF FromSlot
  <2> QED BY <2>2, <2>4 DEF GoodWalk
<1>4. CASE filled # {}
  <2> DEFINE j == CHOOSE j \in filled : \A l \in filled : j <= l
  <2>1. j \in filled /\ \A l \in filled : j <= l
    <3>1. filled \subseteq Nat
      BY <1>1
    <3> HIDE DEF filled
    <3> QED BY <1>4, <3>1, SmallestOf
  <2>2. w = Iterator(Head(t[j]), NULL, j)
    BY <1>1, <1>4 DEF HeadFrom
  <2> HIDE DEF j
  <2>3. j \in 0 .. n - 1 /\ j \in Nat /\ j >= i /\ t[j] # << >> /\ t[j] \in Chains
        /\ \A k : k \in ToSet(t[j]) <=> (k \in S /\ IndexFor(n, k) = j)
    BY <1>1, <1>2, <2>1
  <2>4. PICK h : h = Head(t[j])
    OBVIOUS
  <2>5. /\ h \in ToSet(t[j]) /\ PreviousIn(t[j], h) = NULL
        /\ h \notin ToSet(After(t[j], h))
        /\ \A k : k \in ToSet(t[j]) <=> (k = h \/ k \in ToSet(After(t[j], h)))
    BY <2>3, <2>4, HeadSplits
  <2>6. h \in S /\ h \in Key /\ h # NULL /\ IndexFor(n, h) = j
    BY <1>1, <2>3, <2>5 DEF GoodTable
  <2>7. /\ w \in Iterators /\ w.on /\ w.e = h
        /\ w.parent = NULL /\ w.index = j
    <3>1. w = Iterator(h, NULL, j) /\ h \in OrNull /\ NULL \in OrNull
      BY <2>2, <2>4, <2>6 DEF OrNull
    <3> QED BY <2>3, <3>1, IteratorFields
  <2>8. ASSUME NEW k
        PROVE  k \in d2 <=> k \in BehindIn(t, h, j)
    <3>1. k \in BehindIn(t, h, j) <=> (k \in ToSet(After(t[j], h)) \/ (k \in S /\ IndexFor(n, k) > j))
      BY <2>6, BehindMembers
    <3>2. k \in d2 <=> (k \in S /\ IndexFor(n, k) >= i /\ k # h)
      BY <2>7 DEF FromSlot
    <3>3. k \in S => IndexFor(n, k) \in 0 .. n - 1
      BY SlotInRange DEF GoodTable
    <3>4. ASSUME k \in S, IndexFor(n, k) >= i
          PROVE  IndexFor(n, k) >= j
      <4>1. IndexFor(n, k) \in i .. n - 1 /\ k \in ToSet(t[IndexFor(n, k)])
        BY <1>2, <3>3, <3>4
      <4>2. t[IndexFor(n, k)] # << >>
        BY <4>1 DEF ToSet
      <4> QED BY <2>1, <4>1, <4>2
    <3>5. k \in S /\ IndexFor(n, k) >= i => IndexFor(n, k) = j \/ IndexFor(n, k) > j
      BY <2>3, <3>3, <3>4
    <3>6. k \in S /\ (IndexFor(n, k) = j \/ IndexFor(n, k) > j) => IndexFor(n, k) >= i
      BY <2>3, <3>3
    <3>7. (k \in S /\ IndexFor(n, k) > j) => k # h
      BY <2>3, <2>6
    <3> QED BY <2>3, <2>5, <3>1, <3>2, <3>5, <3>6, <3>7
  <2>9. d2 = BehindIn(t, h, j)
    BY <2>8
  <2> QED BY <2>5, <2>6, <2>7, <2>9 DEF GoodWalk
<1> QED BY <1>3, <1>4

LEMMA AfterIrreflexive ==
  ASSUME NEW c \in Chains, NEW k \in ToSet(c)
  PROVE  k \notin ToSet(After(c, k))
<1>1. PICK p \in 1 .. Len(c) : c[p] = k
  BY ChainFacts
<1>2. \A j : j \in ToSet(After(c, k)) <=> \E q \in p + 1 .. Len(c) : c[q] = j
  BY <1>1, AfterAt
<1>3. \A q \in p + 1 .. Len(c) : q \in 1 .. Len(c) /\ q # p
  BY ChainFacts
<1> QED BY <1>1, <1>2, <1>3, ChainFacts

(* d is next, when there is a next entry, and what lies behind it. *)
Ahead(t, next, i, d) ==
  \A k : k \in d <=> ((next # NULL /\ k = next) \/ k \in BehindIn(t, next, i))

(* The iterator w that went on from the entry e to next, or to a later slot. *)
CameTo(t, n, S, e, i, next, w, d) ==
  /\ next = NULL => GoodWalk(t, n, S, w, d) /\ w.parent = NULL
  /\ next # NULL => /\ w \in Iterators /\ w.on /\ w.e = next /\ w.index = i
                    /\ w.parent = e
                    /\ d = BehindIn(t, next, i)

(* The iterator goes on from an entry e whose link is next. *)
LEMMA AdvancedGood ==
  ASSUME NEW n, NEW S, NEW t, GoodTable(t, n, S), NEW e \in Key,
         NEW i, i \in 0 .. n - 1, i = itr.index,
         NEW next, next # NULL => next \in S /\ IndexFor(n, next) = i,
         NEW w, w = Advanced(t, e, next),
         NEW d, Ahead(t, next, i, d),
         NEW d2, d2 = d \ {w.e}
  PROVE  CameTo(t, n, S, e, i, next, w, d2)
<1>1. n \in Nat /\ n # 0 /\ S \subseteq Key /\ i \in Nat
  BY DEF GoodTable
<1>2. CASE next = NULL
  <2>1. PICK j \in Nat : j = i + 1 /\ w = HeadFrom(t, j)
    BY <1>1, <1>2 DEF Advanced
  <2>2. ASSUME NEW k
        PROVE  k \in d <=> (k \in S /\ IndexFor(n, k) >= j)
    <3>1. k \in BehindIn(t, next, i) <=> (k \in S /\ IndexFor(n, k) > i)
      BY <1>2, BehindMembers
    <3>2. k \in S => IndexFor(n, k) \in Nat
      BY <1>1, SlotInRange
    <3> QED BY <1>1, <1>2, <2>1, <3>1, <3>2 DEF Ahead
  <2>3. FromSlot(n, S, j, d)
    BY <2>2 DEF FromSlot
  <2>4. GoodWalk(t, n, S, w, d2) /\ w.parent = NULL
    BY <2>1, <2>3, HeadFromGood
  <2> QED BY <1>2, <2>4 DEF CameTo
<1>3. CASE next # NULL
  <2>1. w = Iterator(next, e, i)
    BY <1>3 DEF Advanced
  <2>2. next \in S /\ IndexFor(n, next) = i /\ next \in OrNull /\ e \in OrNull
    BY <1>1, <1>3 DEF OrNull
  <2>3. w \in Iterators /\ w.on /\ w.e = next /\ w.index = i /\ w.parent = e
    BY <1>1, <2>1, <2>2, IteratorFields
  <2>4. next \notin BehindIn(t, next, i)
    <3>1. t[i] \in Chains /\ next \in ToSet(t[i])
      BY <2>2, SlotGood DEF Holds
    <3>2. next \notin ToSet(After(t[i], next))
      BY <3>1, AfterIrreflexive
    <3> QED BY <1>1, <2>2, <3>2, BehindMembers
  <2>5. d2 = BehindIn(t, next, i)
    BY <2>3, <2>4, <1>3 DEF Ahead
  <2> QED BY <1>3, <2>3, <2>5 DEF CameTo
<1> QED BY <1>2, <1>3

(* What lies before an iterator at an entry that stays is what lies behind  *)
(* the next entry, and that entry.                                          *)
LEMMA BehindNext ==
  ASSUME NEW n, NEW S, NEW t, GoodTable(t, n, S), NEW e \in S,
         NEW i, i = IndexFor(n, e), NEW next, next = NextIn(t[i], e)
  PROVE  /\ next # NULL => next \in S /\ IndexFor(n, next) = i /\ next # e
         /\ next # NULL => PreviousIn(t[i], next) = e
         /\ Ahead(t, next, i, BehindIn(t, e, i))
<1>1. i \in 0 .. n - 1 /\ e \in Key /\ e # NULL
  BY SlotInRange, HashAssumption DEF GoodTable
<1>2. t[i] \in Chains /\ e \in ToSet(t[i])
      /\ \A k : k \in ToSet(t[i]) <=> (k \in S /\ IndexFor(n, k) = i)
  BY <1>1, SlotGood DEF Holds
<1>3. /\ next = NULL => \A j : j \notin ToSet(After(t[i], e))
      /\ next # NULL => /\ next \in ToSet(t[i]) /\ next # e
                        /\ PreviousIn(t[i], next) = e
                        /\ \A j : j \in ToSet(After(t[i], e))
                                    <=> (j = next \/ j \in ToSet(After(t[i], next)))
  BY <1>2, AfterSplits
<1>4. ASSUME NEW k
      PROVE  k \in BehindIn(t, e, i) <=>
               ((next # NULL /\ k = next) \/ k \in BehindIn(t, next, i))
  <2>1. k \in BehindIn(t, e, i) <=>
          (k \in ToSet(After(t[i], e)) \/ (k \in S /\ IndexFor(n, k) > i))
    BY <1>1, BehindMembers
  <2>2. k \in BehindIn(t, next, i) <=>
          ((next # NULL /\ k \in ToSet(After(t[i], next))) \/ (k \in S /\ IndexFor(n, k) > i))
    BY BehindMembers
  <2> QED BY <1>3, <2>1, <2>2
<1> QED BY <1>2, <1>3, <1>4 DEF Ahead

(* The same when e has been taken out of its chain. *)
LEMMA BehindTaken ==
  ASSUME NEW n, NEW S, NEW t, GoodTable(t, n, S), NEW e \in S,
         NEW i, i = IndexFor(n, e),
         NEW c, c = RemoveAt(t[i], Position(t[i], e)),
         NEW t2, t2 = WithChain(t, i, c), NEW S2, S2 = S \ {e},
         NEW next, next = NextIn(t[i], e)
  PROVE  /\ next # NULL => /\ next \in S2 /\ IndexFor(n, next) = i
                           /\ PreviousIn(t2[i], next) = PreviousIn(t[i], e)
         /\ Ahead(t2, next, i, BehindIn(t, e, i))
<1>1. i \in 0 .. n - 1 /\ e \in Key /\ e # NULL /\ i \in Nat
  BY SlotInRange, HashAssumption DEF GoodTable
<1>2. t[i] \in Chains /\ e \in ToSet(t[i])
  BY <1>1, SlotGood DEF Holds
<1>3. GoodTable(t2, n, S2) /\ t2[i] = c
  BY EntryTaken DEF Replaced
<1>4. /\ next # NULL => next \in S /\ IndexFor(n, next) = i /\ next # e
      /\ next # NULL => PreviousIn(t[i], next) = e
  BY BehindNext
<1>5. \A k : k \in BehindIn(t, e, i) <=>
               ((next # NULL /\ k = next) \/ k \in BehindIn(t, next, i))
  BY BehindNext DEF Ahead
<1>6. /\ c \in Chains
      /\ \A j : j \in ToSet(c) <=> (j \in ToSet(t[i]) /\ j # e)
      /\ \A j \in ToSet(c) :
           /\ \A l : l \in ToSet(After(c, j)) <=> (l \in ToSet(After(t[i], j)) /\ l # e)
           /\ PreviousIn(c, j) = IF PreviousIn(t[i], j) = e THEN PreviousIn(t[i], e)
                                 ELSE PreviousIn(t[i], j)
  BY <1>2, WithoutIs
<1>7. next # NULL => next \in S2 /\ next \in ToSet(c) /\ next \in ToSet(t[i])
  BY <1>1, <1>4, <1>6, SlotGood DEF Holds
<1>8. next # NULL => PreviousIn(t2[i], next) = PreviousIn(t[i], e)
  BY <1>3, <1>4, <1>6, <1>7
<1>9. e \notin ToSet(After(t[i], e))
  BY <1>2, AfterIrreflexive
<1>10. ASSUME NEW k
       PROVE  k \in BehindIn(t, e, i) <=>
                ((next # NULL /\ k = next) \/ k \in BehindIn(t2, next, i))
  <2>1. k \in BehindIn(t, next, i) <=>
          ((next # NULL /\ k \in ToSet(After(t[i], next))) \/ (k \in S /\ IndexFor(n, k) > i))
    BY BehindMembers
  <2>2. k \in BehindIn(t2, next, i) <=>
          ((next # NULL /\ k \in ToSet(After(c, next))) \/ (k \in S2 /\ IndexFor(n, k) > i))
    BY <1>3, BehindMembers
  <2>3. k \in BehindIn(t, e, i) <=>
          (k \in ToSet(After(t[i], e)) \/ (k \in S /\ IndexFor(n, k) > i))
    BY <1>1, BehindMembers
  <2>4. (k \in S /\ IndexFor(n, k) > i) <=> (k \in S2 /\ IndexFor(n, k) > i)
    BY <1>1
  <2>5. k \in BehindIn(t, e, i) => k # e
    BY <1>1, <1>9, <2>3
  <2>6. next # NULL => (k \in ToSet(After(c, next)) <=> (k \in ToSet(After(t[i], next)) /\ k # e))
    BY <1>6, <1>7
  <2> QED BY <1>4, <1>5, <2>1, <2>2, <2>4, <2>5, <2>6
<1> QED BY <1>4, <1>7, <1>8, <1>10 DEF Ahead

LEMMA AfterWithin ==
  ASSUME NEW c \in Chains, NEW k \in ToSet(c)
  PROVE  \A x : x \in ToSet(After(c, k)) => x \in ToSet(c)
<1>1. PICK p \in 1 .. Len(c) : c[p] = k
  BY ChainFacts
<1>2. \A x : x \in ToSet(After(c, k)) <=> \E q \in p + 1 .. Len(c) : c[q] = x
  BY <1>1, AfterAt
<1>3. \A q \in p + 1 .. Len(c) : q \in 1 .. Len(c)
  BY ChainFacts
<1> QED BY <1>2, <1>3, ChainFacts

LEMMA BehindIrreflexive ==
  ASSUME NEW n, NEW S, NEW t, GoodTable(t, n, S), NEW e \in S, NEW i, i = IndexFor(n, e)
  PROVE  e \notin BehindIn(t, e, i)
<1>1. i \in 0 .. n - 1 /\ e \in Key /\ e # NULL /\ i \in Nat
  BY SlotInRange, HashAssumption DEF GoodTable
<1>2. t[i] \in Chains /\ e \in ToSet(t[i])
  BY <1>1, SlotGood DEF Holds
<1>3. e \notin ToSet(After(t[i], e))
  BY <1>2, AfterIrreflexive
<1> QED BY <1>1, <1>3, BehindMembers

(* What lies behind an entry when another one is taken out. *)
LEMMA BehindOther ==
  ASSUME NEW n, NEW S, NEW t, GoodTable(t, n, S),
         NEW k \in S, NEW i, i = IndexFor(n, k),
         NEW c, c = RemoveAt(t[i], Position(t[i], k)),
         NEW t2, t2 = WithChain(t, i, c), NEW S2, S2 = S \ {k},
         NEW e \in S2, NEW j, j = IndexFor(n, e)
  PROVE  /\ \A x : x \in BehindIn(t2, e, j) <=> (x \in BehindIn(t, e, j) /\ x # k)
         /\ PreviousIn(t[j], e) # k => PreviousIn(t2[j], e) = PreviousIn(t[j], e)
<1>1. i \in 0 .. n - 1 /\ j \in 0 .. n - 1 /\ e # NULL
  BY SlotInRange, HashAssumption DEF GoodTable
<1>2. t[i] \in Chains /\ k \in ToSet(t[i]) /\ t[j] \in Chains /\ e \in ToSet(t[j])
  BY <1>1, SlotGood DEF Holds
<1>3. GoodTable(t2, n, S2) /\ Replaced(t, t2, n, i, c)
  BY EntryTaken
<1>4. /\ \A x : x \in ToSet(After(t2[j], e)) <=> (x \in ToSet(After(t[j], e)) /\ x # k)
      /\ PreviousIn(t[j], e) # k => PreviousIn(t2[j], e) = PreviousIn(t[j], e)
  <2>1. CASE j = i
    <3>1. /\ c \in Chains
          /\ \A x : x \in ToSet(c) <=> (x \in ToSet(t[i]) /\ x # k)
          /\ \A x \in ToSet(c) :
               /\ \A l : l \in ToSet(After(c, x)) <=> (l \in ToSet(After(t[i], x)) /\ l # k)
               /\ PreviousIn(c, x) = IF PreviousIn(t[i], x) = k THEN PreviousIn(t[i], k)
                                     ELSE PreviousIn(t[i], x)
      BY <1>2, WithoutIs
    <3>2. t2[j] = c /\ e \in ToSet(c)
      BY <1>2, <1>3, <2>1, <3>1 DEF Replaced
    <3> QED BY <2>1, <3>1, <3>2
  <2>2. CASE j # i
    <3>1. t2[j] = t[j]
      BY <1>1, <1>3, <2>2 DEF Replaced
    <3>2. k \notin ToSet(t[j])
      BY <1>1, <2>2, SlotGood DEF Holds
    <3>3. \A x : x \in ToSet(After(t[j], e)) => x \in ToSet(t[j])
      BY <1>2, AfterWithin
    <3> QED BY <3>1, <3>2, <3>3
  <2> QED BY <2>1, <2>2
<1>5. ASSUME NEW x
      PROVE  x \in BehindIn(t2, e, j) <=> (x \in BehindIn(t, e, j) /\ x # k)
  <2>1. x \in BehindIn(t2, e, j) <=>
          (x \in ToSet(After(t2[j], e)) \/ (x \in S2 /\ IndexFor(n, x) > j))
    BY <1>1, <1>3, BehindMembers
  <2>2. x \in BehindIn(t, e, j) <=>
          (x \in ToSet(After(t[j], e)) \/ (x \in S /\ IndexFor(n, x) > j))
    BY <1>1, BehindMembers
  <2> QED BY <1>4, <2>1, <2>2
<1> QED BY <1>4, <1>5

(* A removal through the iterator unlinks its entry, and no other. *)
LEMMA BypassIs ==
  ASSUME NEW c \in Chains, NEW e \in ToSet(c), NEW parent, parent = PreviousIn(c, e)
  PROVE  (IF parent = NULL THEN After(c, e)
          ELSE SubSeq(c, 1, Position(c, parent)) \o After(c, e)) = RemoveAt(c, Position(c, e))
<1>1. PICK p \in 1 .. Len(c) : p = Position(c, e) /\ c[p] = e /\ Len(c) \in Nat
  BY PositionExists, ChainFacts
<1>2. parent = IF p = 1 THEN NULL ELSE c[p - 1]
  BY <1>1, PreviousIs
<1> DEFINE z == After(c, e)
<1>3. RemoveAt(c, Position(c, e)) = SubSeq(c, 1, p - 1) \o z
  BY <1>1 DEF RemoveAt, After
<1>4. z \in Seq(Key)
  <2>1. \A a : a = After(c, c[p]) => a \in Chains
    BY AfterIs
  <2> QED BY <1>1, <2>1 DEF Chains
<1> HIDE DEF z
<1>5. CASE p = 1
  <2>1. SubSeq(c, 1, p - 1) = << >>
    BY <1>5, SubSeqEmpty
  <2> QED BY <1>2, <1>3, <1>4, <1>5, <2>1, ConcatEmptySeq DEF z
<1>6. CASE p # 1
  <2>1. p - 1 \in 1 .. Len(c) /\ parent = c[p - 1] /\ parent # NULL
    BY <1>1, <1>2, <1>6, ChainFacts, HashAssumption, SMTT(40)
  <2>2. Position(c, parent) = p - 1
    BY <2>1, PositionIs
  <2> QED BY <1>3, <2>1, <2>2 DEF z
<1> QED BY <1>5, <1>6

-----------------------------------------------------------------------------
(* The steps. *)

LEMMA SlotsPositive ==
  ASSUME NEW i \in DOMAIN Primes
  PROVE  Primes[i] \in Nat /\ Primes[i] # 0
  BY HashAssumption

FoundIn(t, k) == t # << >> /\ k \in ToSet(t[IndexFor(Cardinality(DOMAIN t), k)])

(* hashtable_search finds what is in the table. *)
LEMMA SearchFinds ==
  ASSUME NEW n, NEW S, NEW t, GoodTable(t, n, S), NEW k \in Key
  PROVE  FoundIn(t, k) <=> k \in S
<1>1. t # << >> /\ Cardinality(DOMAIN t) = n
  BY TableFacts
<1>2. IndexFor(n, k) \in 0 .. n - 1
  BY SlotInRange DEF GoodTable
<1>3. k \in ToSet(t[IndexFor(n, k)]) <=> k \in S
  BY <1>2, SlotGood DEF Holds
<1> QED BY <1>1, <1>3 DEF FoundIn

LEMMA FoundNow ==
  ASSUME HashIInv, Exists
  PROVE  /\ GoodTable(table, Slots, DOMAIN value)
         /\ Length = Slots /\ Slots \in Nat /\ Slots # 0
         /\ \A k \in Key : Found(k) <=> k \in DOMAIN value
<1>1. GoodTable(table, Slots, DOMAIN value)
  BY DEF HashIInv
<1>2. \A k \in Key : FoundIn(table, k) <=> k \in DOMAIN value
  BY <1>1, SearchFinds
<1>3. \A k \in Key : Found(k) <=> FoundIn(table, k)
  BY DEF Found, FoundIn, Exists, Chain, Length
<1>4. Length = Slots
  BY <1>1, TableFacts DEF Length
<1> QED BY <1>1, <1>2, <1>3, <1>4 DEF GoodTable

(* The values after an insertion and after a removal. *)
LEMMA ContentsAdded ==
  ASSUME NEW v, NEW count, GoodContents(v, count), NEW k \in Key, k \notin DOMAIN v,
         NEW x \in Value, NEW w, w = [j \in DOMAIN v \cup {k} |-> IF j = k THEN x ELSE v[j]]
  PROVE  GoodContents(w, count + 1) /\ DOMAIN w = DOMAIN v \cup {k}
<1>1. /\ DOMAIN w = DOMAIN v \cup {k} /\ w = [j \in DOMAIN w |-> w[j]]
      /\ w[k] = x /\ \A j \in DOMAIN v : w[j] = v[j]
  OBVIOUS
<1>2. IsFiniteSet(DOMAIN v \cup {k}) /\ Cardinality(DOMAIN v \cup {k}) = Cardinality(DOMAIN v) + 1
  BY FS_AddElement DEF GoodContents
<1>3. \A j \in DOMAIN w : w[j] \in Value
  BY <1>1 DEF GoodContents
<1> QED BY <1>1, <1>2, <1>3 DEF GoodContents

LEMMA ContentsTaken ==
  ASSUME NEW v, NEW count, GoodContents(v, count), NEW k \in DOMAIN v,
         NEW w, w = [j \in DOMAIN v \ {k} |-> v[j]]
  PROVE  GoodContents(w, count - 1) /\ DOMAIN w = DOMAIN v \ {k}
<1>1. /\ DOMAIN w = DOMAIN v \ {k} /\ w = [j \in DOMAIN w |-> w[j]]
      /\ \A j \in DOMAIN w : w[j] = v[j]
  OBVIOUS
<1>2. IsFiniteSet(DOMAIN v \ {k}) /\ Cardinality(DOMAIN v \ {k}) = Cardinality(DOMAIN v) - 1
  BY FS_RemoveElement DEF GoodContents
<1> QED BY <1>1, <1>2 DEF GoodContents

LEMMA NothingStored ==
  ASSUME NEW v, v = << >>
  PROVE  GoodContents(v, 0) /\ \A k : k \notin DOMAIN v
<1>1. DOMAIN v = {} /\ v = [k \in DOMAIN v |-> v[k]]
  OBVIOUS
<1> QED BY <1>1, FS_EmptySet DEF GoodContents

LEMMA InitHolds ==
  ASSUME HashInit
  PROVE  HashIInv
<1>1. primeindex \in DOMAIN Primes
  BY HashAssumption DEF HashInit
<1>2. itr \in Iterators /\ ~itr.on /\ itr.e = NULL
  BY DEF HashInit, NoIterator, Iterators, OrNull
<1>3. GoodIterator(table, Slots, DOMAIN value, itr, due)
  BY <1>2 DEF GoodIterator
<1>4. GoodContents(value, entrycount) /\ \A k : k \notin DOMAIN value
  BY NothingStored DEF HashInit
<1> QED BY <1>1, <1>2, <1>3, <1>4 DEF HashInit, HashIInv, Exists

(* An iterator that is off stays good whatever the table is. *)
LEMMA OffIsGood ==
  ASSUME NEW w \in Iterators, ~w.on, w.e # NULL => w.on, NEW t, NEW n, NEW S, NEW d
  PROVE  GoodIterator(t, n, S, w, d)
  BY DEF GoodIterator

LEMMA StepCreate ==
  ASSUME HashIInv, NEW m \in MinSizes, CreateHashtable(m)
  PROVE  HashIInv'
<1>1. ~Exists /\ ~itr.on /\ itr \in Iterators /\ (itr.e # NULL => itr.on)
  BY DEF CreateHashtable, HashIInv, GoodIterator
<1>2. primeindex' \in DOMAIN Primes
  <2> DEFINE Above == {i \in DOMAIN Primes : Primes[i] > m}
  <2>1. m \in Nat /\ DOMAIN Primes \subseteq Nat /\ Above # {} /\ Above \subseteq Nat
    BY HashAssumption
  <2>2. PICK i \in Above : \A j \in Above : i <= j
    <3> HIDE DEF Above
    <3> QED BY <2>1, SmallestOf
  <2>3. i \in DOMAIN Primes /\ Primes[i] > m
    OBVIOUS
  <2>4. \A j \in 1 .. i - 1 : Primes[j] <= m
    <3>1. ASSUME NEW j \in 1 .. i - 1
          PROVE  Primes[j] <= m
      <4>1. DOMAIN Primes = 1 .. Len(Primes) /\ Len(Primes) \in Nat
        BY HashAssumption
      <4>2. j \in DOMAIN Primes /\ ~(i <= j)
        BY <2>3, <4>1
      <4>3. j \notin Above
        BY <2>2, <4>2
      <4>4. Primes[j] \in Nat
        BY <4>2, SlotsPositive
      <4> QED BY <2>1, <4>2, <4>3, <4>4
    <3> QED BY <3>1
  <2>5. FirstAbove(m) \in DOMAIN Primes
    BY <2>3, <2>4 DEF FirstAbove
  <2> QED BY <2>5 DEF CreateHashtable
<1>3. GoodContents(value', entrycount') /\ \A k : k \notin DOMAIN value'
  BY NothingStored DEF CreateHashtable
<1>4. GoodTable(table', Slots', DOMAIN value')
  <2>1. table' = EmptyTable(Slots')
    BY DEF CreateHashtable, Slots
  <2>2. Slots' \in Nat /\ Slots' # 0
    BY <1>2, SlotsPositive DEF Slots
  <2> QED BY <1>3, <2>1, <2>2, EmptyGood
<1>5. GoodIterator(table', Slots', DOMAIN value', itr', due')
  BY <1>1, OffIsGood DEF CreateHashtable
<1>6. Exists'
  BY <1>4, TableFacts DEF Exists
<1> QED BY <1>2, <1>3, <1>4, <1>5, <1>6 DEF CreateHashtable, HashIInv

LEMMA StepDestroy ==
  ASSUME HashIInv, HashtableDestroy
  PROVE  HashIInv'
<1>1. ~itr.on /\ itr \in Iterators /\ (itr.e # NULL => itr.on)
  BY DEF HashtableDestroy, HashIInv, GoodIterator
<1>2. GoodContents(value', entrycount') /\ \A k : k \notin DOMAIN value'
  BY NothingStored DEF HashtableDestroy
<1>3. GoodIterator(table', Slots', DOMAIN value', itr', due')
  BY <1>1, OffIsGood DEF HashtableDestroy
<1> QED BY <1>1, <1>2, <1>3 DEF HashtableDestroy, HashIInv, Exists, sizing

(* The table, grown or not, takes the new entry or does without it. *)
LEMMA InsertInto ==
  ASSUME HashIInv, Exists, ~itr.on, UNCHANGED <<itr, due>>, NEW k \in Key, k \notin DOMAIN value,
         NEW v \in Value, NEW t, primeindex' \in DOMAIN Primes,
         GoodTable(t, Slots', DOMAIN value), HasInserted(t, k, v) \/ InsertFails(t)
  PROVE  HashIInv'
<1>1. GoodIterator(table', Slots', DOMAIN value', itr', due')
  BY OffIsGood DEF HashIInv, GoodIterator
<1>2. CASE HasInserted(t, k, v)
  <2>1. GoodContents(value', entrycount + 1) /\ DOMAIN value' = DOMAIN value \cup {k}
    BY <1>2, ContentsAdded DEF HasInserted, HashIInv
  <2>2. GoodTable(table', Slots', DOMAIN value')
    BY <1>2, <2>1, EntryLinked DEF HasInserted
  <2>3. Exists'
    BY <2>2, TableFacts DEF Exists
  <2>4. entrycount' = entrycount + 1 /\ outcome' = "inserted"
    BY <1>2 DEF HasInserted
  <2> QED BY <1>1, <2>1, <2>2, <2>3, <2>4 DEF HashIInv
<1>3. CASE InsertFails(t)
  <2>1. value' = value /\ entrycount' = entrycount /\ table' = t /\ outcome' = "done"
    BY <1>3 DEF InsertFails
  <2>2. GoodTable(table', Slots', DOMAIN value')
    BY <2>1
  <2>3. Exists'
    BY <2>2, TableFacts DEF Exists
  <2> QED BY <1>1, <2>1, <2>2, <2>3 DEF HashIInv
<1> QED BY <1>2, <1>3

LEMMA StepInsert ==
  ASSUME HashIInv, NEW k \in Key, NEW v \in Value, HashtableInsert(k, v)
  PROVE  HashIInv'
<1>1. Exists /\ ~itr.on /\ UNCHANGED <<itr, due>> /\ k \notin DOMAIN value
  BY FoundNow DEF HashtableInsert
<1>2. CASE UNCHANGED sizing /\ (HasInserted(table, k, v) \/ InsertFails(table))
  <2>1. primeindex' \in DOMAIN Primes /\ Slots' = Slots
    BY <1>2 DEF sizing, Slots, HashIInv
  <2>2. GoodTable(table, Slots', DOMAIN value)
    BY <1>1, <2>1, FoundNow
  <2> QED BY <1>1, <1>2, <2>1, <2>2, InsertInto
<1>3. CASE Expand /\ (\/ HasInserted(Rehashed(Primes[primeindex + 1]), k, v)
                      \/ InsertFails(Rehashed(Primes[primeindex + 1])))
  <2>1. primeindex' = primeindex + 1 /\ primeindex' \in DOMAIN Primes
    BY <1>3, HashAssumption DEF Expand, CanExpand, HashIInv
  <2>2. PICK n : n = Primes[primeindex + 1] /\ n = Slots'
    BY <2>1 DEF Slots
  <2>3. n \in Nat /\ n # 0
    BY <2>1, <2>2, SlotsPositive
  <2>4. GoodTable(Rehashed(n), n, DOMAIN value)
    <3>1. IsFiniteSet(DOMAIN value) /\ GoodTable(table, Slots, DOMAIN value)
      BY <1>1 DEF HashIInv, GoodContents
    <3> QED BY <2>3, <3>1, RehashedGood
  <2>5. GoodTable(Rehashed(n), Slots', DOMAIN value)
    BY <2>2, <2>4
  <2>6. HasInserted(Rehashed(n), k, v) \/ InsertFails(Rehashed(n))
    BY <1>3, <2>2
  <2> QED BY <1>1, <2>1, <2>5, <2>6, InsertInto
<1> QED BY <1>2, <1>3 DEF HashtableInsert

(* Where the iterator is. *)
LEMMA AtEntry ==
  ASSUME HashIInv, itr.e # NULL
  PROVE  /\ Exists /\ itr.on /\ itr.e \in Key /\ itr \in Iterators
         /\ Dangling <=> itr.e \notin DOMAIN value
         /\ ~Dangling => GoodWalk(table, Slots, DOMAIN value, itr, due)
         /\ Dangling => GoodRest(table, Slots, DOMAIN value, itr, due)
<1>1. itr.on /\ itr \in Iterators /\ Exists
  BY DEF HashIInv, GoodIterator
<1>2. itr.e \in Key
  BY <1>1 DEF Iterators, OrNull
<1>3. Dangling <=> itr.e \notin DOMAIN value
  BY <1>1, <1>2, FoundNow DEF Dangling
<1>4. \/ GoodWalk(table, Slots, DOMAIN value, itr, due)
      \/ GoodRest(table, Slots, DOMAIN value, itr, due)
  BY <1>1 DEF HashIInv, GoodIterator
<1> QED BY <1>1, <1>2, <1>3, <1>4 DEF GoodWalk, GoodRest

(* A removal leaves the iterator where it was, or at the freed entry. *)
LEMMA WalkKept ==
  ASSUME NEW n, NEW S, NEW t, GoodTable(t, n, S),
         NEW w, NEW d, GoodWalk(t, n, S, w, d),
         NEW k \in S, w.e # k, NEW i, i = IndexFor(n, k),
         NEW c, c = RemoveAt(t[i], Position(t[i], k)),
         NEW t2, t2 = WithChain(t, i, c), NEW S2, S2 = S \ {k}, NEW d2, d2 = d \ {k}
  PROVE  GoodWalk(t2, n, S2, w, d2)
<1>1. CASE w.e = NULL
  BY <1>1 DEF GoodWalk
<1>2. CASE w.e # NULL
  <2>1. PICK e \in S2 : e = w.e
    BY <1>2 DEF GoodWalk
  <2>2. w.index = IndexFor(n, e) /\ d = BehindIn(t, e, w.index)
    BY <1>2, <2>1 DEF GoodWalk
  <2>3. PICK j : j = w.index
    OBVIOUS
  <2>4. /\ \A x : x \in BehindIn(t2, e, j) <=> (x \in BehindIn(t, e, j) /\ x # k)
        /\ PreviousIn(t[j], e) # k => PreviousIn(t2[j], e) = PreviousIn(t[j], e)
    BY <2>2, <2>3, BehindOther
  <2>5. d2 = BehindIn(t2, e, w.index)
    BY <2>2, <2>3, <2>4
  <2>6. ASSUME w.parent = NULL \/ w.parent \in S2
        PROVE  w.parent = PreviousIn(t2[w.index], e)
    <3>1. w.parent # k
      BY <2>6, HashAssumption DEF GoodTable
    <3>2. w.parent = PreviousIn(t[j], e)
      BY <1>2, <2>1, <2>3, <2>6 DEF GoodWalk
    <3> QED BY <2>3, <2>4, <3>1, <3>2
  <2> QED BY <1>2, <2>1, <2>2, <2>5, <2>6 DEF GoodWalk
<1> QED BY <1>1, <1>2

LEMMA WalkFreed ==
  ASSUME NEW n, NEW S, NEW t, GoodTable(t, n, S),
         NEW w, NEW d, GoodWalk(t, n, S, w, d),
         NEW k \in S, w.e = k, NEW i, i = IndexFor(n, k),
         NEW c, c = RemoveAt(t[i], Position(t[i], k)),
         NEW t2, t2 = WithChain(t, i, c), NEW S2, S2 = S \ {k}, NEW d2, d2 = d \ {k},
         NEW w2, w2 = [w EXCEPT !.link = NextIn(t[i], k)]
  PROVE  GoodRest(t2, n, S2, w2, d2)
<1>1. k \in Key /\ k # NULL /\ i \in 0 .. n - 1 /\ w \in Iterators /\ w.on
  BY SlotInRange, HashAssumption DEF GoodTable, GoodWalk
<1>2. w.index = i /\ d = BehindIn(t, k, i)
  BY <1>1 DEF GoodWalk
<1>3. PICK next : next = NextIn(t[i], k)
  OBVIOUS
<1>4. /\ next # NULL => next \in S2 /\ IndexFor(n, next) = i
      /\ Ahead(t2, next, i, BehindIn(t, k, i))
  BY <1>3, BehindTaken
<1>5. next \in OrNull
  BY <1>4 DEF GoodTable, OrNull
<1>6. /\ w2 \in Iterators /\ w2.on /\ w2.e = k /\ w2.index = i /\ w2.link = next
  BY <1>1, <1>2, <1>3, <1>5 DEF Iterators
<1>7. k \notin d
  BY <1>2, BehindIrreflexive
<1>8. d2 = BehindIn(t2, next, i) \cup ({next} \ {NULL})
  BY <1>2, <1>4, <1>7 DEF Ahead
<1> QED BY <1>1, <1>4, <1>6, <1>8 DEF GoodRest

LEMMA UnlinkTakes ==
  ASSUME HashIInv, NEW k \in Key, Found(k)
  PROVE  /\ Exists /\ k \in DOMAIN value
         /\ LET i == IndexFor(Slots, k)
            IN  Unlink(k) = WithChain(table, i, RemoveAt(table[i], Position(table[i], k)))
<1>1. Exists
  BY DEF Found
<1>2. k \in DOMAIN value /\ Length = Slots
  BY <1>1, FoundNow
<1>3. GoodTable(table, Slots, DOMAIN value)
  BY <1>1, FoundNow
<1>4. IndexFor(Slots, k) \in DOMAIN table
  BY <1>3, SlotInRange, TableFacts DEF GoodTable
<1> QED BY <1>1, <1>2, <1>4 DEF Unlink, WithChain

LEMMA StepRemove ==
  ASSUME HashIInv, NEW k \in Key, HashtableRemove(k)
  PROVE  HashIInv'
<1>1. PICK i : i = IndexFor(Slots, k)
  OBVIOUS
<1>2. PICK c : c = RemoveAt(table[i], Position(table[i], k))
  OBVIOUS
<1>3. /\ Exists /\ k \in DOMAIN value
      /\ table' = WithChain(table, i, c)
      /\ GoodTable(table, Slots, DOMAIN value)
  BY <1>1, <1>2, UnlinkTakes, FoundNow DEF HashtableRemove
<1>4. /\ value' = Forget(k) /\ entrycount' = entrycount - 1 /\ due' = due \ {k}
      /\ itr' = IF itr.e = k THEN [itr EXCEPT !.link = NextIn(Chain(k), k)] ELSE itr
      /\ outcome' = "done" /\ primeindex' = primeindex /\ Slots' = Slots
      /\ ~Dangling
  BY DEF HashtableRemove, sizing, Slots
<1>5. GoodContents(value', entrycount') /\ DOMAIN value' = DOMAIN value \ {k}
  BY <1>3, <1>4, ContentsTaken DEF Forget, HashIInv
<1>6. GoodTable(table', Slots, DOMAIN value')
  BY <1>1, <1>2, <1>3, <1>5, EntryTaken
<1>7. k # NULL /\ Chain(k) = table[i]
  BY <1>1, <1>3, FoundNow, HashAssumption DEF Chain
<1>8. GoodIterator(table', Slots, DOMAIN value', itr', due')
  <2>1. CASE ~itr.on
    <3>1. itr.e = NULL /\ itr' = itr /\ itr \in Iterators
      BY <1>4, <1>7, <2>1 DEF HashIInv, GoodIterator
    <3> QED BY <2>1, <3>1, OffIsGood
  <2>2. CASE itr.on
    <3>1. GoodWalk(table, Slots, DOMAIN value, itr, due)
      BY <1>4, <2>2, AtEntry DEF HashIInv, GoodIterator, GoodRest
    <3>2. CASE itr.e # k
      <4>1. GoodWalk(table', Slots, DOMAIN value', itr, due')
        BY <1>1, <1>2, <1>3, <1>4, <1>5, <3>1, <3>2, WalkKept
      <4> QED BY <1>4, <3>2, <4>1 DEF GoodIterator, GoodWalk
    <3>3. CASE itr.e = k
      <4>1. itr' = [itr EXCEPT !.link = NextIn(table[i], k)]
        BY <1>4, <1>7, <3>3
      <4>2. GoodRest(table', Slots, DOMAIN value', itr', due')
        BY <1>1, <1>2, <1>3, <1>4, <1>5, <3>1, <3>3, <4>1, WalkFreed, SMTT(40)
      <4> QED BY <4>2 DEF GoodIterator, GoodRest
    <3> QED BY <3>2, <3>3
  <2> QED BY <2>1, <2>2
<1>9. Exists'
  BY <1>6, TableFacts DEF Exists
<1> QED BY <1>4, <1>5, <1>6, <1>8, <1>9 DEF HashIInv

LEMMA StepChange ==
  ASSUME HashIInv, NEW k \in Key, NEW v \in Value, HashtableChange(k, v)
  PROVE  HashIInv'
<1>1. /\ value' = [value EXCEPT ![k] = v] /\ outcome' = "done"
      /\ UNCHANGED <<table, entrycount, primeindex, itr, due>>
  BY DEF HashtableChange, sizing
<1>2. DOMAIN value' = DOMAIN value /\ GoodContents(value', entrycount)
  BY <1>1 DEF HashIInv, GoodContents
<1> QED BY <1>1, <1>2 DEF HashIInv, Exists, Slots

LEMMA StepIterator ==
  ASSUME HashIInv, HashtableIterator
  PROVE  HashIInv'
<1>1. /\ Exists /\ outcome' = "done" /\ UNCHANGED <<table, value, entrycount, primeindex>>
      /\ itr' = IF entrycount = 0 THEN Iterator(NULL, NULL, Length) ELSE HeadFrom(table, 0)
      /\ due' = DOMAIN value \ {itr'.e}
  BY DEF HashtableIterator, contents, sizing
<1>2. GoodTable(table, Slots, DOMAIN value) /\ Length = Slots /\ Slots \in Nat
  BY <1>1, FoundNow
<1>3. GoodWalk(table, Slots, DOMAIN value, itr', due')
  <2>1. CASE entrycount = 0
    <3>1. DOMAIN value = {}
      BY <2>1, FS_EmptySet DEF HashIInv, GoodContents
    <3>2. itr' = Iterator(NULL, NULL, Slots)
      BY <1>1, <1>2, <2>1
    <3>3. itr' \in Iterators /\ itr'.on /\ itr'.e = NULL
      BY <1>2, <3>2, IteratorFields DEF OrNull
    <3> QED BY <1>1, <3>1, <3>3 DEF GoodWalk
  <2>2. CASE entrycount # 0
    <3>1. PICK z \in Nat : z = 0
      OBVIOUS
    <3>2. itr' = HeadFrom(table, z)
      BY <1>1, <2>2, <3>1
    <3>3. FromSlot(Slots, DOMAIN value, z, DOMAIN value)
      <4>1. \A k \in DOMAIN value : IndexFor(Slots, k) \in Nat
        BY <1>2, SlotInRange DEF GoodTable
      <4> QED BY <3>1, <4>1 DEF FromSlot
    <3> QED BY <1>1, <1>2, <3>2, <3>3, HeadFromGood
  <2> QED BY <2>1, <2>2
<1>4. GoodIterator(table, Slots, DOMAIN value, itr', due')
  BY <1>3 DEF GoodIterator, GoodWalk
<1> QED BY <1>1, <1>4 DEF HashIInv, Exists, Slots

LEMMA StepFree ==
  ASSUME HashIInv, FreeIterator
  PROVE  HashIInv'
<1>1. /\ itr' = NoIterator /\ outcome' = "done" /\ itr.on
      /\ UNCHANGED <<table, value, entrycount, primeindex>>
  BY DEF FreeIterator, contents, sizing
<1>2. itr' \in Iterators /\ ~itr'.on /\ itr'.e = NULL
  BY <1>1 DEF NoIterator, Iterators, OrNull
<1>3. GoodIterator(table, Slots, DOMAIN value, itr', due')
  BY <1>2 DEF GoodIterator
<1> QED BY <1>1, <1>2, <1>3 DEF HashIInv, Exists, Slots

LEMMA StepAdvance ==
  ASSUME HashIInv, HashtableIteratorAdvance
  PROVE  HashIInv'
<1>1. /\ itr.e # NULL /\ ~Dangling /\ outcome' = "done"
      /\ itr' = Advanced(table, itr.e, NextIn(table[itr.index], itr.e))
      /\ due' = due \ {itr'.e}
      /\ UNCHANGED <<table, value, entrycount, primeindex>>
  BY DEF HashtableIteratorAdvance, contents, sizing
<1>2. /\ Exists /\ itr.e \in DOMAIN value /\ itr.e \in Key
      /\ GoodWalk(table, Slots, DOMAIN value, itr, due)
      /\ GoodTable(table, Slots, DOMAIN value)
  BY <1>1, AtEntry, FoundNow
<1>3. PICK e \in DOMAIN value : e = itr.e /\ e \in Key /\ e # NULL
  BY <1>1, <1>2
<1>4. PICK i : i = itr.index /\ i = IndexFor(Slots, e) /\ i \in 0 .. Slots - 1
  BY <1>2, <1>3, SlotInRange DEF GoodWalk, GoodTable
<1>5. PICK next : next = NextIn(table[i], e)
  OBVIOUS
<1>6. due = BehindIn(table, e, i)
  BY <1>2, <1>3, <1>4 DEF GoodWalk
<1>7. /\ next # NULL => next \in DOMAIN value /\ IndexFor(Slots, next) = i /\ next # e
      /\ next # NULL => PreviousIn(table[i], next) = e
      /\ Ahead(table, next, i, due)
  BY <1>2, <1>4, <1>5, <1>6, BehindNext
<1>8. itr' = Advanced(table, e, next)
  BY <1>1, <1>3, <1>4, <1>5
<1>9. CameTo(table, Slots, DOMAIN value, e, i, next, itr', due')
  BY <1>1, <1>2, <1>3, <1>4, <1>7, <1>8, AdvancedGood
<1>10. GoodWalk(table, Slots, DOMAIN value, itr', due')
  BY <1>7, <1>9 DEF GoodWalk, CameTo
<1>11. GoodIterator(table, Slots, DOMAIN value, itr', due')
  BY <1>10 DEF GoodIterator, GoodWalk
<1> QED BY <1>1, <1>11 DEF HashIInv, Exists, Slots

LEMMA StepFromFreed ==
  ASSUME HashIInv, AdvanceFromFreed
  PROVE  HashIInv'
<1>1. Dangling /\ itr.e # NULL /\ UNCHANGED <<table, value, entrycount, primeindex>>
  BY DEF AdvanceFromFreed, Dangling, contents, sizing
<1>2. /\ Exists /\ itr.e \notin DOMAIN value /\ itr.e \in Key
      /\ GoodRest(table, Slots, DOMAIN value, itr, due)
      /\ GoodTable(table, Slots, DOMAIN value)
  BY <1>1, AtEntry, FoundNow
<1>3. CASE outcome' = "undefined" /\ UNCHANGED <<itr, due>>
  BY <1>1, <1>3 DEF HashIInv, Exists, Slots
<1>4. CASE itr' = Advanced(table, itr.e, itr.link) /\ due' = due \ {itr'.e} /\ outcome' = "done"
  <2>1. PICK e \in Key : e = itr.e /\ e \notin DOMAIN value /\ e # NULL
    BY <1>1, <1>2
  <2>2. PICK i : i = itr.index /\ i \in 0 .. Slots - 1
    BY <1>2 DEF GoodRest
  <2>3. PICK next : next = itr.link
    OBVIOUS
  <2>4. /\ next # NULL => next \in DOMAIN value /\ IndexFor(Slots, next) = i
        /\ due = BehindIn(table, next, i) \cup ({next} \ {NULL})
    BY <1>2, <2>2, <2>3 DEF GoodRest
  <2>5. Ahead(table, next, i, due)
    BY <2>4 DEF Ahead
  <2>6. itr' = Advanced(table, e, next)
    BY <1>4, <2>1, <2>3
  <2>7. CameTo(table, Slots, DOMAIN value, e, i, next, itr', due')
    BY <1>2, <1>4, <2>2, <2>4, <2>5, <2>6, AdvancedGood
  <2>8. GoodWalk(table, Slots, DOMAIN value, itr', due')
    BY <2>1, <2>4, <2>7 DEF GoodWalk, CameTo
  <2>9. GoodIterator(table, Slots, DOMAIN value, itr', due')
    BY <2>8 DEF GoodIterator, GoodWalk
  <2> QED BY <1>1, <1>2, <1>4, <2>9 DEF HashIInv, Exists, Slots
<1> QED BY <1>3, <1>4 DEF AdvanceFromFreed

LEMMA StepIteratorRemove ==
  ASSUME HashIInv, HashtableIteratorRemove
  PROVE  HashIInv'
<1>1. /\ itr.e # NULL /\ ~Dangling /\ outcome' = "done"
      /\ itr.parent # NULL => Found(itr.parent)
      /\ table' = [table EXCEPT ![itr.index] = Bypassed]
      /\ value' = Forget(itr.e) /\ entrycount' = entrycount - 1
      /\ itr' = Corrected(Advanced(table', itr.e, NextIn(table[itr.index], itr.e)))
      /\ due' = due \ {itr'.e}
      /\ primeindex' = primeindex /\ Slots' = Slots
  BY DEF HashtableIteratorRemove, sizing, Slots
<1>2. /\ Exists /\ itr.e \in DOMAIN value /\ itr.e \in Key /\ itr \in Iterators
      /\ GoodWalk(table, Slots, DOMAIN value, itr, due)
      /\ GoodTable(table, Slots, DOMAIN value)
  BY <1>1, AtEntry, FoundNow
<1>3. PICK e \in DOMAIN value : e = itr.e /\ e \in Key /\ e # NULL
  BY <1>1, <1>2
<1>4. PICK i : i = itr.index /\ i = IndexFor(Slots, e) /\ i \in 0 .. Slots - 1
  BY <1>2, <1>3, SlotInRange DEF GoodWalk, GoodTable
<1>5. PICK c : c = RemoveAt(table[i], Position(table[i], e))
  OBVIOUS
<1>6. PICK p : p = itr.parent
  OBVIOUS
<1>7. p = PreviousIn(table[i], e)
  <2>1. p = NULL \/ p \in DOMAIN value
    BY <1>1, <1>2, <1>6, FoundNow DEF Iterators, OrNull
  <2> QED BY <1>2, <1>3, <1>4, <1>6, <2>1 DEF GoodWalk
<1>8. table[i] \in Chains /\ e \in ToSet(table[i]) /\ DOMAIN table = 0 .. Slots - 1
  BY <1>2, <1>4, SlotGood, TableFacts DEF Holds
<1>9. Bypassed = c
  BY <1>3, <1>4, <1>5, <1>6, <1>7, <1>8, BypassIs DEF Bypassed
<1>10. table' = WithChain(table, i, c)
  BY <1>1, <1>4, <1>9 DEF WithChain
<1>11. GoodContents(value', entrycount') /\ DOMAIN value' = DOMAIN value \ {e}
  BY <1>1, <1>3, ContentsTaken DEF Forget, HashIInv
<1>12. GoodTable(table', Slots, DOMAIN value')
  BY <1>2, <1>4, <1>5, <1>10, <1>11, EntryTaken
<1>13. PICK next : next = NextIn(table[i], e)
  OBVIOUS
<1>14. due = BehindIn(table, e, i)
  BY <1>2, <1>3, <1>4 DEF GoodWalk
<1>15. /\ next # NULL => /\ next \in DOMAIN value' /\ IndexFor(Slots, next) = i
                         /\ PreviousIn(table'[i], next) = PreviousIn(table[i], e)
       /\ Ahead(table', next, i, due)
  BY <1>2, <1>4, <1>5, <1>10, <1>11, <1>13, <1>14, BehindTaken
<1>16. PICK w : w = Advanced(table', e, next)
  OBVIOUS
<1>17. itr' = Corrected(w)
  BY <1>1, <1>3, <1>4, <1>13, <1>16
<1>18. itr' = IF w.parent = e THEN [w EXCEPT !.parent = p] ELSE w
  BY <1>3, <1>6, <1>17 DEF Corrected
<1>19. PICK d2 : d2 = due \ {w.e}
  OBVIOUS
<1>20. CameTo(table', Slots, DOMAIN value', e, i, next, w, d2)
  BY <1>3, <1>4, <1>12, <1>15, <1>16, <1>19, AdvancedGood
<1>21. GoodWalk(table', Slots, DOMAIN value', itr', due')
  <2>1. CASE next = NULL
    <3>1. itr' = w /\ due' = d2
      BY <1>1, <1>3, <1>18, <1>19, <1>20, <2>1 DEF CameTo
    <3> QED BY <1>20, <2>1, <3>1 DEF CameTo
  <2>2. CASE next # NULL
    <3>1. p \in OrNull
      BY <1>2, <1>6 DEF Iterators
    <3>2. /\ itr' \in Iterators /\ itr'.on /\ itr'.e = next /\ itr'.index = i /\ itr'.parent = p
      BY <1>18, <1>20, <2>2, <3>1 DEF Iterators, CameTo
    <3>3. due' = d2
      BY <1>1, <1>19, <1>20, <2>2, <3>2 DEF CameTo
    <3> QED BY <1>7, <1>15, <1>20, <2>2, <3>2, <3>3 DEF GoodWalk, CameTo
  <2> QED BY <2>1, <2>2
<1>22. GoodIterator(table', Slots, DOMAIN value', itr', due')
  BY <1>21 DEF GoodIterator, GoodWalk
<1>23. Exists'
  BY <1>12, TableFacts DEF Exists
<1> QED BY <1>1, <1>11, <1>12, <1>22, <1>23 DEF HashIInv

LEMMA StepSearch ==
  ASSUME HashIInv, NEW k \in Key, HashtableIteratorSearch(k)
  PROVE  HashIInv'
<1>1. /\ itr.on /\ Found(k) /\ outcome' = "done"
      /\ itr' = Iterator(k, PreviousIn(Chain(k), k), IndexFor(Length, k))
      /\ due' = Behind(k, IndexFor(Length, k))
      /\ UNCHANGED <<table, value, entrycount, primeindex>>
  BY DEF HashtableIteratorSearch, contents, sizing
<1>2. Exists /\ k \in DOMAIN value /\ k # NULL /\ GoodTable(table, Slots, DOMAIN value)
      /\ Length = Slots
  BY <1>1, FoundNow, HashAssumption DEF Found
<1>3. PICK i : i = IndexFor(Slots, k) /\ i \in 0 .. Slots - 1 /\ i \in Nat
  BY <1>2, SlotInRange DEF GoodTable
<1>4. PICK p : p = PreviousIn(table[i], k)
  OBVIOUS
<1>5. p \in OrNull
  <2>1. table[i] \in Chains /\ k \in ToSet(table[i])
    BY <1>2, <1>3, SlotGood DEF Holds
  <2>2. PICK q \in 1 .. Len(table[i]) : table[i][q] = k
    BY <2>1, ChainFacts
  <2>3. p = IF q = 1 THEN NULL ELSE table[i][q - 1]
    BY <1>4, <2>1, <2>2, PreviousIs
  <2>4. q # 1 => q - 1 \in 1 .. Len(table[i])
    BY <2>1, ChainFacts
  <2>5. q # 1 => table[i][q - 1] \in Key
    BY <2>1, <2>4, ChainFacts
  <2> QED BY <2>3, <2>5 DEF OrNull
<1>6. itr' = Iterator(k, p, i)
  BY <1>1, <1>2, <1>3, <1>4 DEF Chain
<1>7. itr' \in Iterators /\ itr'.on /\ itr'.e = k /\ itr'.index = i /\ itr'.parent = p
  BY <1>3, <1>5, <1>6, IteratorFields DEF OrNull
<1>8. due' = BehindIn(table, k, i)
  BY <1>1, <1>2, <1>3 DEF Behind, BehindIn
<1>9. GoodWalk(table, Slots, DOMAIN value, itr', due')
  BY <1>2, <1>3, <1>4, <1>7, <1>8 DEF GoodWalk
<1>10. GoodIterator(table, Slots, DOMAIN value, itr', due')
  BY <1>9 DEF GoodIterator, GoodWalk
<1> QED BY <1>1, <1>10 DEF HashIInv, Exists, Slots

LEMMA StepPlanB ==
  ASSUME HashIInv, NEW k \in Key, HashtableInsertPlanB(k)
  PROVE  HashIInv'
<1>1. /\ outcome' = "undefined"
      /\ UNCHANGED <<table, value, entrycount, primeindex, itr, due>>
  BY DEF HashtableInsertPlanB, contents, sizing
<1> QED BY <1>1 DEF HashIInv, Exists, Slots

LEMMA NextKeeps ==
  ASSUME HashIInv, [HashNext]_hashVars
  PROVE  HashIInv'
<1>1. CASE UNCHANGED hashVars
  BY <1>1 DEF HashIInv, hashVars, Exists, Slots
<1>2. CASE HashNext
  BY <1>2, StepCreate, StepDestroy, StepInsert, StepChange, StepPlanB, StepRemove,
     StepSearch, StepIterator, StepFree, StepAdvance, StepFromFreed, StepIteratorRemove
     DEF HashNext
<1> QED BY <1>1, <1>2

-----------------------------------------------------------------------------
(* The inductive invariant holds: the values are those of at most Key, the *)
(* table is good for exactly their keys, and the iterator stands at an     *)
(* entry with what is due behind it, or at a freed one with its link.      *)
THEOREM HashInductive == HashSpec => []HashIInv
<1>1. HashInit => HashIInv
  BY InitHolds
<1>2. HashIInv /\ [HashNext]_hashVars => HashIInv'
  BY NextKeeps
<1> QED BY <1>1, <1>2, PTL DEF HashSpec

(* However often the table has grown, or failed to, every entry is in the  *)
(* chain its hash selects and in no other, and the count is right:         *)
(* hashtable_expand and hashtable_insert of src/c-hashtable/hashtable.c.   *)
THEOREM EntriesStayInTheirChains == HashSpec => []EntriesInTheirChains
<1>1. ASSUME HashIInv PROVE EntriesInTheirChains
  <2>1. SUFFICES ASSUME Exists
                 PROVE  /\ Length = Primes[primeindex]
                        /\ entrycount = Cardinality(DOMAIN value)
                        /\ \A k \in DOMAIN value : Found(k)
                        /\ \A i \in DOMAIN table :
                             /\ IsInjective(table[i])
                             /\ \A k \in ToSet(table[i]) : k \in DOMAIN value
                                                           /\ IndexFor(Length, k) = i
    BY DEF EntriesInTheirChains
  <2>2. /\ GoodTable(table, Slots, DOMAIN value)
        /\ Length = Slots
        /\ \A k \in Key : Found(k) <=> k \in DOMAIN value
    BY <1>1, <2>1, FoundNow
  <2>3. Length = Primes[primeindex] /\ entrycount = Cardinality(DOMAIN value)
        /\ DOMAIN value \subseteq Key
    BY <1>1, <2>2 DEF Slots, HashIInv, GoodContents
  <2>4. \A k \in DOMAIN value : Found(k)
    BY <2>2, <2>3
  <2>5. ASSUME NEW i \in DOMAIN table
        PROVE  /\ IsInjective(table[i])
               /\ \A k \in ToSet(table[i]) : k \in DOMAIN value /\ IndexFor(Length, k) = i
    <3>1. i \in 0 .. Slots - 1
      BY <2>2, TableFacts
    <3>2. table[i] \in Chains /\ Holds(table[i], Slots, DOMAIN value, i)
      BY <2>2, <3>1, SlotGood
    <3> QED BY <2>2, <3>2 DEF Holds, Chains
  <2> QED BY <2>3, <2>4, <2>5
<1> QED BY <1>1, HashInductive, PTL

(* A walk meets every entry that stays, once, whatever it removes on its   *)
(* way: hashtable_iterator_advance and hashtable_iterator_remove of        *)
(* src/c-hashtable/hashtable_itr.c.                                        *)
THEOREM WalksStayComplete == HashSpec => []WalksMeetAll
<1>1. ASSUME HashIInv PROVE WalksMeetAll
  <2>1. SUFFICES ASSUME itr.on
                 PROVE  CASE itr.e = NULL -> due = {}
                          [] Dangling -> due = Behind(itr.link, itr.index)
                                                 \cup ({itr.link} \ {NULL})
                          [] OTHER -> /\ itr.e \in ToSet(table[itr.index])
                                      /\ due = Behind(itr.e, itr.index)
                                      /\ itr.parent = NULL \/ Found(itr.parent) =>
                                           itr.parent = PreviousIn(table[itr.index], itr.e)
    BY DEF WalksMeetAll
  <2>2. itr.e = NULL => due = {}
    BY <1>1, <2>1 DEF HashIInv, GoodIterator, GoodWalk, GoodRest
  <2>3. itr.e # NULL /\ Dangling =>
          due = Behind(itr.link, itr.index) \cup ({itr.link} \ {NULL})
    BY <1>1, AtEntry DEF GoodRest, Behind, BehindIn
  <2>4. ASSUME itr.e # NULL, ~Dangling
        PROVE  /\ itr.e \in ToSet(table[itr.index])
               /\ due = Behind(itr.e, itr.index)
               /\ itr.parent = NULL \/ Found(itr.parent) =>
                    itr.parent = PreviousIn(table[itr.index], itr.e)
    <3>1. /\ Exists /\ itr.e \in DOMAIN value /\ itr \in Iterators
          /\ GoodWalk(table, Slots, DOMAIN value, itr, due)
          /\ GoodTable(table, Slots, DOMAIN value)
          /\ \A k \in Key : Found(k) <=> k \in DOMAIN value
      BY <1>1, <2>4, AtEntry, FoundNow
    <3>2. itr.e \in ToSet(table[itr.index])
      BY <2>4, <3>1, TableFacts DEF GoodWalk
    <3>3. due = Behind(itr.e, itr.index)
      BY <2>4, <3>1 DEF GoodWalk, Behind, BehindIn
    <3>4. itr.parent = NULL \/ itr.parent \in Key
      BY <3>1 DEF Iterators, OrNull
    <3> QED BY <2>4, <3>1, <3>2, <3>3, <3>4 DEF GoodWalk
  <2>5. Dangling => itr.e # NULL
    BY DEF Dangling
  <2>6. CASE itr.e = NULL
    BY <2>2, <2>5, <2>6
  <2>7. CASE Dangling
    BY <2>3, <2>5, <2>7
  <2>8. CASE itr.e # NULL /\ ~Dangling
    BY <2>4, <2>8
  <2> QED BY <2>6, <2>7, <2>8
<1> QED BY <1>1, HashInductive, PTL

(* What searches see is the stored values. *)
LEMMA RecordsAre ==
  ASSUME NEW t, NEW v, NEW n, NEW count, GoodContents(v, count),
         IF t # << >> THEN GoodTable(t, n, DOMAIN v) ELSE \A k : k \notin DOMAIN v
  PROVE  [k \in {j \in Key : FoundIn(t, j)} |-> v[k]] = v
<1>1. DOMAIN v \subseteq Key /\ v = [k \in DOMAIN v |-> v[k]]
  BY DEF GoodContents
<1>2. \A j \in Key : FoundIn(t, j) <=> j \in DOMAIN v
  <2>1. CASE t # << >>
    BY <2>1, SearchFinds
  <2>2. CASE t = << >>
    BY <2>2 DEF FoundIn
  <2> QED BY <2>1, <2>2
<1>3. {j \in Key : FoundIn(t, j)} = DOMAIN v
  BY <1>1, <1>2
<1> QED BY <1>1, <1>3

Records == [k \in {j \in Key : Found(j)} |-> value[k]]

LEMMA RecordsNow ==
  ASSUME HashIInv
  PROVE  Records = value
<1>1. {j \in Key : Found(j)} = {j \in Key : FoundIn(table, j)}
  BY DEF Found, FoundIn, Exists, Chain, Length
<1>2. [k \in {j \in Key : FoundIn(table, j)} |-> value[k]] = value
  BY RecordsAre DEF HashIInv, Exists
<1> QED BY <1>1, <1>2 DEF Records

LEMMA RecordsNext ==
  ASSUME HashIInv'
  PROVE  Records' = value'
<1>1. Records' = [k \in {j \in Key : FoundIn(table', j)} |-> value'[k]]
  BY DEF Records, Found, FoundIn, Exists, Chain, Length
<1>2. [k \in {j \in Key : FoundIn(table', j)} |-> value'[k]] = value'
  BY RecordsAre DEF HashIInv, Exists
<1> QED BY <1>1, <1>2

(* The steps of the map, said of the stored values. *)
LEMMA MapCalls ==
  ASSUME HashIInv, HashIInv', NEW k \in Key, NEW v \in Value
  PROVE  /\ /\ outcome' = "inserted" /\ k \notin DOMAIN value
            /\ value' = [j \in DOMAIN value \cup {k} |-> IF j = k THEN v ELSE value[j]]
            => Map!MapNext
         /\ /\ outcome' = "done" /\ k \in DOMAIN value
            /\ value' = [j \in DOMAIN value \cup {k} |-> IF j = k THEN v ELSE value[j]]
            => Map!MapNext
<1>1. Records = value /\ Records' = value'
  BY RecordsNow, RecordsNext
<1>2. ASSUME outcome' = "inserted", k \notin DOMAIN value,
             value' = [j \in DOMAIN value \cup {k} |-> IF j = k THEN v ELSE value[j]]
      PROVE  Map!MapInsert(k, v)
  BY <1>1, <1>2 DEF Map!MapInsert, Map!Put, Records
<1>3. ASSUME outcome' = "done", k \in DOMAIN value,
             value' = [j \in DOMAIN value \cup {k} |-> IF j = k THEN v ELSE value[j]]
      PROVE  Map!MapModify(k, v)
  BY <1>1, <1>3 DEF Map!MapModify, Map!Put, Records
<1>4. v \in [j \in Key |-> Value][k]
  OBVIOUS
<1> QED BY <1>2, <1>3, <1>4 DEF Map!MapNext

LEMMA MapTakes ==
  ASSUME HashIInv, HashIInv', NEW k \in Key, outcome' = "done", value' = Forget(k)
  PROVE  Map!MapNext
<1>1. Records = value /\ Records' = value'
  BY RecordsNow, RecordsNext
<1>2. Map!MapDelete(k)
  BY <1>1 DEF Map!MapDelete, Map!Without, Records, Forget
<1> QED BY <1>2 DEF Map!MapNext

(* A call that stores nothing stores a value again, or takes out an absent key. *)
LEMMA MapQuiet ==
  ASSUME HashIInv, HashIInv', outcome' = "done", value' = value
  PROVE  Map!MapNext
<1>1. /\ DOMAIN value \subseteq Key /\ value = [j \in DOMAIN value |-> value[j]]
      /\ \A j \in DOMAIN value : value[j] \in Value
  BY DEF HashIInv, GoodContents
<1>2. PICK k \in Key : TRUE
  BY HashAssumption
<1>3. CASE k \in DOMAIN value
  <2>1. value' = [j \in DOMAIN value \cup {k} |-> IF j = k THEN value[k] ELSE value[j]]
    BY <1>1, <1>3
  <2> QED BY <1>1, <1>3, <2>1, MapCalls
<1>4. CASE k \notin DOMAIN value
  <2>1. value' = Forget(k)
    BY <1>1, <1>4 DEF Forget
  <2> QED BY <2>1, MapTakes
<1> QED BY <1>3, <1>4


LEMMA CallMaps ==
  ASSUME HashIInv, HashNext, HashIInv', Defined'
  PROVE  Map!MapNext \/ Destroyed
<1>1. DOMAIN value \subseteq Key /\ value = [j \in DOMAIN value |-> value[j]]
  BY DEF HashIInv, GoodContents
<1>2. ASSUME NEW m \in MinSizes, CreateHashtable(m)
      PROVE  Map!MapNext
  <2>1. outcome' = "done" /\ value' = << >> /\ \A k : k \notin DOMAIN value
    BY <1>2 DEF CreateHashtable, HashIInv
  <2>2. value' = [j \in DOMAIN value' |-> value'[j]] /\ \A k : k \notin DOMAIN value'
    BY <2>1, NothingStored DEF GoodContents
  <2>3. DOMAIN value = DOMAIN value'
    BY <2>1, <2>2
  <2>4. \A j \in DOMAIN value : value[j] = value'[j]
    BY <2>1
  <2>5. value' = value
    BY <1>1, <2>2, <2>3, <2>4
  <2> QED BY <2>1, <2>5, MapQuiet
<1>3. ASSUME HashtableDestroy
      PROVE  Destroyed
  BY <1>3 DEF HashtableDestroy, Destroyed, Exists
<1>4. ASSUME NEW k \in Key, NEW v \in Value, HashtableInsert(k, v)
      PROVE  Map!MapNext
  <2>1. Exists /\ ~Found(k)
    BY <1>4 DEF HashtableInsert
  <2>2. k \notin DOMAIN value
    BY <2>1, FoundNow
  <2>3. \/ \E t : HasInserted(t, k, v)
        \/ \E t : InsertFails(t)
    BY <1>4 DEF HashtableInsert
  <2>4. CASE \E t : HasInserted(t, k, v)
    BY <2>2, <2>4, MapCalls DEF HasInserted
  <2>5. CASE \E t : InsertFails(t)
    BY <2>5, MapQuiet DEF InsertFails
  <2> QED BY <2>3, <2>4, <2>5
<1>5. ASSUME NEW k \in Key, NEW v \in Value, HashtableChange(k, v)
      PROVE  Map!MapNext
  <2>1. Found(k) /\ Exists /\ outcome' = "done" /\ value' = [value EXCEPT ![k] = v]
    BY <1>5 DEF HashtableChange, Found
  <2>2. k \in DOMAIN value
    BY <2>1, FoundNow
  <2>3. value' = [j \in DOMAIN value \cup {k} |-> IF j = k THEN v ELSE value[j]]
    BY <1>1, <2>1, <2>2
  <2> QED BY <2>1, <2>2, <2>3, MapCalls
<1>6. ASSUME NEW k \in Key, HashtableInsertPlanB(k)
      PROVE  FALSE
  BY <1>6 DEF HashtableInsertPlanB, Defined
<1>7. ASSUME NEW k \in Key, HashtableRemove(k)
      PROVE  Map!MapNext
  BY <1>7, MapTakes DEF HashtableRemove
<1>8. ASSUME NEW k \in Key, HashtableIteratorSearch(k)
      PROVE  Map!MapNext
  BY <1>8, MapQuiet DEF HashtableIteratorSearch, contents
<1>9. ASSUME HashtableIterator \/ FreeIterator \/ HashtableIteratorAdvance
      PROVE  Map!MapNext
  BY <1>9, MapQuiet DEF HashtableIterator, FreeIterator, HashtableIteratorAdvance, contents
<1>10. ASSUME AdvanceFromFreed
       PROVE  Map!MapNext
  BY <1>10, MapQuiet DEF AdvanceFromFreed, contents, Defined
<1>11. ASSUME HashtableIteratorRemove
       PROVE  Map!MapNext
  <2>1. itr.e \in Key /\ outcome' = "done" /\ value' = Forget(itr.e)
    BY <1>11, AtEntry DEF HashtableIteratorRemove
  <2> QED BY <2>1, MapTakes
<1> QED BY <1>2, <1>3, <1>4, <1>5, <1>6, <1>7, <1>8, <1>9, <1>10, <1>11 DEF HashNext

(* Every call whose outcome is defined is one step of the map a client was *)
(* promised, or destroys it: no key is lost or found again when the table  *)
(* grows, and an insertion that fails half way changes nothing a search    *)
(* sees (src/c-hashtable/hashtable.c, hashtable_itr.c).                    *)
THEOREM CallsAreMap == HashSpec => CallsAreMapSteps
<1>1. HashInit => Map!MapInit
  <2>1. ASSUME HashInit
        PROVE  Map!MapInit
    <3>1. HashIInv /\ outcome = "done" /\ value = << >>
      BY <2>1, InitHolds DEF HashInit
    <3>2. Records = [k \in {} |-> 0]
      BY <3>1, RecordsNow
    <3> QED BY <3>1, <3>2 DEF Map!MapInit, Records
  <2> QED BY <2>1
<1>2. HashIInv /\ HashIInv' /\ [HashNext]_hashVars
        => [Defined' => Map!MapNext \/ Destroyed]_<<table, value, outcome>>
  <2>1. CASE UNCHANGED hashVars
    BY <2>1 DEF hashVars
  <2> QED BY <2>1, CallMaps
<1> QED BY <1>1, <1>2, HashInductive, PTL DEF HashSpec, CallsAreMapSteps

=============================================================================
