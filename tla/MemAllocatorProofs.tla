------------------------- MODULE MemAllocatorProofs -------------------------
(***************************************************************************)
(* Safety of the allocator for any number of pages, any page size and any  *)
(* requests: the inductive invariant IInv, the theorems it gives, and the  *)
(* refinement of the object store.                                         *)
(***************************************************************************)
EXTENDS MemAllocator, AllocatorCalls

(* The inductive invariant.  GoodPages and GoodQueue are ChainsGood,       *)
(* QueueSound and QueueSorted with the types they need; a page in memory   *)
(* was initialised; and BasesOK, which is BasesFollowMapping page by page, *)
(* is what keeps a block from being queued twice while a page is walked    *)
(* over.                                                                   *)
WalkOK ==
  \/ walk = NoWalk
  \/ /\ walk \in [fn : {"reinit", "deinit"}, page : mapped, block_itr : Nat]
     /\ walk.block_itr \in DOMAIN vm_page[walk.page]

BasesOK ==
  \A p \in VmPages :
    /\ walk.page # p => BasedAt(vm_page[p], IF p \in mapped THEN p ELSE Unbound)
    /\ walk.page = p /\ walk.fn = "reinit" =>
         /\ Walked(vm_page[p], walk.block_itr, p)
         /\ Unwalked(vm_page[p], walk.block_itr, Unbound)
    /\ walk.page = p /\ walk.fn = "deinit" =>
         /\ Walked(vm_page[p], walk.block_itr, Unbound)
         /\ Unwalked(vm_page[p], walk.block_itr, p)

IInv ==
  /\ GoodPages(VmPages, vm_page)
  /\ GoodQueue(VmPages, vm_page, mapped, free_block_list)
  /\ mapped \subseteq VmPages
  /\ \A p \in mapped : Used(p)
  /\ WalkOK
  /\ BasesOK

(* Between two calls no walk is running. *)
LEMMA IdleIInv ==
  ASSUME GoodPages(VmPages, vm_page),
         GoodQueue(VmPages, vm_page, mapped, free_block_list),
         mapped \subseteq VmPages, walk = NoWalk,
         \A p \in mapped : Used(p),
         \A p \in VmPages : BasedAt(vm_page[p], IF p \in mapped THEN p ELSE Unbound)
  PROVE  IInv
  BY PagesAndRequests DEF IInv, WalkOK, BasesOK, NoWalk

LEMMA IdleBases ==
  ASSUME IInv, walk = NoWalk
  PROVE  \A p \in VmPages : BasedAt(vm_page[p], IF p \in mapped THEN p ELSE Unbound)
  BY PagesAndRequests DEF IInv, BasesOK, NoWalk

LEMMA InitIInv == Init => IInv
<1> SUFFICES ASSUME Init PROVE IInv
  OBVIOUS
<1>1. GoodPages(VmPages, vm_page)
  BY DEF Init, GoodPages
<1>2. GoodQueue(VmPages, vm_page, mapped, free_block_list)
  BY DEF Init, GoodQueue, NoDuplicates, LargestFirst
<1>3. \A p \in VmPages : \A base : BasedAt(vm_page[p], base)
  BY DEF Init, NoChain, BasedAt
<1> QED BY <1>1, <1>2, <1>3, IdleIInv DEF Init

-----------------------------------------------------------------------------
(* The steps: each keeps the invariant; each but the failing request       *)
(* forgets no free memory (Remembered); and each but a successful request  *)
(* and a free leaves the live blocks alone (SameObjects).                  *)
Remembered ==
  Forgotten(VmPages, vm_page', mapped', free_block_list')
    \subseteq Forgotten(VmPages, vm_page, mapped, free_block_list)

SameObjects == LiveSame(VmPages, vm_page, vm_page')

(* allocator_init. *)
LEMMA AllocatorInitStep ==
  ASSUME IInv, NEW p \in VmPages, AllocatorInit(p)
  PROVE  IInv' /\ Remembered /\ SameObjects
<1> DEFINE pages == vm_page'
           maps == mapped'
           list == free_block_list'
<1>1. /\ walk = NoWalk /\ walk' = walk /\ p \notin mapped /\ LiveBlocks(vm_page[p]) = {}
      /\ pages = InitPages(vm_page, p) /\ maps = mapped \cup {p}
      /\ list = InitList(vm_page, free_block_list, p)
  BY DEF AllocatorInit
<1>2. /\ GoodPages(VmPages, vm_page) /\ GoodQueue(VmPages, vm_page, mapped, free_block_list)
      /\ mapped \subseteq VmPages /\ \A q \in mapped : Used(q)
  BY DEF IInv
<1>3. p \in Nat
  BY PagesAndRequests
<1> HIDE DEF pages, maps, list
<1>4. /\ SoundCall(VmPages, vm_page, mapped, free_block_list, pages, maps, list)
      /\ OthersSame(VmPages, p, vm_page, pages)
      /\ FirstBlock \in DOMAIN pages[p]
      /\ BasedAt(pages[p], p)
      /\ \A d : d \notin LiveBlocks(pages[p])
  <2>1. maps = MappedToo(mapped, p)
    BY <1>1 DEF MappedToo
  <2>2. /\ p \notin mapped /\ pages = InitPages(vm_page, p)
        /\ list = InitList(vm_page, free_block_list, p)
    BY <1>1
  <2> QED BY <1>2, <1>3, <2>1, <2>2, InitCall
<1>5. maps \subseteq VmPages /\ \A q \in maps : FirstBlock \in DOMAIN pages[q]
  BY <1>1, <1>2, <1>4 DEF Used, OthersSame
<1>6. \A q \in VmPages : BasedAt(pages[q], IF q \in maps THEN q ELSE Unbound)
  BY <1>1, <1>4, IdleBases DEF OthersSame
<1>7. IInv'
  BY <1>1, <1>4, <1>5, <1>6, PagesAndRequests
     DEF IInv, WalkOK, BasesOK, NoWalk, Used, SoundCall, pages, maps, list
<1>8. SameObjects
  BY <1>1, <1>4, InitKeepsLive DEF SameObjects, pages
<1> QED BY <1>4, <1>7, <1>8 DEF SoundCall, Remembered, pages, maps, list

(* allocator_alloc_mem. *)
LEMMA AllocMemStep ==
  ASSUME IInv, NEW size \in ReqSizes, AllocMem(size)
  PROVE  /\ IInv' /\ Remembered
         /\ \E p, b : LiveDiffer(VmPages, vm_page, p, b, vm_page')
<1> DEFINE pages == vm_page'
           list == free_block_list'
           p == Head(free_block_list)[1]
           b == Head(free_block_list)[2]
<1>1. /\ walk = NoWalk /\ walk' = walk /\ mapped' = mapped
      /\ free_block_list # <<>> /\ FirstFits(vm_page, free_block_list, size)
      /\ pages = AllocPages(vm_page, free_block_list, size)
      /\ list = AllocList(vm_page, free_block_list, size)
  BY DEF AllocMem
<1>2. /\ GoodPages(VmPages, vm_page) /\ GoodQueue(VmPages, vm_page, mapped, free_block_list)
      /\ mapped \subseteq VmPages /\ \A q \in mapped : Used(q)
  BY DEF IInv
<1>3. size \in Nat
  BY PagesAndRequests
<1>4. p = Head(free_block_list)[1] /\ b = Head(free_block_list)[2]
  OBVIOUS
<1> HIDE DEF pages, list, p, b
<1>5. /\ SoundCall(VmPages, vm_page, mapped, free_block_list, pages, mapped, list)
      /\ OthersSame(VmPages, p, vm_page, pages)
      /\ p \in VmPages /\ p \in mapped
      /\ LiveDiffer(VmPages, vm_page, p, b, pages)
      /\ FirstBlock \in DOMAIN pages[p]
      /\ \A base : BasedAt(vm_page[p], base) => BasedAt(pages[p], base)
  BY <1>1, <1>2, <1>3, <1>4, AllocCall
<1>6. \A q \in mapped : FirstBlock \in DOMAIN pages[q]
  BY <1>2, <1>5 DEF Used, OthersSame
<1>7. \A q \in VmPages : BasedAt(pages[q], IF q \in mapped THEN q ELSE Unbound)
  BY <1>1, <1>5, IdleBases DEF OthersSame
<1>8. IInv'
  BY <1>1, <1>2, <1>5, <1>6, <1>7, PagesAndRequests
     DEF IInv, WalkOK, BasesOK, NoWalk, Used, SoundCall, pages, list
<1> QED BY <1>1, <1>5, <1>8 DEF SoundCall, Remembered, pages, list

(* allocator_alloc_mem that returns NULL. *)
LEMMA AllocMemFailsStep ==
  ASSUME IInv, NEW size \in ReqSizes, AllocMemFails(size)
  PROVE  IInv' /\ SameObjects
<1>1. /\ walk = NoWalk /\ walk' = walk /\ mapped' = mapped /\ vm_page' = vm_page
      /\ free_block_list # <<>> /\ free_block_list' = Tail(free_block_list)
  BY DEF AllocMemFails
<1>2. GoodQueue(VmPages, vm_page, mapped, free_block_list)
  BY DEF IInv
<1>3. GoodQueue(VmPages, vm_page, mapped, free_block_list')
  BY <1>1, <1>2, QueueTail
<1> QED BY <1>1, <1>3 DEF IInv, WalkOK, BasesOK, Used, SameObjects, LiveSame

(* allocator_free_mem. *)
LEMMA FreeMemStep ==
  ASSUME IInv, NEW p \in VmPages, NEW b \in LiveBlocks(vm_page[p]), FreeMem(p, b)
  PROVE  /\ IInv' /\ Remembered
         /\ LiveDiffer(VmPages, vm_page', p, b, vm_page)
<1> DEFINE pages == vm_page'
           list == free_block_list'
<1>1. /\ walk = NoWalk /\ walk' = walk /\ mapped' = mapped /\ p \in mapped
      /\ pages = FreePages(vm_page, p, b)
      /\ list = ListAfterFree(vm_page, free_block_list, p, b)
  BY DEF FreeMem
<1>2. /\ GoodPages(VmPages, vm_page) /\ GoodQueue(VmPages, vm_page, mapped, free_block_list)
      /\ mapped \subseteq VmPages /\ \A q \in mapped : Used(q)
  BY DEF IInv
<1>3. BasedAt(vm_page[p], p)
  BY <1>1, IdleBases
<1> HIDE DEF pages, list
<1>4. /\ SoundCall(VmPages, vm_page, mapped, free_block_list, pages, mapped, list)
      /\ OthersSame(VmPages, p, vm_page, pages)
      /\ LiveDiffer(VmPages, pages, p, b, vm_page)
      /\ FirstBlock \in DOMAIN pages[p]
      /\ BasedAt(pages[p], p)
  BY <1>1, <1>2, <1>3, FreeCall
<1>5. \A q \in mapped : FirstBlock \in DOMAIN pages[q]
  BY <1>2, <1>4 DEF Used, OthersSame
<1>6. \A q \in VmPages : BasedAt(pages[q], IF q \in mapped THEN q ELSE Unbound)
  BY <1>1, <1>4, IdleBases DEF OthersSame
<1>7. IInv'
  BY <1>1, <1>2, <1>4, <1>5, <1>6, PagesAndRequests
     DEF IInv, WalkOK, BasesOK, NoWalk, Used, SoundCall, pages, list
<1> QED BY <1>1, <1>4, <1>7 DEF SoundCall, Remembered, pages, list

(* The walks begin at the first block, with no block behind them.  A page  *)
(* that comes back has no block with a base_address yet.                   *)
LEMMA ReinitBeginStep ==
  ASSUME IInv, NEW p \in VmPages, ReinitBegin(p)
  PROVE  IInv' /\ Remembered /\ SameObjects
<1>1. /\ walk = NoWalk /\ p \notin mapped /\ Used(p) /\ mapped' = mapped \cup {p}
      /\ walk' = Walk("reinit", p, FirstBlock)
      /\ vm_page' = vm_page /\ free_block_list' = free_block_list
  BY DEF ReinitBegin
<1>2. /\ GoodPages(VmPages, vm_page) /\ GoodQueue(VmPages, vm_page, mapped, free_block_list)
      /\ mapped \subseteq VmPages /\ \A q \in mapped : Used(q)
  BY DEF IInv
<1>3. \A q \in VmPages : BasedAt(vm_page[q], IF q \in mapped THEN q ELSE Unbound)
  BY <1>1, IdleBases
<1>4. GoodQueue(VmPages, vm_page, mapped', free_block_list)
  <2>1. \A i \in DOMAIN free_block_list : Entry(VmPages, vm_page, mapped', free_block_list[i])
    BY <1>1, <1>2 DEF GoodQueue, Entry
  <2> QED BY <1>2, <2>1 DEF GoodQueue
<1>5. walk'.page = p /\ walk'.fn = "reinit" /\ walk'.block_itr = FirstBlock
  BY <1>1 DEF Walk
<1>6. WalkOK'
  BY <1>1, PageLayout DEF WalkOK, Walk, Used, FirstBlock
<1>7. BasesOK'
  <2>1. /\ Walked(vm_page[p], FirstBlock, p)
        /\ Unwalked(vm_page[p], FirstBlock, Unbound)
    BY <1>1, <1>2, <1>3, WalkBegins DEF Used
  <2> QED BY <1>1, <1>3, <1>5, <2>1 DEF BasesOK
<1>8. Remembered
  <2> SUFFICES ASSUME NEW x, Entry(VmPages, vm_page, mapped', x)
               PROVE  Entry(VmPages, vm_page, mapped, x)
    BY <1>1 DEF Remembered, Forgotten
  <2>1. PICK q \in VmPages, y \in Nat :
          /\ x = <<q, y>>
          /\ q \in mapped' /\ y \in DOMAIN vm_page[q]
          /\ vm_page[q][y].is_free /\ vm_page[q][y].base_address = q
    BY EntryParts
  <2>2. q # p
    BY <1>1, <1>3, <2>1, PagesAndRequests DEF BasedAt
  <2> QED BY <1>1, <2>1, <2>2, EntryParts
<1> QED BY <1>1, <1>2, <1>4, <1>6, <1>7, <1>8 DEF IInv, Used, SameObjects, LiveSame

LEMMA DeinitBeginStep ==
  ASSUME IInv, NEW p \in VmPages, DeinitBegin(p)
  PROVE  IInv' /\ Remembered /\ SameObjects
<1>1. /\ walk = NoWalk /\ p \in mapped /\ Used(p) /\ mapped' = mapped
      /\ walk' = Walk("deinit", p, FirstBlock)
      /\ vm_page' = vm_page /\ free_block_list' = free_block_list
  BY DEF DeinitBegin, IInv
<1>2. /\ GoodPages(VmPages, vm_page)
      /\ mapped \subseteq VmPages /\ \A q \in mapped : Used(q)
  BY DEF IInv
<1>3. \A q \in VmPages : BasedAt(vm_page[q], IF q \in mapped THEN q ELSE Unbound)
  BY <1>1, IdleBases
<1>4. walk'.page = p /\ walk'.fn = "deinit" /\ walk'.block_itr = FirstBlock
  BY <1>1 DEF Walk
<1>5. WalkOK'
  BY <1>1, PageLayout DEF WalkOK, Walk, Used, FirstBlock
<1>6. BasesOK'
  <2>1. /\ Walked(vm_page[p], FirstBlock, Unbound)
        /\ Unwalked(vm_page[p], FirstBlock, p)
    BY <1>1, <1>2, <1>3, WalkBegins DEF Used
  <2> QED BY <1>1, <1>3, <1>4, <2>1 DEF BasesOK
<1> QED BY <1>1, <1>2, <1>5, <1>6 DEF IInv, Used, SameObjects, LiveSame, Remembered
(* A walk stands on a block of its page. *)
LEMMA WalkingOn ==
  ASSUME IInv, walk # NoWalk
  PROVE  /\ walk.fn \in {"reinit", "deinit"}
         /\ walk.page \in mapped /\ walk.page \in VmPages
         /\ walk.page \in Nat /\ walk.page # Unbound
         /\ walk.block_itr \in DOMAIN vm_page[walk.page] /\ walk.block_itr \in Nat
  BY PagesAndRequests DEF IInv, WalkOK

(* allocator_reinit: the block reached had no base_address, so the list    *)
(* does not name it yet.                                                   *)
LEMMA ReinitStepStep ==
  ASSUME IInv, ReinitStep
  PROVE  IInv' /\ Remembered /\ SameObjects
<1> DEFINE p == walk.page
           b == walk.block_itr
           n == vm_page[p][b].next_block
           pages == vm_page'
           list == free_block_list'
<1>1. /\ walk.fn = "reinit" /\ walk # NoWalk /\ mapped' = mapped
      /\ pages = WalkPages(vm_page, p, b, p)
      /\ list = ReinitList(vm_page, free_block_list, p, b)
      /\ walk' = IF n = NoBlock THEN NoWalk ELSE Walk("reinit", p, n)
  BY DEF ReinitStep, StepTo, NoWalk
<1>2. /\ GoodPages(VmPages, vm_page) /\ GoodQueue(VmPages, vm_page, mapped, free_block_list)
      /\ mapped \subseteq VmPages /\ (\A q \in mapped : Used(q)) /\ BasesOK
  BY DEF IInv
<1>3. /\ p \in mapped /\ p \in VmPages /\ p \in Nat /\ p # Unbound
      /\ b \in DOMAIN vm_page[p] /\ b \in Nat
  BY <1>1, WalkingOn
<1>4. /\ Walked(vm_page[p], b, p) /\ Unwalked(vm_page[p], b, Unbound)
      /\ \A q \in VmPages : q # p => BasedAt(vm_page[q], IF q \in mapped THEN q ELSE Unbound)
  BY <1>1, <1>2, <1>3 DEF BasesOK
<1>5. n = vm_page[p][b].next_block
  OBVIOUS
<1> HIDE DEF p, b, n, pages, list
<1>6. ~Listed(free_block_list, <<p, b>>)
  <2> SUFFICES ASSUME Listed(free_block_list, <<p, b>>) PROVE FALSE
    OBVIOUS
  <2>1. vm_page[p][b].base_address = p
    BY <1>2, ListedEntry DEF Entry
  <2> QED BY <1>3, <1>4, <2>1 DEF Unwalked
<1>7. SoundCall(VmPages, vm_page, mapped, free_block_list, pages, mapped, list)
  BY <1>1, <1>2, <1>3, <1>6, ReinitIteration
<1>8. Iterated(VmPages, vm_page, p, b, p, pages)
  BY <1>1, <1>2, <1>3, IterationFields
<1>9. \A q \in VmPages : q # p => BasedAt(pages[q], IF q \in mapped THEN q ELSE Unbound)
  BY <1>4, <1>8 DEF Iterated, OthersSame
<1>10. \A q \in mapped : FirstBlock \in DOMAIN pages[q]
  BY <1>2, <1>8 DEF Used, Iterated, OthersSame
<1>11. WalkOK' /\ BasesOK'
  <2>1. /\ n = NoBlock => BasedAt(pages[p], p)
        /\ n # NoBlock => /\ n \in Nat /\ n \in DOMAIN pages[p]
                          /\ Walked(pages[p], n, p)
                          /\ Unwalked(pages[p], n, Unbound)
    <3>1. WalkedOn(vm_page, pages, p, b, n, p)
      BY <1>2, <1>3, <1>4, <1>5, <1>8, WalkAdvances
    <3> QED BY <1>4, <3>1 DEF WalkedOn
  <2>2. CASE n = NoBlock
    <3>1. \A q \in VmPages : BasedAt(pages[q], IF q \in mapped THEN q ELSE Unbound)
      BY <1>3, <1>9, <2>1, <2>2
    <3>2. walk' = NoWalk
      BY <1>1, <2>2
    <3> QED BY <1>1, <3>1, <3>2, PagesAndRequests DEF WalkOK, BasesOK, NoWalk, pages
  <2>3. CASE n # NoBlock
    <3>1. walk' = Walk("reinit", p, n)
      BY <1>1, <2>3
    <3>2. walk'.page = p /\ walk'.fn = "reinit" /\ walk'.block_itr = n
      BY <3>1 DEF Walk
    <3>3. WalkOK'
      BY <1>1, <1>3, <2>1, <2>3, <3>1 DEF WalkOK, Walk, pages
    <3>4. BasesOK'
      BY <1>1, <1>9, <2>1, <2>3, <3>2 DEF BasesOK, pages
    <3> QED BY <3>3, <3>4
  <2> QED BY <2>2, <2>3
<1>12. IInv'
  BY <1>1, <1>2, <1>7, <1>10, <1>11 DEF IInv, Used, SoundCall, pages, list
<1>13. SameObjects
  BY <1>8, IterationKeepsLive DEF SameObjects, pages
<1> QED BY <1>1, <1>7, <1>12, <1>13 DEF SoundCall, Remembered, pages, list

(* allocator_deinit: the block reached leaves the list, and after the last *)
(* block the list names none of the page.                                  *)
LEMMA DeinitStepStep ==
  ASSUME IInv, DeinitStep
  PROVE  IInv' /\ Remembered /\ SameObjects
<1> DEFINE p == walk.page
           b == walk.block_itr
           n == vm_page[p][b].next_block
           pages == vm_page'
           maps == mapped'
           list == free_block_list'
<1>1. /\ walk.fn = "deinit" /\ walk # NoWalk
      /\ maps = IF walk' = NoWalk THEN mapped \ {p} ELSE mapped
      /\ pages = WalkPages(vm_page, p, b, Unbound)
      /\ list = DeinitList(vm_page, free_block_list, p, b)
      /\ walk' = IF n = NoBlock THEN NoWalk ELSE Walk("deinit", p, n)
  BY DEF DeinitStep, StepTo, NoWalk
<1>2. /\ GoodPages(VmPages, vm_page) /\ GoodQueue(VmPages, vm_page, mapped, free_block_list)
      /\ mapped \subseteq VmPages /\ (\A q \in mapped : Used(q)) /\ BasesOK
  BY DEF IInv
<1>3. /\ p \in mapped /\ p \in VmPages /\ p \in Nat /\ p # Unbound
      /\ b \in DOMAIN vm_page[p] /\ b \in Nat
  BY <1>1, WalkingOn
<1>4. /\ Walked(vm_page[p], b, Unbound) /\ Unwalked(vm_page[p], b, p)
      /\ \A q \in VmPages : q # p => BasedAt(vm_page[q], IF q \in mapped THEN q ELSE Unbound)
  BY <1>1, <1>2, <1>3 DEF BasesOK
<1>5. n = vm_page[p][b].next_block
  OBVIOUS
<1>6. IF n = NoBlock THEN walk' = NoWalk ELSE walk' = Walk("deinit", p, n) /\ walk' # NoWalk
  BY <1>1 DEF Walk, NoWalk
<1>7. maps = IF n = NoBlock THEN mapped \ {p} ELSE mapped
  BY <1>1, <1>6
<1> HIDE DEF p, b, n, pages, maps, list
<1>8. \A x : Listed(free_block_list, x) => x = <<p, b>> \/ x[1] \in maps
  <2> SUFFICES ASSUME NEW x, Listed(free_block_list, x), x[1] \notin maps
               PROVE  x = <<p, b>>
    OBVIOUS
  <2>1. PICK q \in VmPages, y \in Nat :
          /\ x = <<q, y>>
          /\ q \in mapped /\ y \in DOMAIN vm_page[q]
          /\ vm_page[q][y].base_address = q
    BY <1>2, ListedEntry, EntryParts
  <2>2. q = p /\ n = NoBlock
    BY <1>7, <2>1
  <2>3. ~(y < b)
    BY <1>3, <1>4, <2>1, <2>2 DEF Walked
  <2>4. GoodChain(vm_page[p])
    BY <1>2, <1>3, UsedPage
  <2>5. y <= b
    BY <1>3, <1>5, <2>1, <2>2, <2>4, LastBlock
  <2> QED BY <1>3, <2>1, <2>2, <2>3, <2>5
<1>9. SoundCall(VmPages, vm_page, mapped, free_block_list, pages, maps, list)
  <2>1. maps \subseteq mapped
    BY <1>7
  <2> QED BY <1>1, <1>2, <1>3, <1>8, <2>1, DeinitIteration
<1>10. Iterated(VmPages, vm_page, p, b, Unbound, pages)
  BY <1>1, <1>2, <1>3, IterationFields DEF Unbound
<1>11. \A q \in VmPages : q # p => BasedAt(pages[q], IF q \in maps THEN q ELSE Unbound)
  BY <1>4, <1>7, <1>10 DEF Iterated, OthersSame
<1>12. maps \subseteq VmPages /\ \A q \in maps : FirstBlock \in DOMAIN pages[q]
  BY <1>2, <1>7, <1>10 DEF Used, Iterated, OthersSame
<1>13. WalkOK' /\ BasesOK'
  <2>1. /\ n = NoBlock => BasedAt(pages[p], Unbound)
        /\ n # NoBlock => /\ n \in Nat /\ n \in DOMAIN pages[p]
                          /\ Walked(pages[p], n, Unbound)
                          /\ Unwalked(pages[p], n, p)
    <3>1. WalkedOn(vm_page, pages, p, b, n, Unbound)
      BY <1>2, <1>3, <1>4, <1>5, <1>10, WalkAdvances
    <3> QED BY <1>4, <3>1 DEF WalkedOn
  <2>2. CASE n = NoBlock
    <3>1. \A q \in VmPages : BasedAt(pages[q], IF q \in maps THEN q ELSE Unbound)
      BY <1>7, <1>11, <2>1, <2>2
    <3>2. walk' = NoWalk
      BY <1>6, <2>2
    <3> QED BY <3>1, <3>2, PagesAndRequests DEF WalkOK, BasesOK, NoWalk, pages, maps
  <2>3. CASE n # NoBlock
    <3>1. walk' = Walk("deinit", p, n) /\ maps = mapped
      BY <1>6, <1>7, <2>3
    <3>2. walk'.page = p /\ walk'.fn = "deinit" /\ walk'.block_itr = n
      BY <3>1 DEF Walk
    <3>3. WalkOK'
      BY <1>3, <2>1, <2>3, <3>1 DEF WalkOK, Walk, pages, maps
    <3>4. BasesOK'
      BY <1>11, <2>1, <2>3, <3>2 DEF BasesOK, pages, maps
    <3> QED BY <3>3, <3>4
  <2> QED BY <2>2, <2>3
<1>14. IInv'
  BY <1>9, <1>12, <1>13 DEF IInv, Used, SoundCall, pages, maps, list
<1>15. SameObjects
  BY <1>10, IterationKeepsLive DEF SameObjects, pages
<1> QED BY <1>9, <1>14, <1>15 DEF SoundCall, Remembered, pages, maps, list

LEMMA StutterIInv ==
  ASSUME IInv, UNCHANGED vars
  PROVE  IInv' /\ Remembered /\ SameObjects
  BY DEF vars, IInv, WalkOK, BasesOK, Used, Remembered, SameObjects, LiveSame

-----------------------------------------------------------------------------
(* The invariant holds in every reachable state. *)
THEOREM Inductive == Spec => []IInv
<1>1. Init => IInv
  BY InitIInv
<1>2. IInv /\ [Next]_vars => IInv'
  <2> SUFFICES ASSUME IInv, [Next]_vars PROVE IInv'
    OBVIOUS
  <2>1. ASSUME NEW p \in VmPages, AllocatorInit(p) PROVE IInv'
    BY <2>1, AllocatorInitStep
  <2>2. ASSUME NEW p \in VmPages, ReinitBegin(p) PROVE IInv'
    BY <2>2, ReinitBeginStep
  <2>3. ASSUME NEW p \in VmPages, DeinitBegin(p) PROVE IInv'
    BY <2>3, DeinitBeginStep
  <2>4. ASSUME NEW p \in VmPages, NEW b \in LiveBlocks(vm_page[p]), FreeMem(p, b) PROVE IInv'
    BY <2>4, FreeMemStep
  <2>5. ASSUME NEW size \in ReqSizes, AllocMem(size) PROVE IInv'
    BY <2>5, AllocMemStep
  <2>6. ASSUME NEW size \in ReqSizes, AllocMemFails(size) PROVE IInv'
    BY <2>6, AllocMemFailsStep
  <2>7. CASE ReinitStep
    BY <2>7, ReinitStepStep
  <2>8. CASE DeinitStep
    BY <2>8, DeinitStepStep
  <2>9. CASE UNCHANGED vars
    BY <2>9, StutterIInv
  <2> QED BY <2>1, <2>2, <2>3, <2>4, <2>5, <2>6, <2>7, <2>8, <2>9 DEF Next
<1> QED BY <1>1, <1>2, PTL DEF Spec

(* The data structures keep their shape: every page holds the fields of    *)
(* block_meta_data_t, and a walk of allocator_reinit or allocator_deinit   *)
(* always stands on a block of a page in memory.                           *)
THEOREM TypeCorrect == Spec => []TypeOK
<1>1. IInv => TypeOK
  <2> SUFFICES ASSUME IInv PROVE TypeOK
    OBVIOUS
  <2>1. \A p \in VmPages : TypedChain(vm_page[p])
    <3>1. TypedChain(NoChain)
      BY DEF TypedChain, NoChain
    <3> QED BY <3>1 DEF IInv, GoodPages, GoodChain
  <2> QED BY <2>1 DEF IInv, TypeOK, GoodPages, GoodQueue, WalkOK
<1> QED BY <1>1, Inductive, PTL

(* Splitting, growing over the hard fragment and merging on both sides     *)
(* (allocator_alloc_mem, allocator_free_mem) leave blocks that tile their  *)
(* page, with links that run both ways and no two free neighbours.         *)
THEOREM ChainsStayGood == Spec => []ChainsGood
<1>1. IInv => ChainsGood
  <2> SUFFICES ASSUME IInv, NEW p \in VmPages
               PROVE  IF Used(p) THEN GoodChain(vm_page[p]) ELSE vm_page[p] = NoChain
    BY DEF ChainsGood
  <2>1. GoodChain(vm_page[p]) => Used(p)
    BY DEF GoodChain, Linked, Used
  <2>2. vm_page[p] = NoChain => ~Used(p)
    BY DEF NoChain, Used
  <2> QED BY <2>1, <2>2 DEF IInv, GoodPages
<1> QED BY <1>1, Inductive, PTL

(* free_block_list_head names free blocks in memory only, each once: no    *)
(* block is handed out twice and the assert (is_free) of                   *)
(* allocator_alloc_mem holds.                                              *)
THEOREM QueueStaysSound == Spec => []QueueSound
<1>1. IInv => QueueSound
  BY DEF IInv, QueueSound, GoodQueue, Entry
<1> QED BY <1>1, Inductive, PTL

(* glthread_priority_insert keeps the largest block first although blocks  *)
(* change their size while others are queued.                              *)
THEOREM QueueStaysSorted == Spec => []QueueSorted
<1>1. IInv => QueueSorted
  BY DEF IInv, QueueSorted, GoodQueue
<1> QED BY <1>1, Inductive, PTL

(* The base_address of every block is that of its page's mapping, however  *)
(* the block came to be: initialised, split off, merged or walked over.    *)
THEOREM BasesStayRight == Spec => []BasesFollowMapping
<1>1. IInv => BasesFollowMapping
  <2> SUFFICES ASSUME IInv, NEW p \in VmPages, NEW b \in DOMAIN vm_page[p]
               PROVE  vm_page[p][b].base_address =
                        IF IF walk.page = p THEN (b < walk.block_itr) = (walk.fn = "reinit")
                                            ELSE p \in mapped
                          THEN p ELSE Unbound
    BY DEF BasesFollowMapping
  <2>1. BasesOK /\ b \in Nat
    BY UsedPage DEF IInv
  <2>2. CASE walk.page # p
    BY <2>1, <2>2 DEF BasesOK, BasedAt
  <2>3. CASE walk.page = p
    <3>1. /\ walk.fn \in {"reinit", "deinit"} /\ walk.block_itr \in Nat
      BY <2>3, WalkingOn, PagesAndRequests DEF NoWalk
    <3> QED BY <2>1, <2>3, <3>1 DEF BasesOK, Walked, Unwalked
  <2> QED BY <2>2, <2>3
<1> QED BY <1>1, Inductive, PTL

(* A page without live objects is one free block, whatever the order its   *)
(* objects were freed in: allocator_is_vm_page_empty can see it is empty.  *)
THEOREM EmptyPagesAreWhole == Spec => []EmptyPageIsWhole
<1>1. IInv => EmptyPageIsWhole
  <2> SUFFICES ASSUME IInv, NEW p \in VmPages, Used(p), LiveBlocks(vm_page[p]) = {}
               PROVE  SpansPage(vm_page[p])
    BY DEF EmptyPageIsWhole
  <2>1. GoodChain(vm_page[p])
    BY UsedPage DEF IInv, Used
  <2> QED BY <2>1, EmptyIsWhole
<1> QED BY <1>1, Inductive, PTL

-----------------------------------------------------------------------------
(* Unqueued is what the list has forgotten: offsets of blocks lie within   *)
(* the page.                                                               *)
LEMMA UnqueuedForgotten ==
  ASSUME NEW pages, GoodPages(VmPages, pages), NEW maps, maps \subseteq VmPages, NEW list,
         NEW u, u = {blk \in maps \X (0..DB_PAGE_DEF_SIZE) :
                       /\ blk[2] \in FreeBlocks(pages[blk[1]])
                       /\ pages[blk[1]][blk[2]].base_address = blk[1]
                       /\ \A i \in DOMAIN list : list[i] # blk}
  PROVE  u = Forgotten(VmPages, pages, maps, list)
<1>1. ASSUME NEW p \in VmPages, NEW b \in DOMAIN pages[p]
      PROVE  b \in 0..DB_PAGE_DEF_SIZE
  <2>1. GoodChain(pages[p]) /\ TypedChain(pages[p]) /\ b \in Nat
    BY UsedPage
  <2>2. /\ EndOf(pages[p], b) <= LimitOf(pages[p], b)
        /\ LimitOf(pages[p], b) <= DB_PAGE_DEF_SIZE
    BY <2>1 DEF GoodChain, Linked
  <2> QED BY <2>1, <2>2, ChainNumbers, PageLayout
<1>2. ASSUME NEW x, x \in u PROVE x \in Forgotten(VmPages, pages, maps, list)
  BY <1>2 DEF Forgotten, Entry, Listed
<1>3. ASSUME NEW x, x \in Forgotten(VmPages, pages, maps, list) PROVE x \in u
  BY <1>1, <1>3 DEF Forgotten, Entry, Listed, FreeBlocks
<1> QED BY <1>2, <1>3

(* Only a failing allocator_alloc_mem loses free memory: every other call, *)
(* and every iteration of allocator_reinit and allocator_deinit, leaves on *)
(* the list what was on it and is still free, and adds what it frees.      *)
THEOREM OnlyFailuresDrop == Spec => OnlyFailureDropsBlocks
<1>1. IInv /\ IInv' /\ [Next]_vars
        => [Unqueued' \subseteq Unqueued \/ \E size \in ReqSizes : AllocMemFails(size)]_vars
  <2> SUFFICES ASSUME IInv, IInv', [Next]_vars, ~ \E size \in ReqSizes : AllocMemFails(size)
               PROVE  Unqueued' \subseteq Unqueued
    OBVIOUS
  <2>1. Remembered
    <3>1. ASSUME NEW p \in VmPages, AllocatorInit(p) PROVE Remembered
      BY <3>1, AllocatorInitStep
    <3>2. ASSUME NEW p \in VmPages, ReinitBegin(p) PROVE Remembered
      BY <3>2, ReinitBeginStep
    <3>3. ASSUME NEW p \in VmPages, DeinitBegin(p) PROVE Remembered
      BY <3>3, DeinitBeginStep
    <3>4. ASSUME NEW p \in VmPages, NEW b \in LiveBlocks(vm_page[p]), FreeMem(p, b)
          PROVE  Remembered
      BY <3>4, FreeMemStep
    <3>5. ASSUME NEW size \in ReqSizes, AllocMem(size) PROVE Remembered
      BY <3>5, AllocMemStep
    <3>6. CASE ReinitStep
      BY <3>6, ReinitStepStep
    <3>7. CASE DeinitStep
      BY <3>7, DeinitStepStep
    <3>8. CASE UNCHANGED vars
      BY <3>8, StutterIInv
    <3> QED BY <3>1, <3>2, <3>3, <3>4, <3>5, <3>6, <3>7, <3>8 DEF Next
  <2>2. Unqueued = Forgotten(VmPages, vm_page, mapped, free_block_list)
    <3>1. GoodPages(VmPages, vm_page) /\ mapped \subseteq VmPages
      BY DEF IInv
    <3> QED BY <3>1, UnqueuedForgotten DEF Unqueued
  <2>3. Unqueued' = Forgotten(VmPages, vm_page', mapped', free_block_list')
    <3>1. GoodPages(VmPages, vm_page') /\ mapped' \subseteq VmPages
      BY DEF IInv
    <3> QED BY <3>1, UnqueuedForgotten DEF Unqueued
  <2> QED BY <2>1, <2>2, <2>3 DEF Remembered
<1> QED BY <1>1, Inductive, PTL DEF Spec, OnlyFailureDropsBlocks

-----------------------------------------------------------------------------
LEMMA ObjectsNamed ==
  /\ Objects = ObjectsIn(VmPages, vm_page)
  /\ Objects' = ObjectsIn(VmPages, vm_page')
  BY DEF Objects, ObjectsIn, ObjectAt

LEMMA SameObjectsStutter ==
  ASSUME SameObjects
  PROVE  Objects' = Objects
  BY ObjectsKept, ObjectsNamed DEF SameObjects

(* A request that succeeds adds one object, apart from all others. *)
LEMMA AllocIsStoreAlloc ==
  ASSUME IInv', NEW p, NEW b, LiveDiffer(VmPages, vm_page, p, b, vm_page')
  PROVE  Store!StoreNext
<1> DEFINE o == ObjectAt(vm_page', p, b)
<1>1. GoodPages(VmPages, vm_page') /\ o = ObjectAt(vm_page', p, b)
  BY DEF IInv
<1> HIDE DEF o
<1>2. /\ o \notin Objects /\ o \in Objects' /\ Objects' = Objects \cup {o}
  BY <1>1, ObjectsDiffer, ObjectsNamed
<1>3. /\ o \in [page : VmPages, addr : 0..DB_PAGE_DEF_SIZE, len : 0..DB_PAGE_DEF_SIZE]
      /\ PageHdrSize + MetaSize <= o.addr
      /\ o.addr + o.len <= DB_PAGE_DEF_SIZE
  BY <1>1, <1>2, ObjectsFit, ObjectsNamed
<1>4. \A x \in Objects : Store!Disjoint(o, x)
  BY <1>1, <1>2, ObjectsApart, ObjectsNamed DEF Store!Disjoint
<1>5. Store!StoreAlloc(o) /\ o \in Store!Object
  BY <1>2, <1>3, <1>4 DEF Store!StoreAlloc, Store!WithinPage, Store!Object
<1> QED BY <1>5 DEF Store!StoreNext

(* A free removes one object. *)
LEMMA FreeIsStoreFree ==
  ASSUME IInv, NEW p, NEW b, LiveDiffer(VmPages, vm_page', p, b, vm_page)
  PROVE  Store!StoreNext
<1> DEFINE o == ObjectAt(vm_page, p, b)
<1>1. GoodPages(VmPages, vm_page) /\ o = ObjectAt(vm_page, p, b)
  BY DEF IInv
<1> HIDE DEF o
<1>2. /\ o \in Objects /\ Objects' = Objects \ {o}
  BY <1>1, ObjectsDiffer, ObjectsNamed
<1> QED BY <1>2 DEF Store!StoreFree, Store!StoreNext

(* The allocator implements the object store: allocator_alloc_mem hands    *)
(* out memory within a page that no other object uses,                     *)
(* allocator_free_mem gives one object up, and no call moves, resizes or   *)
(* loses an object of somebody else.                                       *)
THEOREM AllocatorIsStore == Spec => ImplementsStore
<1>1. Init => Store!StoreInit
  <2> SUFFICES ASSUME Init PROVE Objects = {}
    BY DEF Store!StoreInit
  <2>1. \A p \in VmPages : LiveBlocks(vm_page[p]) = {}
    BY DEF Init, NoChain, LiveBlocks
  <2> QED BY <2>1 DEF Objects
<1>2. IInv /\ IInv' /\ [Next]_vars => [Store!StoreNext]_Objects
  <2> SUFFICES ASSUME IInv, IInv', [Next]_vars
               PROVE  Store!StoreNext \/ Objects' = Objects
    OBVIOUS
  <2>1. ASSUME NEW p \in VmPages, AllocatorInit(p) PROVE Objects' = Objects
    BY <2>1, AllocatorInitStep, SameObjectsStutter
  <2>2. ASSUME NEW p \in VmPages, ReinitBegin(p) PROVE Objects' = Objects
    BY <2>2, ReinitBeginStep, SameObjectsStutter
  <2>3. ASSUME NEW p \in VmPages, DeinitBegin(p) PROVE Objects' = Objects
    BY <2>3, DeinitBeginStep, SameObjectsStutter
  <2>4. ASSUME NEW p \in VmPages, NEW b \in LiveBlocks(vm_page[p]), FreeMem(p, b)
        PROVE  Store!StoreNext
    BY <2>4, FreeMemStep, FreeIsStoreFree
  <2>5. ASSUME NEW size \in ReqSizes, AllocMem(size) PROVE Store!StoreNext
    BY <2>5, AllocMemStep, AllocIsStoreAlloc
  <2>6. ASSUME NEW size \in ReqSizes, AllocMemFails(size) PROVE Objects' = Objects
    BY <2>6, AllocMemFailsStep, SameObjectsStutter
  <2>7. CASE ReinitStep
    BY <2>7, ReinitStepStep, SameObjectsStutter
  <2>8. CASE DeinitStep
    BY <2>8, DeinitStepStep, SameObjectsStutter
  <2>9. CASE UNCHANGED vars
    BY <2>9, StutterIInv, SameObjectsStutter
  <2> QED BY <2>1, <2>2, <2>3, <2>4, <2>5, <2>6, <2>7, <2>8, <2>9 DEF Next
<1> QED BY <1>1, <1>2, Inductive, PTL DEF Spec, ImplementsStore, Store!StoreSpec

=============================================================================
