----------------------------- MODULE ObjectStore ----------------------------
(***************************************************************************)
(* What the storage layer promises its callers: objects of the size they   *)
(* asked for, in page memory that no other object uses, which stay where   *)
(* they are until they are freed.                                          *)
(***************************************************************************)
EXTENDS Integers

CONSTANTS
  Pages,       (* numbers of the pages objects can be in *)
  PageSize,    (* bytes in a page                        *)
  Reserved     (* bytes at the start of a page that no object may use *)

VARIABLE objects     \* the objects the callers hold

(* An object is the bytes addr .. addr + len - 1 of a page. *)
Object == [page : Pages, addr : 0..PageSize, len : 0..PageSize]

WithinPage(o) == Reserved <= o.addr /\ o.addr + o.len <= PageSize

Disjoint(o, q) == \/ o.page # q.page
                  \/ o.addr < q.addr /\ o.addr + o.len <= q.addr
                  \/ q.addr < o.addr /\ q.addr + q.len <= o.addr

StoreInit == objects = {}

StoreAlloc(o) ==
  /\ WithinPage(o)
  /\ \A q \in objects : Disjoint(o, q)
  /\ objects' = objects \cup {o}

StoreFree(o) ==
  /\ o \in objects
  /\ objects' = objects \ {o}

StoreNext == \/ \E o \in Object : StoreAlloc(o)
             \/ \E o \in objects : StoreFree(o)

StoreSpec == StoreInit /\ [][StoreNext]_objects

=============================================================================
