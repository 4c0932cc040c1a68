------------------------------ MODULE HashTable ------------------------------
(***************************************************************************)
(* The hash table of src/c-hashtable, with its iterator: chained entries,  *)
(* a table that grows to the next prime when it is loaded too much, and a  *)
(* single iterator that its client moves, repositions and removes through. *)
(*                                                                         *)
(* An entry is named by its key: the comment in hashtable_insert asks      *)
(* callers not to insert a key twice, and they do not.  The chain of a     *)
(* slot is the sequence of its entries, the head first.                    *)
(***************************************************************************)
EXTENDS Naturals, Sequences, SequencesExt, FiniteSets

CONSTANTS
  Key, Value,
  HashOf,    \* the hash of each key, after the mixing of hash()
  Primes,    \* the table's possible lengths
  MinSizes,  \* the sizes callers ask for
  NULL

ASSUME HashAssumption ==
  /\ HashOf \in [Key -> Nat]
  /\ Primes \in Seq(Nat \ {0}) /\ Primes # << >>
  /\ \A i, j \in DOMAIN Primes : i < j => Primes[i] < Primes[j]
  /\ \A m \in MinSizes : m \in Nat /\ \E i \in DOMAIN Primes : m < Primes[i]
  /\ Key # {} /\ NULL \notin Key

VARIABLES
  table,       \* the chains, indexed from 0; << >> while there is no hash table
  value,       \* the value in each entry
  primeindex, entrycount, loadlimit,
  itr,         \* the iterator: e, parent and index, and the link e had when it
               \* was freed under the iterator
  due,         \* history: the keys the iterator has yet to meet
  outcome      \* how the last call ended: "inserted", "done", or "undefined"
               \* after which nothing is known of the process

contents == <<table, value, entrycount>>
sizing == <<primeindex, loadlimit>>
hashVars == <<table, value, primeindex, entrycount, loadlimit, itr, due, outcome>>

Exists == table # << >>
Length == Cardinality(DOMAIN table)
IndexFor(n, k) == HashOf[k] % n
LoadLimit(n) == (65 * n + 99) \div 100
EmptyTable(n) == [i \in 0 .. n - 1 |-> << >>]

Chain(k) == table[IndexFor(Length, k)]
Found(k) == Exists /\ k \in ToSet(Chain(k))

Position(chain, k) == CHOOSE i \in DOMAIN chain : chain[i] = k
After(chain, k) == SubSeq(chain, Position(chain, k) + 1, Len(chain))
NextIn(chain, k) == IF After(chain, k) = << >> THEN NULL ELSE Head(After(chain, k))
PreviousIn(chain, k) == IF Position(chain, k) = 1 THEN NULL ELSE chain[Position(chain, k) - 1]

NoIterator == [on |-> FALSE, e |-> NULL, parent |-> NULL, index |-> 0, link |-> NULL]
Iterator(e, parent, index) ==
  [on |-> TRUE, e |-> e, parent |-> parent, index |-> index, link |-> NULL]

\* The entry under the iterator was freed by hashtable_remove.
Dangling == itr.e # NULL /\ ~Found(itr.e)

Defined == outcome # "undefined"

HashInit ==
  /\ table = << >> /\ value = << >>
  /\ primeindex = 1 /\ entrycount = 0 /\ loadlimit = 0
  /\ itr = NoIterator /\ due = {}
  /\ outcome = "done"

-----------------------------------------------------------------------------
(* create_hashtable and hashtable_destroy *)

FirstAbove(minsize) ==
  CHOOSE i \in DOMAIN Primes : /\ Primes[i] > minsize
                               /\ \A j \in 1 .. i - 1 : Primes[j] <= minsize

CreateHashtable(minsize) ==
  /\ ~Exists
  /\ primeindex' = FirstAbove(minsize)
  /\ table' = EmptyTable(Primes[primeindex'])
  /\ loadlimit' = LoadLimit(Primes[primeindex'])
  /\ entrycount' = 0 /\ value' = << >>
  /\ outcome' = "done"
  /\ UNCHANGED <<itr, due>>

HashtableDestroy ==
  /\ Exists /\ ~itr.on
  /\ table' = << >> /\ value' = << >> /\ entrycount' = 0
  /\ outcome' = "done"
  /\ UNCHANGED <<sizing, itr, due>>

-----------------------------------------------------------------------------
(* hashtable_expand and hashtable_insert *)

\* Of two entries, j is the one hashtable_expand takes out of the old chains later.
TakenAfter(j, k) ==
  \/ IndexFor(Length, j) > IndexFor(Length, k)
  \/ /\ IndexFor(Length, j) = IndexFor(Length, k)
     /\ Position(Chain(j), j) > Position(Chain(k), k)

\* Each entry is put before those that are in its new chain already.
LastTakenFirst(S) ==
  CHOOSE c \in SetToSeqs(S) : \A p, q \in DOMAIN c : p < q => TakenAfter(c[p], c[q])

Entries == UNION {ToSet(table[i]) : i \in DOMAIN table}

\* As if the entries kept the slots of the smaller table.
NotRehashed(n) == [i \in 0 .. n - 1 |-> IF i < Length THEN table[i] ELSE << >>]

Rehashed(n) ==
  [i \in 0 .. n - 1 |-> LastTakenFirst({k \in Entries : IndexFor(n, k) = i})]

Overloaded == entrycount + 1 > loadlimit
CanExpand == primeindex < Len(Primes)

\* The table grows before the entry is linked; it stays as it was when it is not
\* loaded too much, when there is no greater prime and when nothing larger can
\* be had, which is no error.
Expand ==
  /\ Overloaded /\ CanExpand
  /\ primeindex' = primeindex + 1
  /\ loadlimit' = LoadLimit(Primes[primeindex + 1])

Link(t, k) == [t EXCEPT ![IndexFor(Cardinality(DOMAIN t), k)] = <<k>> \o @]

HasInserted(t, k, v) ==
  /\ table' = Link(t, k)
  /\ value' = [j \in DOMAIN value \cup {k} |-> IF j = k THEN v ELSE value[j]]
  /\ entrycount' = entrycount + 1
  /\ outcome' = "inserted"

\* The entry itself cannot be allocated: the count goes back, a table that has
\* grown stays.
InsertFails(t) ==
  /\ table' = t
  /\ outcome' = "done"
  /\ UNCHANGED <<value, entrycount>>

HashtableInsert(k, v) ==
  /\ Exists /\ ~Found(k) /\ ~itr.on
  /\ \/ Expand /\ (HasInserted(Rehashed(Primes[primeindex + 1]), k, v)
                    \/ InsertFails(Rehashed(Primes[primeindex + 1])))
     \/ UNCHANGED sizing /\ (HasInserted(table, k, v) \/ InsertFails(table))
  /\ UNCHANGED <<itr, due>>

\* Plan B: there is no room for a second table but the first can be enlarged;
\* the clearing of its new slots is given the content of the first of them,
\* which nobody has written, as the address to clear.
HashtableInsertPlanB(k) ==
  /\ Exists /\ ~Found(k) /\ ~itr.on
  /\ Overloaded /\ CanExpand
  /\ outcome' = "undefined"
  /\ UNCHANGED <<contents, sizing, itr, due>>

-----------------------------------------------------------------------------
(* hashtable_remove and hashtable_change *)

Unlink(k) == [table EXCEPT ![IndexFor(Length, k)] = RemoveAt(@, Position(@, k))]
Forget(k) == [j \in DOMAIN value \ {k} |-> value[j]]

\* A client that removes the entry under its iterator goes on to advance it
\* (mem_mgr_destroy).
HashtableRemove(k) ==
  /\ Found(k) /\ ~Dangling
  /\ table' = Unlink(k)
  /\ value' = Forget(k)
  /\ entrycount' = entrycount - 1
  /\ due' = due \ {k}
  /\ itr' = IF itr.e = k THEN [itr EXCEPT !.link = NextIn(Chain(k), k)] ELSE itr
  /\ outcome' = "done"
  /\ UNCHANGED sizing

HashtableChange(k, v) ==
  /\ Found(k) /\ ~Dangling
  /\ value' = [value EXCEPT ![k] = v]
  /\ outcome' = "done"
  /\ UNCHANGED <<table, entrycount, sizing, itr, due>>

-----------------------------------------------------------------------------
(* The iterator. *)

\* The first entry in the slots from i on.
HeadFrom(t, i) ==
  LET n == Cardinality(DOMAIN t)
      filled == {j \in i .. n - 1 : t[j] # << >>}
  IN IF filled = {} THEN Iterator(NULL, NULL, n)
     ELSE LET j == CHOOSE j \in filled : \A l \in filled : j <= l
          IN Iterator(Head(t[j]), NULL, j)

HashtableIterator ==
  /\ Exists /\ ~itr.on
  /\ itr' = IF entrycount = 0 THEN Iterator(NULL, NULL, Length) ELSE HeadFrom(table, 0)
  /\ due' = DOMAIN value \ {itr'.e}
  /\ outcome' = "done"
  /\ UNCHANGED <<contents, sizing>>

FreeIterator ==
  /\ itr.on
  /\ itr' = NoIterator /\ due' = {}
  /\ outcome' = "done"
  /\ UNCHANGED <<contents, sizing>>

\* From the entry e, whose link is `next`, in the table t.
Advanced(t, e, next) ==
  IF next # NULL THEN Iterator(next, e, itr.index) ELSE HeadFrom(t, itr.index + 1)

HashtableIteratorAdvance ==
  /\ itr.e # NULL /\ ~Dangling
  /\ itr' = Advanced(table, itr.e, NextIn(table[itr.index], itr.e))
  /\ due' = due \ {itr'.e}
  /\ outcome' = "done"
  /\ UNCHANGED <<contents, sizing>>

\* The link is read from an entry that has been freed: it is the old link while
\* the memory is left alone, and anything once it is not.
AdvanceFromFreed ==
  /\ Dangling
  /\ \/ /\ itr' = Advanced(table, itr.e, itr.link)
        /\ due' = due \ {itr'.e}
        /\ outcome' = "done"
     \/ /\ outcome' = "undefined"
        /\ UNCHANGED <<itr, due>>
  /\ UNCHANGED <<contents, sizing>>

\* As if every entry were the head of its chain.
BypassedAtHead == After(table[itr.index], itr.e)

\* The chain of the iterator without e: its parent, or the slot, gets the link
\* of e.
Bypassed ==
  LET chain == table[itr.index]
  IN IF itr.parent = NULL THEN After(chain, itr.e)
     ELSE SubSeq(chain, 1, Position(chain, itr.parent)) \o After(chain, itr.e)

\* As if the parent were not corrected after the step from a removed entry.
Uncorrected(i) == [i EXCEPT !.parent = IF @ = itr.e THEN NULL ELSE @]

\* The parent of the entry that follows a removed one.
Corrected(i) == IF i.parent = itr.e THEN [i EXCEPT !.parent = itr.parent] ELSE i

\* Nobody removes through an iterator whose parent has been freed.
HashtableIteratorRemove ==
  /\ itr.e # NULL /\ ~Dangling
  /\ itr.parent # NULL => Found(itr.parent)
  /\ table' = [table EXCEPT ![itr.index] = Bypassed]
  /\ value' = Forget(itr.e)
  /\ entrycount' = entrycount - 1
  /\ itr' = Corrected(Advanced(table', itr.e, NextIn(table[itr.index], itr.e)))
  /\ due' = due \ {itr'.e}
  /\ outcome' = "done"
  /\ UNCHANGED sizing

\* The keys behind the entry e of slot i.
Behind(e, i) ==
  (IF e = NULL THEN {} ELSE ToSet(After(table[i], e)))
    \cup UNION {ToSet(table[j]) : j \in {l \in DOMAIN table : l > i}}

HashtableIteratorSearch(k) ==
  /\ itr.on /\ Found(k) /\ ~Dangling
  /\ itr' = Iterator(k, PreviousIn(Chain(k), k), IndexFor(Length, k))
  /\ due' = Behind(k, IndexFor(Length, k))
  /\ outcome' = "done"
  /\ UNCHANGED <<contents, sizing>>

-----------------------------------------------------------------------------
HashNext ==
  /\ Defined
  /\ \/ \E m \in MinSizes : CreateHashtable(m)
     \/ HashtableDestroy
     \/ \E k \in Key :
          \/ \E v \in Value : HashtableInsert(k, v) \/ HashtableChange(k, v)
          \/ HashtableInsertPlanB(k)
          \/ HashtableRemove(k)
          \/ HashtableIteratorSearch(k)
     \/ HashtableIterator \/ FreeIterator
     \/ HashtableIteratorAdvance \/ AdvanceFromFreed \/ HashtableIteratorRemove

HashSpec == HashInit /\ [][HashNext]_hashVars

-----------------------------------------------------------------------------
(* Properties. *)

\* However often the table has grown, or failed to: every entry is in the chain
\* that its hash selects for the present length, where hashtable_search looks for
\* it, and in no other, and the count is the number of entries
\* (src/c-hashtable/hashtable.c:70, 142).
EntriesInTheirChains ==
  Defined /\ Exists =>
    /\ Length = Primes[primeindex]
    /\ entrycount = Cardinality(DOMAIN value)
    /\ \A k \in DOMAIN value : Found(k)
    /\ \A i \in DOMAIN table :
         /\ IsInjective(table[i])
         /\ \A k \in ToSet(table[i]) : k \in DOMAIN value /\ IndexFor(Length, k) = i

\* A walk of the iterator meets every entry once that stays in the table, whatever
\* the walk itself removes on the way, with hashtable_iterator_remove or, as
\* mem_mgr_destroy does, with hashtable_remove under the iterator: what it has yet
\* to meet lies before it, and nothing is left when it ends.  Its parent is the
\* entry before it, which is what a removal through it relinks
\* (src/c-hashtable/hashtable_itr.c:53, 98).
WalksMeetAll ==
  Defined /\ itr.on =>
    CASE itr.e = NULL -> due = {}
      [] Dangling -> due = Behind(itr.link, itr.index) \cup ({itr.link} \ {NULL})
      [] OTHER -> /\ itr.e \in ToSet(table[itr.index])
                  /\ due = Behind(itr.e, itr.index)
                  /\ itr.parent = NULL \/ Found(itr.parent) =>
                       itr.parent = PreviousIn(table[itr.index], itr.e)

\* What a client is promised: a map from keys to values, as searches see it.
Map == INSTANCE OrderedMap WITH
  Record <- [k \in Key |-> Value],
  records <- [k \in {j \in Key : Found(j)} |-> value[k]]

Destroyed == Exists /\ ~Exists'

\* Every call whose outcome is defined is one step of that map: it stores,
\* changes or takes out the value of the one key it is given, or nothing when
\* memory runs out half way, and no search for another key answers otherwise.
CallsAreMapSteps ==
  Map!MapInit /\ [][Defined' => Map!MapNext \/ Destroyed]_<<table, value, outcome>>

=============================================================================
