----------------------------- MODULE OrderedMap -----------------------------
(***************************************************************************)
(* What an index promises, a B+ tree, an AVL tree or a hash table: a map   *)
(* from keys to records, in which a key is inserted at most once.          *)
(***************************************************************************)
CONSTANTS
  Key,
  Record     \* Record[k]: the records that may be given for key k

VARIABLES
  records,   \* a function from the keys in the map to their records
  outcome    \* how the last call ended: "inserted", "refused" or "done"

Put(m, k, r) == [j \in DOMAIN m \cup {k} |-> IF j = k THEN r ELSE m[j]]
Without(m, k) == [j \in DOMAIN m \ {k} |-> m[j]]

MapInit == records = [k \in {} |-> 0] /\ outcome = "done"

MapInsert(k, r) ==
  /\ outcome' = "inserted"
  /\ k \notin DOMAIN records
  /\ records' = Put(records, k, r)

MapRefuse(k) ==
  /\ outcome' = "refused"
  /\ k \in DOMAIN records
  /\ UNCHANGED records

MapModify(k, r) ==
  /\ outcome' = "done"
  /\ k \in DOMAIN records
  /\ records' = Put(records, k, r)

MapDelete(k) ==
  /\ outcome' = "done"
  /\ records' = Without(records, k)

MapNext == \E k \in Key : \/ \E r \in Record[k] : MapInsert(k, r) \/ MapModify(k, r)
                          \/ MapRefuse(k)
                          \/ MapDelete(k)

MapSpec == MapInit /\ [][MapNext]_<<records, outcome>>

=============================================================================
