----------------------------- MODULE MCHashTable -----------------------------
(* Five keys, which meet in different slots of every length of the table; two *)
(* of them have the same hash.                                                *)
EXTENDS HashTable

Keys == 1 .. 5
Hashes == <<0, 6, 5, 6, 10>>
PrimeTable == <<2, 3, 5>>
=============================================================================
