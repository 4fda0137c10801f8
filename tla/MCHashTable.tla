----------------------------- MODULE MCHashTable -----------------------------
(* Three keys, two of which collide and one whose home is the last slot of *)
(* four, two values, tables of one to four slots.                          *)
EXTENDS HashTable

CONSTANTS a, b, d
MinUsedDef == -1
HashDef == [k \in {a, b, d} |-> IF k = b THEN 3 ELSE 0]
=============================================================================
