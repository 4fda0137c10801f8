----------------------------- MODULE Dictionary -----------------------------
(***************************************************************************)
(* What lython::HashTable promises its clients, with no slots and no       *)
(* probing.  It is a map, with one reservation: once a key has been        *)
(* removed (holes), a value given to a key that is present may cover the   *)
(* present one instead of replacing it or being refused.  A covered value  *)
(* may come back when the key is removed or the table grows (older), and   *)
(* at no other time.  With no hole it is a plain map.                      *)
(*                                                                         *)
(* The promise ends with a resize in place (intact).                       *)
(***************************************************************************)
CONSTANTS Key, Value, NoValue

VARIABLES
  val,     \* what get() returns for each key
  older,   \* the values that may come back
  holes,   \* a key was removed since the last growth or clear
  intact

vars == <<val, older, holes, intact>>

Init ==
  /\ val = [k \in Key |-> NoValue]
  /\ older = [k \in Key |-> {}]
  /\ holes = FALSE
  /\ intact = TRUE

Add(k, v) ==
  /\ val[k] = NoValue
  /\ val' = [val EXCEPT ![k] = v]
  /\ UNCHANGED <<older, holes, intact>>

Replace(k, v) ==
  /\ val[k] # NoValue
  /\ val' = [val EXCEPT ![k] = v]
  /\ UNCHANGED <<older, holes, intact>>

Cover(k, v) ==
  /\ val[k] # NoValue
  /\ holes
  /\ val' = [val EXCEPT ![k] = v]
  /\ older' = [older EXCEPT ![k] = @ \union {val[k]}]
  /\ UNCHANGED <<holes, intact>>

Remove(k) ==
  /\ val[k] # NoValue
  /\ \E v \in older[k] \union {NoValue} :
       /\ val' = [val EXCEPT ![k] = v]
       /\ older' = IF v = NoValue THEN [older EXCEPT ![k] = {}] ELSE older
  /\ holes' = TRUE
  /\ UNCHANGED intact

Clear ==
  /\ val' = [k \in Key |-> NoValue]
  /\ older' = [k \in Key |-> {}]
  /\ holes' = FALSE
  /\ UNCHANGED intact

(* Every key keeps one of its values, and no hole is left.                 *)
Grow ==
  /\ val' \in [Key -> Value \union {NoValue}]
  /\ \A k \in Key : IF val[k] = NoValue THEN val'[k] = NoValue
                                        ELSE val'[k] \in older[k] \union {val[k]}
  /\ older' = [k \in Key |-> {}]
  /\ holes' = FALSE
  /\ UNCHANGED intact

Next ==
  \/ ~ intact'          \* nothing is promised any more
  \/ \E k \in Key, v \in Value : Add(k, v) \/ Replace(k, v) \/ Cover(k, v)
  \/ \E k \in Key : Remove(k)
  \/ Clear
  \/ Grow

Spec == Init /\ [][Next]_vars
=============================================================================
