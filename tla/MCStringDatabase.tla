-------------------------- MODULE MCStringDatabase --------------------------
(* Two threads, one with two StringRef objects and one with one, two texts *)
(* besides "", and blocks of two entries: the third entry opens a block.   *)
EXTENDS StringDatabase

CONSTANTS t1, t2, a, b, c
OwnerDef == [s \in {a, b, c} |-> IF s = c THEN t2 ELSE t1]
=============================================================================
