------------------------------ MODULE MCImports ------------------------------
(* Three modules for TLC, with every graph of up to two imports of each,   *)
(* of the third up to one.                                                 *)
EXTENDS Imports

CONSTANTS m1, m2, m3, here, lib

MCModule == {m1, m2, m3}
MCDir == {here, lib}
MCContent == [d \in MCDir |-> IF d = here THEN {m1, m2} ELSE {m2, m3}]

Lists == {<<>>} \union {<<m>> : m \in MCModule}
         \union {<<m, n>> : m \in MCModule, n \in MCModule}

MCPrograms ==
  {p \in [MCModule -> {l \in Lists : Len(l) < 2 \/ l[1] # l[2]}] : Len(p[m3]) < 2}
=============================================================================
