----------------------------- MODULE MCCollector -----------------------------
(* Two addresses and two references of the client: a chain, a cycle, and   *)
(* an address handed out again while the other block refers to it.         *)
EXTENDS Collector, TLC

CONSTANTS a1, a2

\* Addresses and references are interchangeable: for counterexamples, which
\* need no liveness.
Symmetry == Permutations(Addr) \union Permutations(Slot)
=============================================================================
