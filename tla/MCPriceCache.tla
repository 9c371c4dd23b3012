--------------------------- MODULE MCPriceCache ---------------------------
(* Instances of PriceCache for TLC. *)
EXTENDS PriceCache, TLC

CONSTANTS c1, c2, c3, t1, t2, t3

Symmetry == Permutations(Callers) \cup Permutations(Tasks)

=============================================================================
