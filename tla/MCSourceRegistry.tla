-------------------------- MODULE MCSourceRegistry --------------------------
(* The registry for TLC: sources, connections and leases are alike.         *)
EXTENDS SourceRegistry, TLC

Symmetry ==
  Permutations(Sources) \cup Permutations(Conns) \cup Permutations(Listeners)
=============================================================================
