------------------------------ MODULE MCAgent ------------------------------
(* The agent with the symmetry its invariants allow: cards and clients are    *)
(* compared for equality only.                                                *)
EXTENDS Agent, TLC

Symmetry == Permutations(Cards) \cup Permutations(Clients)
====
