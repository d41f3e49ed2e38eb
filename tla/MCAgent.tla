------------------------------- MODULE MCAgent -------------------------------
(* Requests are alike, so TLC may take them for one another.               *)
EXTENDS Agent, TLC

Symmetry == Permutations(Requests)
=============================================================================
