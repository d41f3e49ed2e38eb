------------------------------ MODULE MCBuffers ------------------------------
(* Model checking of Buffers: the recomputations are interchangeable.      *)
EXTENDS Buffers, TLC

RecomputerSymmetry == Permutations(Recomputers)
===============================================================================
