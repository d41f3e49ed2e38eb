----------------------------- MODULE MCSmartBlocks -----------------------------
(* One working range a day; a meeting cuts that of the first day in two    *)
(* (unless the merge gap swallows it) and that of the second day short.    *)
EXTENDS SmartBlocks

MCWeek == [d \in 0..6 |-> <<Window(0, 4)>>]
MCMeetings == {Window(1, 2), Window(5, 8)}
MCSettings == {[min |-> 1, gap |-> 0], [min |-> 2, gap |-> 1]}

(* The plans are what the proofs take them to be.                          *)
ASSUME MCPlansApart == PlansApart

RecomputerSymmetry == Permutations(Recomputers)
===============================================================================
