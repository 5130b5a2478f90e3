-------------------------- MODULE MCActionJournal ---------------------------
(* Instances of ActionJournal for TLC. *)
EXTENDS ActionJournal, TLC

CONSTANTS j1, j2, r1, r2, e1, e2, c1, c2

MCAmount == j1 :> 1 @@ j2 :> 2
Symmetry == Permutations(Callers) \cup Permutations(Roots)
=============================================================================
