----------------------------- MODULE MCTransition -----------------------------
(* Symmetry of the processes, for TLC. *)
EXTENDS TransitionProperties, TLC

Symmetry == Permutations(Proc)
=============================================================================
