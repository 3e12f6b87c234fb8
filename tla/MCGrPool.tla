------------------------------ MODULE MCGrPool ------------------------------
(* Instances of GrPool for TLC. *)
EXTENDS GrPool, TLC

(* Calls are interchangeable; used by the safety runs only. *)
Symmetry == Permutations(Calls)
=============================================================================
