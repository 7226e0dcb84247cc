------------------------------ MODULE MCTrash ------------------------------
(***************************************************************************)
(* Trash on a small instance: what is symmetric.                           *)
(***************************************************************************)
EXTENDS Trash, TLC

MCSymmetry == Permutations(Pieces) \cup Permutations(Undoers)
=============================================================================
