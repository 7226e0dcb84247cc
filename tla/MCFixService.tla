---------------------------- MODULE MCFixService ----------------------------
(***************************************************************************)
(* FixService on a small instance.                                         *)
(***************************************************************************)
EXTENDS FixService
=============================================================================
