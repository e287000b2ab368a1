-------------------------- MODULE MCHalogenService --------------------------
(***************************************************************************)
(* TLC instances of HalogenService.  Runs are interchangeable.             *)
(***************************************************************************)
EXTENDS HalogenService, TLC

RunSymmetry == Permutations(Runs)
=============================================================================
