--------------------------- MODULE MCController ---------------------------
(* Small instances of Controller. *)
EXTENDS Controller, TLC

HandSymmetry == Permutations(Foreign)
=============================================================================
