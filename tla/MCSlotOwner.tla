---------------------------- MODULE MCSlotOwner ----------------------------
(* Small instances of SlotOwner: two planner calls, or one among strangers. *)
EXTENDS SlotOwner, TLC

CONSTANTS plan1, plan2, planner

RoleOf == [r \in Requests |-> planner]
Symmetry == Permutations(Requests)
=============================================================================
